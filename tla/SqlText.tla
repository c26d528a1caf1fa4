------------------------------ MODULE SqlText ------------------------------
(***************************************************************************)
(* The SQL normalizer (sql_util.go): one pass over the statement that puts  *)
(* numbered placeholders for the literals, collects the literals as         *)
(* parameters, and drops the comments when SQL.RemoveComments is on.  The   *)
(* output is not written until the first change: up to there it is the      *)
(* statement itself.                                                        *)
(*                                                                          *)
(* A byte stands for its class: "'" "," "/" "*" "-" "$", "1" a digit, "e" a *)
(* letter that may also continue a number, "n" a newline.  A placeholder is *)
(* a token of the output.                                                   *)
(***************************************************************************)
EXTENDS Naturals, Sequences, SequencesExt, FiniteSets

CONSTANTS
  Statements, \* sequences of bytes
  None

VARIABLES
  sql, removeComments,
  pos,     \* the next byte to read
  numberTokenStartEnable, materialized,
  output,  \* bytes and placeholders, once materialized
  param,   \* the parameters joined by commas, their own commas doubled
  params,  \* the parameters, in order
  dropped, \* positions of the comments removed
  open     \* the statement ended inside a literal

vars == <<sql, removeComments, pos, numberTokenStartEnable, materialized,
          output, param, params, dropped, open>>

Init ==
  /\ sql \in Statements /\ removeComments \in BOOLEAN
  /\ pos = 1 /\ numberTokenStartEnable = TRUE
  /\ materialized = FALSE /\ output = <<>> /\ param = <<>> /\ params = <<>>
  /\ dropped = {} /\ open = FALSE

ch == sql[pos]
lookahead(b) == pos < Len(sql) /\ sql[pos + 1] = b

\* The output so far, started at the first change with the prefix before it.
Plain(bytes) ==
  [i \in DOMAIN bytes |-> [byte |-> bytes[i], mark |-> None, index |-> 0]]

materializeLate(upto) ==
  IF materialized THEN output ELSE Plain(SubSeq(sql, 1, upto + 1))

materialize(upto) == IF materialized THEN output ELSE Plain(SubSeq(sql, 1, upto))

Emitted(bytes) == IF materialized THEN output \o Plain(bytes) ELSE output

\* startParam, and the literal's bytes with each comma written twice.
Parameter(bytes) ==
  /\ params' = Append(params, bytes)
  /\ param' = (IF param = <<>> THEN <<>> ELSE Append(param, ","))
               \o FlattenSeq([i \in DOMAIN bytes |->
                                IF bytes[i] = "," THEN <<",", ",">> ELSE <<bytes[i]>>])

\* writeParamIndex, and "$" or "#" after it.
Placeholder(mark) == <<[byte |-> None, mark |-> mark, index |-> Len(params)]>>

-----------------------------------------------------------------------------

CommentTerm ==
  CASE ch = "/" /\ lookahead("/") -> <<"n">>
    [] ch = "-" /\ lookahead("-") -> <<"n">>
    [] ch = "/" /\ lookahead("*") -> <<"*", "/">>
    [] OTHER -> None

\* The last byte of the comment at pos: its terminator's, or the statement's.
CommentEnd(term) ==
  LET starts == {i \in pos + 2 .. Len(sql) - Len(term) + 1 :
                   SubSeq(sql, i, i + Len(term) - 1) = term}
  IN IF starts = {} THEN Len(sql)
     ELSE (CHOOSE i \in starts : \A j \in starts : i <= j) + Len(term) - 1

consumeComment ==
  /\ pos <= Len(sql) /\ CommentTerm # None
  /\ LET end == CommentEnd(CommentTerm)
     IN /\ pos' = end + 1
        /\ IF removeComments
           THEN /\ materialized' = TRUE /\ output' = materialize(pos - 1)
                /\ dropped' = dropped \cup (pos .. end)
           ELSE /\ output' = Emitted(SubSeq(sql, pos, end))
                /\ UNCHANGED <<materialized, dropped>>
  /\ UNCHANGED <<sql, removeComments, numberTokenStartEnable, param, params, open>>

\* Two quotes in a row are an empty literal, copied as they are.
EmptyLiteral ==
  /\ pos <= Len(sql) /\ ch = "'" /\ lookahead("'")
  /\ output' = Emitted(<<"'", "'">>)
  /\ pos' = pos + 2
  /\ UNCHANGED <<sql, removeComments, numberTokenStartEnable, materialized,
                 param, params, dropped, open>>

\* The closing quote of the literal at pos: the quotes before it are doubled.
IsClosing(i) ==
  /\ sql[i] = "'" /\ (i = Len(sql) \/ sql[i + 1] # "'")
  /\ \E k \in pos + 1 .. i : /\ \A j \in k .. i : sql[j] = "'"
                             /\ sql[k - 1] # "'" /\ (i - k) % 2 = 0

consumeCharLiteral ==
  /\ pos <= Len(sql) /\ ch = "'" /\ ~lookahead("'")
  /\ materialized' = TRUE
  /\ LET ends == {i \in pos + 1 .. Len(sql) : IsClosing(i)}
     IN IF ends = {}
        THEN /\ Parameter(SubSeq(sql, pos + 1, Len(sql)))
             /\ output' = materialize(pos - 1) \o Plain(<<"'">>)
             /\ pos' = Len(sql) + 1 /\ open' = TRUE
        ELSE LET end == CHOOSE i \in ends : \A j \in ends : i <= j
             IN /\ Parameter(SubSeq(sql, pos + 1, end - 1))
                /\ output' = materialize(pos - 1) \o Plain(<<"'">>)
                              \o Placeholder("$") \o Plain(<<"'">>)
                /\ pos' = end + 1 /\ UNCHANGED open
  /\ UNCHANGED <<sql, removeComments, numberTokenStartEnable, dropped>>

consumeNumberLiteral ==
  /\ pos <= Len(sql) /\ ch = "1" /\ numberTokenStartEnable
  /\ materialized' = TRUE
  /\ LET stops == {i \in pos .. Len(sql) : sql[i] \notin {"1", "e"}} \cup {Len(sql) + 1}
         end == CHOOSE i \in stops : \A j \in stops : i <= j
     IN /\ Parameter(SubSeq(sql, pos, end - 1))
        /\ output' = materialize(pos - 1) \o Placeholder("#")
        /\ pos' = end
  /\ UNCHANGED <<sql, removeComments, numberTokenStartEnable, dropped, open>>

\* Any other byte is copied, and says whether a number may start after it.
emit ==
  /\ pos <= Len(sql) /\ CommentTerm = None /\ ch # "'"
  /\ ch = "1" => ~numberTokenStartEnable
  /\ output' = Emitted(<<ch>>)
  /\ numberTokenStartEnable' =
       CASE ch = "1" -> FALSE
         [] ch = "e" -> FALSE
         [] ch = "$" -> numberTokenStartEnable /\ ~lookahead("1")
         [] OTHER -> TRUE
  /\ pos' = pos + 1
  /\ UNCHANGED <<sql, removeComments, materialized, param, params, dropped, open>>

Next == consumeComment \/ EmptyLiteral \/ consumeCharLiteral
          \/ consumeNumberLiteral \/ emit

Spec == Init /\ [][Next]_vars

-----------------------------------------------------------------------------

Result == IF materialized THEN output ELSE Plain(sql)

\* The statement a reader gets by putting the parameters back.
Refilled ==
  FlattenSeq([i \in DOMAIN Result |->
                IF Result[i].mark = None THEN <<Result[i].byte>>
                ELSE params[Result[i].index + 1]])
    \o (IF open THEN params[Len(params)] ELSE <<>>)

Kept == SelectSeq([i \in DOMAIN sql |-> IF i \in dropped THEN None ELSE sql[i]],
                  LAMBDA b : b # None)

\* The collector splits the joined text at its single commas.
Split ==
  LET step(acc, b) ==
        CASE b = "," /\ acc.comma ->
               [acc EXCEPT !.last = Append(@, ","), !.comma = FALSE]
          [] b = "," /\ ~acc.comma -> [acc EXCEPT !.comma = TRUE]
          [] OTHER -> IF acc.comma
                      THEN [done |-> Append(acc.done, acc.last), last |-> <<b>>,
                            comma |-> FALSE]
                      ELSE [acc EXCEPT !.last = Append(@, b)]
      end == FoldLeft(step, [done |-> <<>>, last |-> <<>>, comma |-> FALSE], param)
  IN IF end.comma THEN end.done \o <<end.last, <<>>>> ELSE Append(end.done, end.last)

LeadingComma == \E k \in 2 .. Len(params) : params[k] # <<>> /\ params[k][1] = ","

(* A finished pass loses nothing and mixes nothing up: with the parameters  *)
(* put back where their placeholders stand, the output is the statement     *)
(* less the comments removed, literals cut by comments, doubled quotes,     *)
(* bind markers and an unfinished literal included, wherever the output was *)
(* first written; and the joined text splits into those parameters again,   *)
(* unless one after the first begins with a comma.                          *)
ParametersRestore ==
  pos > Len(sql) => /\ Refilled = Kept
                    /\ params # <<>> /\ ~LeadingComma => Split = params
=============================================================================
