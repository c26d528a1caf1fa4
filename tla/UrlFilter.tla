------------------------------ MODULE UrlFilter ------------------------------
(***************************************************************************)
(* Http.Server.ExcludeUrl (plugin/http/url.go): the patterns are compiled   *)
(* once, most into a lookup or a prefix test, the others into tokens that a *)
(* two-row dynamic program matches.  One scratch buffer serves all patterns *)
(* of a request and reaches each of them as the previous one left it.       *)
(*                                                                          *)
(* A URL is a sequence of bytes.  Lead and Cont are the bytes of one        *)
(* two-byte character; either of them alone is an invalid byte, which       *)
(* decodes as a character of its own.                                       *)
(***************************************************************************)
EXTENDS Naturals, Sequences, SequencesExt, FiniteSets

CONSTANTS
  Filters,    \* the configured pattern lists
  Urls,       \* the request paths
  Lead, Cont  \* the bytes of a multi-byte character

VARIABLES
  filters,  \* the patterns, in the order of the configuration
  url,      \* the path of the request
  at,       \* the next pattern to try
  scratch,  \* the rows <<cur, next>> as the last pattern left them
  filtered  \* a pattern has matched

vars == <<filters, url, at, scratch, filtered>>

Positions == 0..Len(url)

ClearRow == [j \in Positions |-> FALSE]

Init ==
  /\ filters \in Filters /\ url \in Urls
  /\ at = 1 /\ filtered = FALSE
  /\ scratch = <<ClearRow, ClearRow>>

-----------------------------------------------------------------------------
(* newHttpExcludeUrl *)

Wild == {"*", "?"}

containsWildcard(s) == \E i \in DOMAIN s : s[i] \in Wild

DoubleStarEnd(p) == Len(p) >= 2 /\ p[Len(p)] = "*" /\ p[Len(p) - 1] = "*"

patternKind(p) ==
  CASE ~containsWildcard(p) -> "exact"
    [] DoubleStarEnd(p) /\ ~containsWildcard(SubSeq(p, 1, Len(p) - 2)) -> "prefix"
    [] ~DoubleStarEnd(p) /\ p[Len(p)] = "*"
         /\ ~containsWildcard(SubSeq(p, 1, Len(p) - 1)) -> "segmentPrefix"
    [] OTHER -> "ant"

literalPrefix(p) ==
  SubSeq(p, 1, Cardinality({i \in DOMAIN p : \A k \in 1..i : p[k] \notin Wild}))

\* The compiled tokens, read left to right: "**/" before "**" before "*".
tokens(p) ==
  LET from[i \in 1..Len(p) + 3] ==
        IF i > Len(p) THEN <<>>
        ELSE IF p[i] = "*" /\ i < Len(p) /\ p[i + 1] = "*"
             THEN IF i + 1 < Len(p) /\ p[i + 2] = "/"
                  THEN <<"**/">> \o from[i + 3] ELSE <<"**">> \o from[i + 2]
             ELSE <<p[i]>> \o from[i + 1]
  IN  from[1]

minLength(p) == Cardinality({i \in DOMAIN tokens(p) : tokens(p)[i] \notin {"*", "**", "**/"}})

antCandidate(p) == Len(url) >= minLength(p) /\ IsPrefix(literalPrefix(p), url)

-----------------------------------------------------------------------------
(* antMatch: row j answers "the tokens not yet processed match url[j:]".    *)

\* The character that starts at byte j (from 0), and its length in bytes.
CharLen(j) == IF url[j + 1] = Lead /\ j + 2 \in DOMAIN url /\ url[j + 2] = Cont
              THEN 2 ELSE 1

IsCharStart(j) == ~(url[j + 1] = Cont /\ j > 0 /\ url[j] = Lead)

\* The row tokenQuestion writes over the row `base'.
QuestionOver(base, next) ==
  [j \in Positions |->
     IF j < Len(url) /\ IsCharStart(j)
     THEN url[j + 1] # "/" /\ next[j + CharLen(j)] ELSE base[j]]

QuestionDirty(cur, next) == QuestionOver(cur, next)

Question(cur, next) == QuestionOver(ClearRow, next)

\* From the end of the URL: "*" extends over a segment, "**" over anything, and
\* "**/" over whole segments.
Star(next) ==
  LET cur[j \in Positions] ==
        next[j] \/ (j < Len(url) /\ url[j + 1] # "/" /\ cur[j + 1])
  IN  cur

DoubleStar(next) ==
  LET running[j \in Positions] == next[j] \/ (j < Len(url) /\ running[j + 1])
  IN  running

DoubleStarSlash(next) ==
  LET running[j \in Positions] ==
        j < Len(url) /\ ((url[j + 1] = "/" /\ next[j + 1]) \/ running[j + 1])
  IN  [j \in Positions |-> next[j] \/ running[j]]

Literal(c, next) ==
  [j \in Positions |-> j < Len(url) /\ url[j + 1] = c /\ next[j + 1]]

Row(t, cur, next) ==
  CASE t = "?" -> Question(cur, next)
    [] t = "*" -> Star(next)
    [] t = "**" -> DoubleStar(next)
    [] t = "**/" -> DoubleStarSlash(next)
    [] OTHER -> Literal(t, next)

\* The rows after all tokens, the last one first; cur and next swap each time.
antMatch(p, rows) ==
  LET ts == tokens(p)
      start == [ClearRow EXCEPT ![Len(url)] = TRUE]
      done[n \in 0..Len(ts)] ==
        IF n = 0 THEN <<rows[1], start>>
        ELSE LET r == done[n - 1]
             IN  <<r[2], Row(ts[Len(ts) + 1 - n], r[1], r[2])>>
  IN  done[Len(ts)]

-----------------------------------------------------------------------------
(* isFiltered: the exact patterns, the prefixes, and then each Ant pattern. *)

NoSlash(j, k) == \A i \in j + 1..k : url[i] # "/"

exactOrPrefix(p) ==
  CASE patternKind(p) = "exact" -> url = p
    [] patternKind(p) = "prefix" -> IsPrefix(literalPrefix(p), url)
    [] patternKind(p) = "segmentPrefix" ->
         IsPrefix(literalPrefix(p), url) /\ NoSlash(Len(literalPrefix(p)), Len(url))
    [] OTHER -> FALSE

isFiltered ==
  /\ at = 1 /\ ~filtered
  /\ \E i \in DOMAIN filters : exactOrPrefix(filters[i])
  /\ filtered' = TRUE /\ at' = Len(filters) + 1
  /\ UNCHANGED <<filters, url, scratch>>

antFiltered ==
  /\ at <= Len(filters) /\ ~filtered
  /\ \A i \in DOMAIN filters : ~exactOrPrefix(filters[i])
  /\ IF patternKind(filters[at]) = "ant" /\ antCandidate(filters[at])
     THEN LET rows == antMatch(filters[at], scratch)
          IN  /\ filtered' = rows[2][0]
              /\ scratch' = IF Len(tokens(filters[at])) % 2 = 0 THEN rows
                            ELSE <<rows[2], rows[1]>>
     ELSE UNCHANGED <<filtered, scratch>>
  /\ at' = at + 1
  /\ UNCHANGED <<filters, url>>

Next == isFiltered \/ antFiltered

Spec == Init /\ [][Next]_vars

-----------------------------------------------------------------------------
(* The reference: a pattern read character by character against the URL.    *)

Follows(p, i, s) == i + Len(s) - 1 <= Len(p) /\ SubSeq(p, i, i + Len(s) - 1) = s

Matches(p) ==
  LET m[i \in 1..Len(p) + 3, j \in Positions] ==
        IF i > Len(p) THEN i = Len(p) + 1 /\ j = Len(url)
        ELSE IF Follows(p, i, <<"*", "*", "/">>)
        THEN m[i + 3, j] \/ \E k \in j + 1..Len(url) : url[k] = "/" /\ m[i + 3, k]
        ELSE IF Follows(p, i, <<"*", "*">>)
        THEN \E k \in j..Len(url) : m[i + 2, k]
        ELSE IF p[i] = "*"
        THEN \E k \in j..Len(url) : NoSlash(j, k) /\ m[i + 1, k]
        ELSE IF p[i] = "?"
        THEN j < Len(url) /\ url[j + 1] # "/" /\ IsCharStart(j) /\ m[i + 1, j + CharLen(j)]
        ELSE j < Len(url) /\ url[j + 1] = p[i] /\ m[i + 1, j + 1]
  IN  m[1, 0]

(* A request is excluded exactly when one of its patterns matches its path, *)
(* whichever fast path a pattern was compiled to and whatever the patterns  *)
(* tried before it left in the scratch rows.                                *)
FilteredIffMatches ==
  at > Len(filters) \/ filtered
    => filtered = (\E i \in DOMAIN filters : Matches(filters[i]))
=============================================================================
