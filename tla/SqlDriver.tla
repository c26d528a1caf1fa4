------------------------------ MODULE SqlDriver ------------------------------
(***************************************************************************)
(* The database/sql wrapper (sql_driver.go).  WrapSQLDriver puts sqlConn,  *)
(* sqlStmt and sqlTx between database/sql and a driver.  database/sql      *)
(* decides by type assertion what a driver can do, and the wrapper answers *)
(* every assertion, so it repeats database/sql's own fallbacks for the     *)
(* interfaces the driver lacks.                                            *)
(*                                                                         *)
(* One session runs twice in lockstep, on the driver itself ("bare") and   *)
(* on the wrapped one ("wrapped"); the driver gives both the same answers. *)
(* The database/sql half, with its fallbacks, is external.                 *)
(***************************************************************************)
EXTENDS Integers, Sequences, FiniteSets, SequencesExt

CONSTANTS Drivers,   \* sets of optional interfaces, one per driver considered, with
                     \* "NumInput" if its statements count their placeholders
          MaxOps     \* operations in a session

VARIABLES caps,      \* the driver's optional interfaces
          db,        \* where the connection's DBInfo comes from; "closed" before it opens
          cfg,       \* SQL.TraceCommit and SQL.TraceRollback, as the set of those on
          side,      \* what each session saw in its last operation
          tx,        \* the transaction: "none" or "open"
          txCtx,     \* whether the transaction's context is live
          pooled,    \* whether each session's connection is still in the pool
          ops

vars == <<caps, db, cfg, side, tx, txCtx, pooled, ops>>

Sides == {"bare", "wrapped"}

\* One operation: its context ("live", "done" before it, or "expires" during the
\* first driver call), its argument, the driver's answers to each call.
Blank == [calls |-> <<>>, events |-> <<>>, err |-> "ok", arg |-> "none", got |-> <<>>]

Err(s, e) == [s EXCEPT !.err = e]

\* The driver runs one call and answers it; a statement comes with the argument.
Invoke(s, o, call) ==
    [s EXCEPT !.calls = Append(@, call), !.err = o.answer[call],
              !.got = IF call \in {"ConnExec", "StmtExec"} THEN Append(@, s.arg) ELSE @]

\* What is made of an argument: "value", a driver.Value; "own", the driver's own type
\* it accepted; "raw", passed as it came; "refused"; or "skip", for the next to say.
\* A driver's NamedValueChecker answers for its own types and leaves the rest.
DriverChecker(arg) == IF arg = "custom" THEN "own" ELSE "skip"
DriverConverter(arg) == IF arg = "custom" THEN "own" ELSE "value"
DefaultConverter(arg) == IF arg = "custom" THEN "refused" ELSE "value"

Expired(s, o) == o.ctx = "done" \/ (o.ctx = "expires" /\ s.calls # <<>>)

Chain(s, f(_)) == IF s.err = "ok" THEN f(s) ELSE s

-----------------------------------------------------------------------------
(* The wrapper *)

\* newSqlSpanEvent
newSqlSpanEvent(s, op) == [s EXCEPT !.events = Append(@, op)]

\* A named parameter is refused; a context already done fails the call.
legacyArgs(s, o) ==
    Err(s, IF o.arg = "named" THEN "named" ELSE IF Expired(s, o) THEN "ctx" ELSE "ok")

\* A statement the driver hands back to be prepared is recorded here too.
RecordedAlways(s, op) == newSqlSpanEvent(s, op)

\* ErrSkip sends database/sql to Prepare, and the statement records itself.
Recorded(s, op) == IF s.err = "skip" THEN s ELSE newSqlSpanEvent(s, op)

\* sqlConn.ExecContext and QueryContext
ConnExecContext(s, o) ==
    IF "ExecerContext" \in caps THEN Recorded(Invoke(s, o, "ConnExec"), "ConnExec")
    ELSE IF "Execer" \notin caps THEN Err(s, "skip")
    ELSE Chain(legacyArgs(s, o), LAMBDA t : Recorded(Invoke(t, o, "ConnExec"), "ConnExec"))

\* sqlStmt.ExecContext and QueryContext
StmtExecContext(s, o) ==
    IF "StmtContext" \in caps THEN newSqlSpanEvent(Invoke(s, o, "StmtExec"), "StmtExec")
    ELSE Chain(legacyArgs(s, o), LAMBDA t : newSqlSpanEvent(Invoke(t, o, "StmtExec"), "StmtExec"))

\* sqlConn.PrepareContext
PrepareContext(s, o) ==
    LET p == Invoke(s, o, "Prepare")
    IN  IF "PrepareContext" \in caps \/ p.err # "ok" \/ ~ Expired(p, o) THEN p
        ELSE Err([p EXCEPT !.calls = Append(@, "StmtClose")], "ctx")

\* The driver's half of sqlConn.BeginTx.
BeginFallback(s, o) ==
    IF "BeginTx" \in caps THEN Invoke(s, o, "Begin")
    ELSE IF o.opts # "default" THEN Err(s, o.opts)
    ELSE LET b == Invoke(s, o, "Begin")
         IN  IF b.err = "ok" /\ Expired(b, o)
             THEN Err([b EXCEPT !.calls = Append(@, "Rollback")], "ctx")
             ELSE b

\* sqlConn.BeginTx: recorded when commits or rollbacks are, unless the fallback
\* returned before.
BeginTx(s, o) ==
    LET b == BeginFallback(s, o)
        returned == "BeginTx" \notin caps /\ b.err \in {"isolation", "readonly", "ctx"}
    IN  IF cfg = {} \/ returned THEN b ELSE newSqlSpanEvent(b, "Begin")

\* sqlTx.Commit.  The wrapper exists when either option was on at BeginTx.
Commit(s, o) ==
    LET c == Invoke(s, o, "Commit") IN IF "commit" \in cfg THEN newSqlSpanEvent(c, "Commit") ELSE c

\* sqlTx.Rollback, not recorded once the transaction's context is done.
Rollback(s, o) ==
    LET r == Invoke(s, o, "Rollback")
    IN  IF txCtx = "live" /\ "rollback" \in cfg THEN newSqlSpanEvent(r, "Rollback") ELSE r

\* WrapSQLDriver has DriverContext exactly when the driver does.
WrapSQLDriver == caps \cap {"DriverContext"}

\* sqlDriver.Open, or OpenConnector and sqlConnector.Connect: the driver's own
\* call, its error handed back.
Open(s, o) == Invoke(s, o, "Open")
OpenConnector(s, o) == Chain(Invoke(s, o, "OpenConnector"), LAMBDA t : Invoke(t, o, "Connect"))

\* parseDSN, then parseConn for a name it could not read.
parseConn(parsed) == IF parsed = "" /\ "ParseConn" \in caps THEN "conn" ELSE parsed

\* A connection claims both session interfaces.
withSessionInterfacesBoth == {"SessionResetter", "Validator"}

\* withSessionInterfaces
withSessionInterfaces == caps \cap {"SessionResetter", "Validator"}

\* A statement's arguments are not shown to the connection's checker.
CheckNamedValueOwn(level, arg) ==
    IF (IF level = "stmt" THEN "StmtChecker" ELSE "ConnChecker") \in caps
    THEN DriverChecker(arg) ELSE "skip"

\* sqlConn.CheckNamedValue, and sqlStmt.CheckNamedValue, which falls back to the
\* connection's.  Both are always there, and skip for a driver with neither.
CheckNamedValue(level, arg) ==
    IF "ConnChecker" \in caps \/ (level = "stmt" /\ "StmtChecker" \in caps)
    THEN DriverChecker(arg) ELSE "skip"

\* sqlStmt.ColumnConverter, always there too.
ColumnConverter(arg) ==
    IF "ColumnConverter" \in caps THEN DriverConverter(arg) ELSE DefaultConverter(arg)

-----------------------------------------------------------------------------
(* database/sql (external) *)

\* The NamedValueChecker that driverArgsConnLocked finds: a statement's before its
\* connection's.
namedValueChecker(w, level, arg) ==
    IF w = "wrapped" THEN CheckNamedValue(level, arg)
    ELSE IF "ConnChecker" \in caps \/ (level = "stmt" /\ "StmtChecker" \in caps)
    THEN DriverChecker(arg) ELSE "skip"

\* ccChecker: the column converter is not asked about a placeholder the statement
\* does not count, and the argument goes on as it is.
ccChecker(w, arg) ==
    IF "NumInput" \notin caps THEN "raw"
    ELSE IF w = "wrapped" THEN ColumnConverter(arg) ELSE DriverConverter(arg)

\* driverArgsConnLocked: the checker, if it skips the statement's column converter,
\* and only without one the default.
driverArgs(w, s, o, level) ==
    LET checked == namedValueChecker(w, level, o.arg)
        converts == level = "stmt" /\ (w = "wrapped" \/ "ColumnConverter" \in caps)
        arg == IF checked # "skip" THEN checked
               ELSE IF converts THEN ccChecker(w, o.arg) ELSE DefaultConverter(o.arg)
    IN  IF arg = "refused" THEN Err(s, "convert") ELSE [s EXCEPT !.arg = arg]

HasExecer(w) == w = "wrapped" \/ caps \cap {"ExecerContext", "Execer"} # {}

\* DB.conn on a database opened by name; the connector fails in either half.
Opened(w, out) ==
    LET o == [answer |-> [c \in {"Open", "OpenConnector", "Connect"} |->
                             IF c = "OpenConnector" THEN "ok" ELSE out]]
        ifs == IF w = "wrapped" THEN WrapSQLDriver ELSE caps
    IN  IF "DriverContext" \in ifs THEN OpenConnector(Blank, o) ELSE Open(Blank, o)

ctxDriverExec(w, s, o) ==
    IF w = "wrapped" THEN ConnExecContext(s, o)
    ELSE IF "ExecerContext" \in caps THEN Invoke(s, o, "ConnExec")
    ELSE IF o.arg = "named" THEN Err(s, "named")
    ELSE IF Expired(s, o) THEN Err(s, "ctx")
    ELSE Invoke(s, o, "ConnExec")

ctxDriverPrepare(w, s, o) ==
    IF w = "wrapped" THEN PrepareContext(s, o)
    ELSE LET p == Invoke(s, o, "Prepare")
         IN  IF "PrepareContext" \notin caps /\ p.err = "ok" /\ Expired(p, o)
             THEN Err([p EXCEPT !.calls = Append(@, "StmtClose")], "ctx") ELSE p

ctxDriverStmtExec(w, s, o) ==
    IF w = "wrapped" THEN StmtExecContext(s, o)
    ELSE IF "StmtContext" \in caps THEN Invoke(s, o, "StmtExec")
    ELSE IF o.arg = "named" THEN Err(s, "named")
    ELSE IF Expired(s, o) THEN Err(s, "ctx")
    ELSE Invoke(s, o, "StmtExec")

\* Prepare, run, close.
prepared(w, s, o) ==
    Chain(ctxDriverPrepare(w, Err(s, "ok"), o),
          LAMBDA p : LET r == Chain(driverArgs(w, p, o, "stmt"),
                                    LAMBDA t : ctxDriverStmtExec(w, t, o))
                     IN  [r EXCEPT !.calls = Append(@, "StmtClose")])

\* execDC and queryDC
execDC(w, s, o) ==
    LET direct == IF HasExecer(w)
                  THEN Chain(driverArgs(w, s, o, "conn"), LAMBDA t : ctxDriverExec(w, t, o))
                  ELSE Err(s, "skip")
    IN  IF direct.err = "skip" THEN prepared(w, direct, o) ELSE direct

ctxDriverBegin(w, s, o) ==
    IF w = "wrapped" THEN BeginTx(s, o)
    ELSE IF "BeginTx" \in caps THEN Invoke(s, o, "Begin")
    ELSE IF o.opts # "default" THEN Err(s, o.opts)
    ELSE LET b == Invoke(s, o, "Begin")
         IN  IF b.err = "ok" /\ Expired(b, o)
             THEN Err([b EXCEPT !.calls = Append(@, "Rollback")], "ctx") ELSE b

\* A connection is kept after the rollback of a context that ended only if it can
\* be reset and validated.
keepConnOnRollback(w) ==
    {"SessionResetter", "Validator"} \subseteq
       IF w = "wrapped" THEN withSessionInterfaces ELSE caps

-----------------------------------------------------------------------------

Outcomes == {"ok", "error"}
Operation(ctx, arg, opts, answer) == [ctx |-> ctx, arg |-> arg, opts |-> opts, answer |-> answer]
Simple(call, out) == Operation("live", "plain", "default", [c \in {call} |-> out])

Step == db # "closed" /\ ops < MaxOps /\ ops' = ops + 1 /\ UNCHANGED <<caps, db, cfg>>

\* database/sql opens the connection through the connector if the driver has
\* one; the name's database is parsed, the connection's only if that found none.
Connect ==
    /\ db = "closed"
    /\ \E out \in Outcomes, parsed \in {"dsn", ""} :
          /\ side' = [w \in Sides |-> Opened(w, out)]
          /\ db' = IF out = "error" THEN db ELSE parseConn(parsed)
    /\ UNCHANGED <<caps, cfg, tx, txCtx, pooled, ops>>

\* The driver's answers to a statement; one it is not asked for is "ok".
Answers ==
    LET asked(c, p, s) == [ConnExec |-> c, Prepare |-> p, StmtExec |-> s]
    IN  {asked(c, "ok", "ok") : c \in Outcomes}
        \cup {asked("skip", "ok", s) : s \in Outcomes} \cup {asked("skip", "error", "ok")}

\* ExecContext or QueryContext, on the connection or on a statement prepared for it.
Execute ==
    /\ Step
    /\ \E ctx \in {"live", "done", "expires"}, arg \in {"plain", "named", "custom"},
          answer \in Answers, direct \in BOOLEAN :
          LET o == Operation(ctx, arg, "default", answer)
          IN  /\ direct \/ answer.ConnExec = "skip"
              /\ side' = [w \in Sides |-> IF direct THEN execDC(w, Blank, o) ELSE prepared(w, Blank, o)]
    /\ UNCHANGED <<tx, txCtx, pooled>>

Begin ==
    /\ Step /\ tx = "none"
    /\ \E ctx \in {"live", "done", "expires"}, out \in Outcomes,
          opts \in {"default", "isolation", "readonly"} :
          LET o == Operation(ctx, "plain", opts, [c \in {"Begin"} |-> out])
          IN  /\ side' = [w \in Sides |-> ctxDriverBegin(w, Blank, o)]
              /\ tx' = IF side'["bare"].err = "ok" THEN "open" ELSE "none"
              /\ txCtx' = IF ctx = "live" THEN "live" ELSE "done"
    /\ UNCHANGED pooled

\* Tx.Commit or Tx.Rollback by the application.
Finish ==
    /\ Step /\ tx = "open"
    /\ \E out \in Outcomes, commit \in BOOLEAN :
          side' = [w \in Sides |->
                     IF w = "bare"
                     THEN Invoke(Blank, Simple(IF commit THEN "Commit" ELSE "Rollback", out),
                                 IF commit THEN "Commit" ELSE "Rollback")
                     ELSE IF commit THEN Commit(Blank, Simple("Commit", out))
                     ELSE Rollback(Blank, Simple("Rollback", out))]
    /\ tx' = "none" /\ UNCHANGED <<txCtx, pooled>>

ContextEnds == txCtx = "live" /\ tx = "open" /\ txCtx' = "done" /\ UNCHANGED <<caps, db, cfg, side, tx, pooled, ops>>

\* awaitDone, on database/sql's goroutine: the transaction of a context that
\* ended is rolled back, and the connection discarded or kept.
AwaitDone ==
    /\ tx = "open" /\ txCtx = "done"
    /\ \E out \in Outcomes :
          side' = [w \in Sides |->
                     LET r == IF w = "bare" THEN Invoke(Blank, Simple("Rollback", out), "Rollback")
                              ELSE Rollback(Blank, Simple("Rollback", out))
                     IN  [r EXCEPT !.err = "watcher"]]
    /\ pooled' = [w \in Sides |-> pooled[w] /\ keepConnOnRollback(w)]
    /\ tx' = "none"
    /\ UNCHANGED <<caps, db, cfg, txCtx, ops>>

Init ==
    /\ caps \in Drivers /\ db = "closed"
    /\ cfg \in SUBSET {"commit", "rollback"}
    /\ side = [w \in Sides |-> Blank]
    /\ tx = "none" /\ txCtx = "done"
    /\ pooled = [w \in Sides |-> TRUE]
    /\ ops = 0

Next == Connect \/ Execute \/ Begin \/ Finish \/ ContextEnds \/ AwaitDone

Spec == Init /\ [][Next]_vars

-----------------------------------------------------------------------------
(* Properties. *)

\* One exception: a driver that runs statements only, and whose statements alone
\* take its own argument types.  The wrapper claims ExecerContext, so database/sql
\* converts the arguments for the connection first, and refuses them.
StatementTypesOnly ==
    /\ caps \cap {"ExecerContext", "Execer", "ConnChecker"} = {}
    /\ side["wrapped"].err = "convert"

\* The other: a driver whose statements count no placeholders and convert no columns.
\* The wrapped statement has a ColumnConverter, which database/sql prefers to the
\* default conversion and then does not ask.
UncountedUnconverted ==
    /\ caps \cap {"NumInput", "ColumnConverter"} = {}
    /\ "raw" \in ToSet(side["wrapped"].got)

\* Wrapping changes nothing the application or the driver can see: the same calls
\* reach the driver in the same order, with the same arguments, the same error comes
\* back, and database/sql keeps or discards the connection as it would have
\* (sql_driver.go WrapSQLDriver, ExecContext, PrepareContext, BeginTx, legacyArgs,
\* CheckNamedValue, withSessionInterfaces).
Transparent ==
    /\ \/ StatementTypesOnly \/ UncountedUnconverted
       \/ \A seen \in {"calls", "got", "err"} : side["wrapped"][seen] = side["bare"][seen]
    /\ pooled["wrapped"] = pooled["bare"]


\* A statement the driver ran is recorded once, by the layer that ran it, and
\* nothing is recorded for a call that never reached the driver, or by
\* database/sql's own goroutine (Recorded, sqlTx.Rollback, newSqlSpanEvent).
RecordedOnce ==
    LET s   == side["wrapped"]
        ran == IF "Prepare" \in ToSet(s.calls) THEN {"StmtExec"} ELSE {"ConnExec", "StmtExec"}
    IN  /\ SelectSeq(s.events, LAMBDA e : e \in {"ConnExec", "StmtExec"}) =
              SelectSeq(s.calls, LAMBDA c : c \in ran)
        /\ s.err = "watcher" => s.events = <<>>
=============================================================================
