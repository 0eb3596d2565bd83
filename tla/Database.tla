------------------------------ MODULE Database ------------------------------
(***************************************************************************)
(* platform/database: PgDatabase over a pool of connections to PostgreSQL, *)
(* with the retries retry.policy.ts decides.  A caller asks once: for one  *)
(* statement through the pool, for a transaction or for a session, whose   *)
(* work may also use the pool beside the client it was given.              *)
(*                                                                         *)
(* The pool and the server are pg and PostgreSQL, modelled as the code     *)
(* uses them.  A statement and its answer are one step; a connection may   *)
(* break under a statement, and the server may then still finish what it   *)
(* was sent, at any later time.                                            *)
(***************************************************************************)
EXTENDS Naturals, SequencesExt

CONSTANTS
    Callers,
    Conns,          \* config.database.poolMax places for a connection
    None,
    MaxAttempts,    \* retryLimits.maxAttempts
    TxCallers,      \* bound: callers that only ask for a transaction
    MaxSteps,       \* bound: statements in one transaction's or session's work
    MaxBreaks       \* bound: connections that break while a caller has them

ASSUME CallersAssumption == None \notin Callers \cup Conns /\ TxCallers \subseteq Callers
ASSUME AttemptsAssumption == MaxAttempts \in Nat \ {0}
ASSUME BoundsAssumption == MaxSteps \in Nat \ {0} /\ MaxBreaks \in Nat

Kinds == {"read", "write", "transaction", "session"}
OnClient == {"transaction", "session"}

VARIABLES
    call,           \* call[c]: what caller c is doing
    conn,           \* conn[k]: a place in the pool and the server's session on it
    waiters,        \* callers that wait for a connection, oldest first
    pool,           \* "open", "ending" or "ended"
    applied,        \* applied[c]: statements of c that took effect
    orphans,        \* what the server still runs for connections that broke
    breaks          \* how many connections broke

vars == <<call, conn, waiters, pool, applied, orphans, breaks>>

NoWrites == [c \in Callers |-> 0]
OneOf(c) == [NoWrites EXCEPT ![c] = 1]
Plus(f, g) == [c \in Callers |-> f[c] + g[c]]

\* `lost` and `hid` are history: the errors under which an answer was lost, and
\* whether the work went on after one of its client's statements failed.
NewCall == [kind |-> "none", phase |-> "new", own |-> None, at |-> None,
            stmt |-> "none", pooled |-> FALSE, attempt |-> 0, steps |-> 0, written |-> 0,
            verdict |-> "nothing", told |-> "nothing", lost |-> {}, hid |-> FALSE]

Closed == [link |-> "closed", holder |-> None, tx |-> "none", writes |-> NoWrites]

Init ==
    /\ call = [c \in Callers |-> NewCall]
    /\ conn = [k \in Conns |-> Closed]
    /\ waiters = <<>>
    /\ pool = "open"
    /\ applied = NoWrites
    /\ orphans = {}
    /\ breaks = 0

Phase(c) == call[c].phase
Pinned(c) == call[c].own # None
Via(c) == IF call[c].pooled THEN call[c].at ELSE call[c].own
Idle(k) == conn[k].link = "open" /\ conn[k].holder = None

\* Where the next connection comes from: an idle one, or else a place to open one.
\* Which of them makes no difference.
Places ==
    LET free == {k \in Conns : conn[k].holder = None}
        idle == {k \in free : Idle(k)}
    IN  IF free = {} THEN {} ELSE {CHOOSE k \in (IF idle = {} THEN free ELSE idle) : TRUE}

-----------------------------------------------------------------------------
(* The steps of a caller: records that call[c] becomes *)

Send(c, stmt) == [call[c] EXCEPT !.stmt = stmt, !.pooled = FALSE, !.attempt = 1,
                                 !.phase = "flight"]
SendByPool(c, stmt) == [call[c] EXCEPT !.stmt = stmt, !.pooled = TRUE, !.attempt = 1,
                                       !.phase = "waiting"]
Resting(c) == [call[c] EXCEPT !.stmt = "none", !.pooled = FALSE, !.at = None, !.attempt = 0]
Leave(c, verdict) == [Resting(c) EXCEPT !.phase = "leave", !.verdict = verdict, !.steps = 0,
                                        !.hid = @ /\ verdict = "done"]

\* Mutant of Throw: the client goes back without a ROLLBACK.
ThrowNoRollback(c) == [Leave(c, "failed") EXCEPT !.written = 0]

\* The work of a transaction or session throws.  What a transaction wrote is to
\* count for nothing.
Throw(c) == IF call[c].kind = "transaction"
            THEN [Send(c, "rollback") EXCEPT !.at = None, !.steps = 0, !.hid = FALSE, !.written = 0]
            ELSE Leave(c, "failed")

\* Mutant of MayRetry: a transient server error is retried for writes as well.
MayRetryWrites(c, error) ==
    /\ call[c].attempt < MaxAttempts
    /\ \/ error = "connection"
       \/ error = "transient" /\ ~(Pinned(c) /\ ~call[c].pooled)

\* decideRetry, while the deadline over all attempts is not reached: a pinned
\* client counts as inside a transaction.
MayRetry(c, error) ==
    /\ call[c].attempt < MaxAttempts
    /\ \/ error = "connection"
       \/ /\ error = "transient"
          /\ ~(Pinned(c) /\ ~call[c].pooled)
          /\ call[c].stmt = "select"

\* What may follow when the statement of c failed.  The deadline may have been
\* reached, so that no retry is ever certain; a failure inside the work makes it
\* throw, unless the work hides it.
AfterFailure(c, error) ==
    CASE call[c].stmt \in {"begin", "commit"} -> {Send(c, "rollback")}
      [] call[c].stmt \in {"none", "rollback"} -> {Leave(c, "failed")}
      [] OTHER ->
            (IF MayRetry(c, error)
             THEN {[call[c] EXCEPT !.at = None, !.phase = "sleep"]} ELSE {})
            \cup
            (IF Pinned(c)
             THEN {Throw(c), [Resting(c) EXCEPT !.phase = "work", !.hid = @ \/ ~call[c].pooled]}
             ELSE {Leave(c, "failed")})

AfterSuccess(c) ==
    CASE call[c].stmt = "begin" -> [Resting(c) EXCEPT !.phase = "work"]
      [] call[c].stmt = "commit" -> Leave(c, "done")
      [] call[c].stmt = "rollback" -> Leave(c, "failed")
      [] OTHER -> IF Pinned(c)
                  THEN [Resting(c) EXCEPT !.phase = "work",
                            !.written = IF call[c].stmt = "write" THEN @ + 1 ELSE @]
                  ELSE Leave(c, "done")

-----------------------------------------------------------------------------
(* The pool *)

Start(c) ==
    /\ Phase(c) = "new"
    /\ \E kind \in Kinds :
        /\ c \in TxCallers => kind = "transaction"
        /\ call' = [call EXCEPT ![c] =
                [(IF kind \in OnClient THEN [@ EXCEPT !.phase = "waiting"]
                  ELSE SendByPool(c, IF kind = "read" THEN "select" ELSE "write"))
                 EXCEPT !.kind = kind]]
    /\ waiters' = Append(waiters, c)
    /\ UNCHANGED <<conn, pool, applied, orphans, breaks>>

\* The oldest waiter gets an idle connection or, when there is none, a new one.
Serve(c) ==
    /\ pool = "open"
    /\ waiters # <<>> /\ Head(waiters) = c
    /\ \E k \in Places :
        /\ conn' = [conn EXCEPT ![k].link = "open", ![k].holder = c]
        /\ call' = [call EXCEPT ![c] =
            IF call[c].pooled THEN [@ EXCEPT !.at = k, !.phase = "flight"]
            ELSE IF call[c].kind = "transaction" THEN [Send(c, "begin") EXCEPT !.own = k]
            ELSE [@ EXCEPT !.own = k, !.phase = "work"]]
    /\ waiters' = Tail(waiters)
    /\ UNCHANGED <<pool, applied, orphans, breaks>>

\* Mutant of CannotConnect: the pool has no connectionTimeoutMillis.
CannotConnectUntimed(c) ==
    /\ Phase(c) = "waiting" /\ Head(waiters) = c
    /\ pool = "open" /\ Places # {}
    /\ \E after \in AfterFailure(c, "connection") : call' = [call EXCEPT ![c] = after]
    /\ waiters' = Tail(waiters)
    /\ UNCHANGED <<conn, pool, applied, orphans, breaks>>

\* connectionTimeoutMillis, a pool that is ended, or a server that cannot be
\* reached or refuses one more connection.
CannotConnect(c) ==
    /\ Phase(c) = "waiting"
    /\ \E error \in {"other"} \cup (IF pool = "open" THEN {"connection", "transient"} ELSE {}) :
        \E after \in AfterFailure(c, error) : call' = [call EXCEPT ![c] = after]
    /\ \E i \in DOMAIN waiters : waiters[i] = c /\ waiters' = RemoveAt(waiters, i)
    /\ UNCHANGED <<conn, pool, applied, orphans, breaks>>

\* client.release(): kept if it can still be queried and the pool goes on.
Released(session) ==
    IF session.link = "open" /\ pool = "open" THEN [session EXCEPT !.holder = None] ELSE Closed

\* close(); a second call returns at once.
Close ==
    /\ pool = "open"
    /\ pool' = "ending"
    /\ conn' = [k \in Conns |-> IF Idle(k) THEN Closed ELSE conn[k]]
    /\ UNCHANGED <<call, waiters, applied, orphans, breaks>>

Drained ==
    /\ pool = "ending"
    /\ \A k \in Conns : conn[k].link = "closed"
    /\ pool' = "ended"
    /\ UNCHANGED <<call, conn, waiters, applied, orphans, breaks>>

-----------------------------------------------------------------------------
(* A statement at the server *)

\* The session and the committed effects after the server ran c's statement.
RunOn(session, c) ==
    CASE call[c].stmt = "begin" -> [session EXCEPT !.tx = "open"]
      [] call[c].stmt \in {"commit", "rollback"} -> [session EXCEPT !.tx = "none", !.writes = NoWrites]
      [] call[c].stmt = "write" /\ session.tx = "open" ->
            [session EXCEPT !.writes = Plus(@, OneOf(c))]
      [] OTHER -> session

EffectOn(session, c) ==
    CASE call[c].stmt = "commit" -> session.writes
      [] call[c].stmt = "write" /\ session.tx = "none" -> OneOf(c)
      [] OTHER -> NoWrites

\* After an error the transaction is aborted and takes no more statements.  Its
\* COMMIT then rolls back, and is answered without an error.
Accepts(c) ==
    /\ Phase(c) = "flight" /\ conn[Via(c)].link = "open"
    /\ conn[Via(c)].tx = "aborted" => call[c].stmt \in {"commit", "rollback"}
    /\ conn' = [conn EXCEPT ![Via(c)] = IF call[c].pooled THEN Released(RunOn(@, c)) ELSE RunOn(@, c)]
    /\ applied' = Plus(applied, EffectOn(conn[Via(c)], c))
    /\ call' = [call EXCEPT ![c] = AfterSuccess(c)]
    /\ UNCHANGED <<waiters, pool, orphans, breaks>>

\* A constraint, a timeout (57014), an aborted transaction.  pool.query() gives
\* up the connection of a statement that failed.
Refuses(c) ==
    /\ Phase(c) = "flight" /\ conn[Via(c)].link = "open"
    /\ call[c].stmt \in {"select", "write", "commit"}
    /\ conn' = [conn EXCEPT ![Via(c)] =
        IF call[c].pooled THEN Closed
        ELSE [@ EXCEPT !.tx = IF conn[Via(c)].tx = "none" \/ call[c].stmt = "commit"
                              THEN "none" ELSE "aborted",
                       !.writes = NoWrites]]
    /\ \E after \in AfterFailure(c, "other") : call' = [call EXCEPT ![c] = after]
    /\ UNCHANGED <<waiters, pool, applied, orphans, breaks>>

\* The connection breaks under the statement.  The server either drops it or
\* runs it to its end without anyone to answer.
Breaks(c) ==
    /\ Phase(c) = "flight" /\ conn[Via(c)].link = "open"
    /\ breaks < MaxBreaks
    /\ breaks' = breaks + 1
    /\ conn' = [conn EXCEPT ![Via(c)] =
        IF call[c].pooled THEN Closed ELSE [Closed EXCEPT !.link = "broken", !.holder = c]]
    /\ \E error \in {"connection", "transient"}, runs \in BOOLEAN :
        \E after \in AfterFailure(c, error) :
            /\ runs => EffectOn(conn[Via(c)], c) # NoWrites
            /\ orphans' = IF runs THEN orphans \cup {[id |-> breaks, writes |-> EffectOn(conn[Via(c)], c)]}
                          ELSE orphans
            /\ call' = [call EXCEPT ![c] =
                IF runs THEN [after EXCEPT !.lost = @ \cup {error}] ELSE after]
    /\ UNCHANGED <<waiters, pool, applied>>

\* A client breaks while its holder sends nothing on it.
ClientBreaks(c) ==
    /\ Pinned(c) /\ Phase(c) \in {"work", "waiting"}
    /\ conn[call[c].own].link = "open"
    /\ breaks < MaxBreaks
    /\ breaks' = breaks + 1
    /\ conn' = [conn EXCEPT ![call[c].own] = [Closed EXCEPT !.link = "broken", !.holder = c]]
    /\ UNCHANGED <<call, waiters, pool, applied, orphans>>

\* A client that broke is not queryable.
FailsOnBroken(c) ==
    /\ Phase(c) = "flight" /\ conn[Via(c)].link = "broken"
    /\ \E after \in AfterFailure(c, "other") : call' = [call EXCEPT ![c] = after]
    /\ UNCHANGED <<conn, waiters, pool, applied, orphans, breaks>>

OrphanRuns ==
    \E o \in orphans :
        /\ applied' = Plus(applied, o.writes)
        /\ orphans' = orphans \ {o}
        /\ UNCHANGED <<call, conn, waiters, pool, breaks>>

-----------------------------------------------------------------------------
(* The caller *)

\* The backoff is over: the next attempt, on the same client or through the pool.
Retry(c) ==
    /\ Phase(c) = "sleep"
    /\ call' = [call EXCEPT ![c].attempt = @ + 1,
                            ![c].phase = IF call[c].pooled THEN "waiting" ELSE "flight"]
    /\ waiters' = IF call[c].pooled THEN Append(waiters, c) ELSE waiters
    /\ UNCHANGED <<conn, pool, applied, orphans, breaks>>

\* The work sends a statement on its client or through the pool.
WorkSends(c) ==
    /\ Phase(c) = "work"
    /\ call[c].steps < MaxSteps
    /\ \/ /\ call' = [call EXCEPT ![c] = [Send(c, "write") EXCEPT !.steps = @ + 1]]
          /\ UNCHANGED waiters
       \/ /\ call' = [call EXCEPT ![c] = [SendByPool(c, "select") EXCEPT !.steps = @ + 1]]
          /\ waiters' = Append(waiters, c)
    /\ UNCHANGED <<conn, pool, applied, orphans, breaks>>

\* Mutant of WorkEnds: a transaction whose work returned is not committed.
WorkEndsUncommitted(c) ==
    /\ Phase(c) = "work"
    /\ \E after \in {Throw(c), Leave(c, "done")} : call' = [call EXCEPT ![c] = after]
    /\ UNCHANGED <<conn, waiters, pool, applied, orphans, breaks>>

\* The work returns or throws for a reason of its own.
WorkEnds(c) ==
    /\ Phase(c) = "work"
    /\ \E after \in {Throw(c), IF call[c].kind = "transaction" THEN Send(c, "commit")
                                                               ELSE Leave(c, "done")} :
        call' = [call EXCEPT ![c] = after]
    /\ UNCHANGED <<conn, waiters, pool, applied, orphans, breaks>>

\* The finally block, and the promise that settles.
Return(c) ==
    /\ Phase(c) = "leave"
    /\ call' = [call EXCEPT ![c].phase = "done", ![c].told = call[c].verdict, ![c].own = None]
    /\ conn' = IF Pinned(c) THEN [conn EXCEPT ![call[c].own] = Released(@)] ELSE conn
    /\ UNCHANGED <<waiters, pool, applied, orphans, breaks>>

-----------------------------------------------------------------------------
\* What the timers, the pool and the server are sure to do for a caller.
Step(c) ==
    Serve(c) \/ CannotConnect(c) \/ Accepts(c) \/ Refuses(c) \/ FailsOnBroken(c)
    \/ Retry(c) \/ WorkSends(c) \/ WorkEnds(c) \/ Return(c)

Next ==
    \/ \E c \in Callers : Start(c) \/ Step(c) \/ Breaks(c) \/ ClientBreaks(c)
    \/ OrphanRuns \/ Close \/ Drained

Fairness == (\A c \in Callers : WF_vars(Step(c))) /\ WF_vars(Drained)

Spec == Init /\ [][Next]_vars /\ Fairness

-----------------------------------------------------------------------------
(* Properties *)

TypeOK ==
    /\ call \in [Callers ->
        [kind: Kinds \cup {"none"},
         phase: {"new", "waiting", "flight", "sleep", "work", "leave", "done"},
         own: Conns \cup {None}, at: Conns \cup {None},
         stmt: {"none", "begin", "commit", "rollback", "select", "write"},
         pooled: BOOLEAN, attempt: 0..MaxAttempts, steps: 0..MaxSteps, written: 0..MaxSteps,
         verdict: {"nothing", "done", "failed"}, told: {"nothing", "done", "failed"},
         lost: SUBSET {"connection", "transient"}, hid: BOOLEAN]]
    /\ conn \in [Conns ->
        [link: {"closed", "open", "broken"}, holder: Callers \cup {None},
         tx: {"none", "open", "aborted"}, writes: [Callers -> Nat]]]
    /\ waiters \in Seq(Callers)
    /\ pool \in {"open", "ending", "ended"}
    /\ applied \in [Callers -> Nat]
    /\ orphans \subseteq [id: 0..MaxBreaks, writes: [Callers -> Nat]]
    /\ breaks \in 0..MaxBreaks

\* Whatever failed, and in whatever order: a connection is held by exactly the
\* caller that is using it, and one that lies in the pool is in no transaction,
\* so that nobody's statements join what another left open (the finally blocks
\* of transaction() and withSession(), the ROLLBACK before them, and the pool
\* dropping what cannot be queried).
PoolHygiene ==
    /\ TypeOK
    /\ \A k \in Conns :
        /\ conn[k].holder = None => conn[k].tx = "none" /\ conn[k].writes = NoWrites
        /\ conn[k].holder # None => k \in {call[conn[k].holder].own, call[conn[k].holder].at}
        /\ \A c \in Callers : conn[k].writes[c] > 0 => conn[k].holder = c
    /\ \A c \in Callers, k \in Conns :
        k \in {call[c].own, call[c].at} => conn[k].holder = c /\ Phase(c) # "done"

\* A write is there more often than its caller was told only after an answer was
\* lost on the way: twice only when the connection broke, which is retried even
\* for a write, and although it was reported failed only when an answer of the
\* server, or its connection, was lost (decideRetry).
OnlyLostAnswersMislead ==
    \A c \in Callers :
        /\ call[c].kind = "write" =>
            /\ applied[c] > 1 => "connection" \in call[c].lost
            /\ applied[c] > 0 /\ call[c].told = "failed" => call[c].lost # {}
        /\ call[c].kind = "transaction" /\ call[c].told = "failed" /\ applied[c] > 0 =>
            call[c].lost # {}
        /\ call[c].kind = "session" =>
            /\ applied[c] >= call[c].written
            /\ applied[c] > call[c].written => call[c].lost # {}

\* The abstract work.  A transaction's effect is whole when all its acknowledged
\* writes are there; a work that wrote nothing takes effect by being answered.
\* A work that hid the failure of a statement of its own is promised nothing: its
\* COMMIT rolls back and is answered like any other.
EffectOf(c) ==
    IF call[c].kind \in OnClient /\ call[c].written = 0 /\ applied[c] = 0
    THEN IF call[c].verdict = "done" THEN 1 ELSE 0
    ELSE IF call[c].kind # "transaction" THEN applied[c]
    ELSE IF applied[c] = 0 THEN 0
    ELSE IF applied[c] = call[c].written THEN 1 ELSE 2

ToldOf(c) == IF call[c].told = "done" /\ call[c].hid THEN "failed" ELSE call[c].told

Abstract == INSTANCE AtomicWork WITH
    MostEffects <- [k \in Kinds |-> CASE k = "read" -> 0
                                     [] k = "write" -> MaxAttempts
                                     [] k = "transaction" -> 1
                                     [] k = "session" -> MaxSteps],
    asked <- [c \in Callers |-> call[c].kind],
    effect <- [c \in Callers |-> EffectOf(c)],
    told <- [c \in Callers |-> ToldOf(c)]

\* PgDatabase implements the work the port promises: whole, as often as it was
\* sent at most, and reported done only when it is (transaction, run, instrument).
DoesAtomicWork == Abstract!Spec

\* Every caller is answered in the end, even when all callers hold a client and
\* want another (connectionTimeoutMillis), and a pool that is closed drains.
EveryCallerIsAnswered ==
    /\ \A c \in Callers : Phase(c) # "new" ~> Phase(c) = "done"
    /\ pool = "ending" ~> pool = "ended"
=============================================================================
