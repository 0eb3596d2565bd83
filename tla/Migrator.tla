------------------------------ MODULE Migrator ------------------------------
(***************************************************************************)
(* platform/database/migrator.ts: instances of several builds that migrate *)
(* one database as they boot, beside the command line that reverts.        *)
(*                                                                         *)
(* A build is the sequence of its migrations' contents: the loader refuses *)
(* a directory with a gap, so an id is a position.  Each run of the        *)
(* migrator has a session of its own.  A session's phase is the statement  *)
(* it has sent, and the action of that phase is the server executing it.   *)
(* A process that crashes or loses its connection leaves behind a backend  *)
(* that may still execute that statement before it notices.                *)
(***************************************************************************)
EXTENDS Integers, Sequences

CONSTANTS
    Instances,
    None,
    Deploys,            \* Deploys[i]: the builds that instance may be of
    NoTransaction,      \* ids whose file opts out of a transaction
    Reversible,         \* ids whose file has a .down.sql
    Reverters,          \* those of the instances that are the command line
    Boots,              \* bound: how often each instance is started
    MaxBreaks           \* bound: connections and processes that break

Builds == UNION {Deploys[i] : i \in Instances}

ASSUME BuildsAssumption == \A b \in Builds : b \in Seq({b[i] : i \in DOMAIN b})
ASSUME BoundsAssumption == Boots \in [Instances -> Nat] /\ MaxBreaks \in Nat /\ Reverters \subseteq Instances

Sessions == UNION {{i} \X (1..Boots[i]) : i \in Instances}
ASSUME NoneAssumption == None \notin Sessions

KindOf(i) == IF i \in Reverters THEN "down" ELSE "up"
Ids == UNION {DOMAIN b : b \in Builds}
Contents == UNION {{b[i] : i \in DOMAIN b} : b \in Builds}

VARIABLES
    session,        \* session[s]: one connection and the run of the migrator on it
    holder,         \* the session that has the advisory lock
    effects,        \* effects[id]: how often its up.sql stands applied
    recorded,       \* schema_migrations: the content recorded for an id
    breaks,         \* how many sessions have broken
    troubled,       \* history: a session broke or a migration failed
    reverted        \* history: ids that were reverted

vars == <<session, holder, effects, recorded, breaks, troubled, reverted>>

Unused == [phase |-> "unused", kind |-> "up", build |-> <<>>, todo |-> {},
           failed |-> FALSE, attached |-> FALSE, timeout |-> "config"]
Gone == [Unused EXCEPT !.phase = "gone"]

Init ==
    /\ session = [s \in Sessions |-> Unused]
    /\ holder = None
    /\ effects = [id \in Ids |-> 0]
    /\ recorded = [id \in {} |-> None]
    /\ breaks = 0 /\ troubled = FALSE /\ reverted = {}

Phase(s) == session[s].phase

\* Migrations are taken in the order of their ids.
First(todo) == CHOOSE id \in todo : \A other \in todo : id <= other
Current(s) == First(session[s].todo)
Rest(s) == session[s].todo \ {Current(s)}

\* Mutant of Transactional: BEGIN is forgotten.
TransactionalNever(s) == FALSE

Transactional(s) == session[s].kind = "down" \/ Current(s) \notin NoTransaction

-----------------------------------------------------------------------------
(* A session: the answer to a statement reaches the process, which sends   *)
(* the next one, or finds nobody, and the backend ends: its transaction is *)
(* undone and its lock dropped.                                            *)

Answered(s, next, lockedBy) ==
    IF session[s].attached
    THEN session' = [session EXCEPT ![s] = next] /\ holder' = lockedBy
    ELSE session' = [session EXCEPT ![s] = Gone]
            /\ holder' = IF lockedBy = s THEN None ELSE lockedBy

At(s, phase) == [session[s] EXCEPT !.phase = phase]

\* The statements of a migration, from its first.
Continued(s, todo) ==
    [session[s] EXCEPT !.todo = todo,
        !.phase = IF todo = {} THEN "unlocking"
                  ELSE IF session[s].kind = "up" /\ First(todo) \in NoTransaction THEN "running"
                  ELSE "beginning"]

Failed(s) == [session[s] EXCEPT !.phase = "unlocking", !.failed = TRUE, !.todo = {}]

Succeeded(s) == Phase(s) = "done" /\ ~ session[s].failed

\* A boot, or the command that reverts, takes a connection.  A process that is
\* up is replaced by the next boot of its instance, one that failed has exited.
Starts(i, n, b) ==
    /\ Phase(<<i, n>>) = "unused"
    /\ \A k \in 1..(n - 1) : Succeeded(<<i, k>>) \/ ~ session[<<i, k>>].attached
    /\ n > 1 => Phase(<<i, n - 1>>) # "unused"
    /\ session' = [s \in Sessions |->
            IF s = <<i, n>>
            THEN [Unused EXCEPT !.phase = "settingTimeout", !.kind = KindOf(i), !.build = b, !.attached = TRUE]
            ELSE IF s[1] = i /\ Succeeded(s) THEN Gone ELSE session[s]]
    /\ UNCHANGED <<holder, effects, recorded, breaks, troubled, reverted>>

Breaks(s) ==
    /\ session[s].attached
    /\ breaks < MaxBreaks
    /\ breaks' = breaks + 1
    /\ session' = [session EXCEPT ![s].attached = FALSE]
    /\ troubled' = TRUE
    /\ UNCHANGED <<holder, effects, recorded, reverted>>

\* The backend notices before it executes anything more.
Dies(s) ==
    /\ ~ session[s].attached /\ Phase(s) \notin {"unused", "gone"}
    /\ session' = [session EXCEPT ![s] = Gone]
    /\ holder' = IF holder = s THEN None ELSE holder
    /\ UNCHANGED <<effects, recorded, breaks, troubled, reverted>>

-----------------------------------------------------------------------------
(* withLock *)

SetsTimeout(s) ==
    /\ Phase(s) = "settingTimeout"
    /\ Answered(s, [session[s] EXCEPT !.phase = "locking", !.timeout = "none"], holder)
    /\ UNCHANGED <<effects, recorded, breaks, troubled, reverted>>

\* Mutant of Available: the lock is tried and not waited for.
AvailableAnyway(s) == TRUE

\* pg_advisory_lock waits.
Available(s) == holder = None

Locks(s) ==
    /\ Phase(s) = "locking"
    /\ Available(s)
    /\ Answered(s, At(s, "reading"), s)
    /\ UNCHANGED <<effects, recorded, breaks, troubled, reverted>>

\* Mutant of Unlocked: the lock is left to the connection, which stays in the
\* pool.
UnlockedNever(s) == holder

Unlocked(s) == None

\* Then the connection goes back to the pool, which the process serves from
\* when its boot was a success.
Unlocks(s) ==
    /\ Phase(s) = "unlocking"
    /\ Answered(s, At(s, "done"), Unlocked(s))
    /\ UNCHANGED <<effects, recorded, breaks, troubled, reverted>>

\* The server refuses the unlock: the run fails whatever it did, and its
\* connection goes back to the pool with the lock, until that pool is closed.
UnlockFails(s) ==
    /\ Phase(s) = "unlocking"
    /\ Answered(s, [session[s] EXCEPT !.phase = "done", !.failed = TRUE], holder)
    /\ UNCHANGED <<effects, recorded, breaks, troubled, reverted>>

-----------------------------------------------------------------------------
(* up and down: what there is to do *)

\* Mutant of Unchanged: only the ids are compared.
UnchangedById(b) == TRUE

Unchanged(b) == \A id \in DOMAIN b \cap DOMAIN recorded : recorded[id] = b[id]

Pending(b) == DOMAIN b \ DOMAIN recorded

Latest == CHOOSE id \in DOMAIN recorded : \A other \in DOMAIN recorded : other <= id

ReadsUp(s) ==
    /\ Phase(s) = "reading" /\ session[s].kind = "up"
    /\ LET b == session[s].build
       IN  Answered(s, IF Unchanged(b) THEN Continued(s, Pending(b)) ELSE Failed(s), holder)
    /\ UNCHANGED <<effects, recorded, breaks, troubled, reverted>>

\* down(1): the last one recorded, when its file is there and can be reverted.
ReadsDown(s) ==
    /\ Phase(s) = "reading" /\ session[s].kind = "down"
    /\ Answered(s,
            IF DOMAIN recorded = {} THEN Continued(s, {})
            ELSE IF Latest \in DOMAIN session[s].build \cap Reversible THEN Continued(s, {Latest})
            ELSE Failed(s),
            holder)
    /\ UNCHANGED <<effects, recorded, breaks, troubled, reverted>>

-----------------------------------------------------------------------------
(* apply, and the body of down *)

Begins(s) ==
    /\ Phase(s) = "beginning"
    /\ Answered(s, At(s, "running"), holder)
    /\ UNCHANGED <<effects, recorded, breaks, troubled, reverted>>

Run(id, kind) == [effects EXCEPT ![id] = IF kind = "up" THEN @ + 1 ELSE @ - 1]

\* The file's own SQL, whose effect stands at once without a transaction.
Runs(s) ==
    /\ Phase(s) = "running"
    /\ Answered(s, At(s, "recording"), holder)
    /\ effects' = IF Transactional(s) THEN effects ELSE Run(Current(s), "up")
    /\ UNCHANGED <<recorded, breaks, troubled, reverted>>

\* A file that fails outside a transaction may have been applied in part.
RunFails(s) ==
    /\ Phase(s) = "running"
    /\ Answered(s, IF Transactional(s) THEN At(s, "rollingBack") ELSE Failed(s), holder)
    /\ effects' \in {effects} \cup (IF Transactional(s) THEN {} ELSE {Run(Current(s), "up")})
    /\ troubled' = TRUE
    /\ UNCHANGED <<recorded, breaks, reverted>>

Recorded(s) ==
    IF session[s].kind = "down" THEN [id \in DOMAIN recorded \ {Current(s)} |-> recorded[id]]
    ELSE [id \in DOMAIN recorded \cup {Current(s)} |->
            IF id = Current(s) THEN session[s].build[id] ELSE recorded[id]]

\* INSERT, which the key never refuses (AppliedInOrder), or DELETE.
Records(s) ==
    /\ Phase(s) = "recording"
    /\ IF Transactional(s)
       THEN Answered(s, At(s, "committing"), holder) /\ UNCHANGED recorded
       ELSE Answered(s, Continued(s, Rest(s)), holder) /\ recorded' = Recorded(s)
    /\ UNCHANGED <<effects, breaks, troubled, reverted>>

Commits(s) ==
    /\ Phase(s) = "committing"
    /\ effects' = Run(Current(s), session[s].kind)
    /\ recorded' = Recorded(s)
    /\ reverted' = IF session[s].kind = "down" THEN reverted \cup {Current(s)} ELSE reverted
    /\ Answered(s, Continued(s, Rest(s)), holder)
    /\ UNCHANGED <<breaks, troubled>>

RollsBack(s) ==
    /\ Phase(s) = "rollingBack"
    /\ Answered(s, Failed(s), holder)
    /\ UNCHANGED <<effects, recorded, breaks, troubled, reverted>>

-----------------------------------------------------------------------------
\* A failed boot and the command line close their pool.
Exits(s) ==
    /\ Phase(s) = "done" /\ (session[s].failed \/ session[s].kind = "down")
    /\ session' = [session EXCEPT ![s] = Gone]
    /\ holder' = IF holder = s THEN None ELSE holder
    /\ UNCHANGED <<effects, recorded, breaks, troubled, reverted>>

Proceeds(s) ==
    \/ SetsTimeout(s) \/ ReadsUp(s) \/ ReadsDown(s)
    \/ Begins(s) \/ Runs(s) \/ RunFails(s) \/ Records(s) \/ Commits(s) \/ RollsBack(s)
    \/ Unlocks(s) \/ UnlockFails(s) \/ Dies(s) \/ Exits(s)

Next ==
    \/ \E i \in Instances : \E n \in 1..Boots[i], b \in Deploys[i] : Starts(i, n, b)
    \/ \E s \in Sessions : Proceeds(s) \/ Locks(s) \/ Breaks(s)

\* The server executes what it was sent, notices that a client is gone, and
\* grants the lock in the order it was asked for; processes exit.
Fairness == \A s \in Sessions : WF_vars(Proceeds(s)) /\ SF_vars(Locks(s))

Spec == Init /\ [][Next]_vars /\ Fairness

-----------------------------------------------------------------------------
SessionStates ==
    [ phase : {"unused", "settingTimeout", "locking", "reading", "beginning", "running", "recording",
               "committing", "rollingBack", "unlocking", "done", "gone"},
      kind : {"up", "down"}, build : Builds \cup {<<>>}, todo : SUBSET Ids, failed : BOOLEAN,
      attached : BOOLEAN, timeout : {"config", "none"} ]

TypeOK ==
    /\ session \in [Sessions -> SessionStates]
    /\ holder \in Sessions \cup {None}
    /\ effects \in [Ids -> Int]
    /\ DOMAIN recorded \subseteq Ids /\ \A id \in DOMAIN recorded : recorded[id] \in Contents
    /\ breaks \in Nat /\ troubled \in BOOLEAN /\ reverted \subseteq Ids
    /\ \A s \in Sessions : Phase(s) \in {"beginning", "running", "recording", "committing", "rollingBack"}
            => session[s].todo # {}

\* What is recorded is what is applied: a migration in a transaction stands
\* applied exactly once when it is recorded and not at all when it is not,
\* whatever crashed, and one outside a transaction as well unless something
\* failed (migrator.ts:30-41, 130-156).
SchemaMatchesRecord ==
    /\ TypeOK
    /\ \A id \in Ids :
        LET Times == IF id \in DOMAIN recorded THEN 1 ELSE 0
                    Underway == \E s \in Sessions : Phase(s) = "recording" /\ Current(s) = id
        IN  IF id \in NoTransaction /\ (troubled \/ Underway) THEN effects[id] >= Times
            ELSE effects[id] = Times

\* No migration is recorded before one that comes before it, nor one that is
\* recorded already, whichever builds and reverts took part
\* (migration.loader.ts:87-91, migrator.ts:10-16).
AppliedInOrder ==
    /\ DOMAIN recorded = {id \in Ids : \E other \in DOMAIN recorded : id <= other}
    /\ \A s \in Sessions :
        Phase(s) \in {"recording", "committing"} =>
            (Current(s) \in DOMAIN recorded <=> session[s].kind = "down")

Serving(s) == Succeeded(s) /\ session[s].attached /\ session[s].kind = "up"

\* An instance that serves does so over every migration of its own build, with
\* the content it has in that build, apart from what was reverted by hand
\* (migrator.ts:183-189, bootstrap.ts:52-53).
ServesItsSchema ==
    \A s \in Sessions : Serving(s) =>
        \A id \in DOMAIN session[s].build \ reverted :
            id \in DOMAIN recorded /\ recorded[id] = session[s].build[id]

\* Every run of the migrator ends: nobody waits for ever for a lock that a
\* finished, failed or crashed run has left (migrator.ts:26-29, 243-252).
EveryRunEnds ==
    \A s \in Sessions : Phase(s) = "settingTimeout" ~> Phase(s) \in {"done", "gone"}

\* "The setting is per-session, so it ends when the connection is released and
\* never touches a serving query" (migrator.ts:240-241).
ServingIsBounded == \A s \in Sessions : Serving(s) => session[s].timeout = "config"
=============================================================================
