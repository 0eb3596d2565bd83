------------------------------ MODULE JobLease ------------------------------
(***************************************************************************)
(* platform/jobs/job.scheduler.ts over platform/locks: one job on several  *)
(* instances.  A singleton job runs under a Redis lease, or under a        *)
(* process-local mutex when there is no Redis; any other job runs under    *)
(* nothing but the scheduler's own guard.                                  *)
(*                                                                         *)
(* Time is counted down rather than up, so that there is no last moment.   *)
(* Between two ticks of the job's interval anything may happen, so a tick  *)
(* may come at any time.  A Redis command takes effect at one moment and   *)
(* is answered at a later one, at most CallMs after it was sent; either    *)
(* half may be lost.                                                       *)
(***************************************************************************)
EXTENDS Integers, FiniteSets

CONSTANTS
    Procs,              \* instances of the bot
    None,
    EveryMs,            \* the job's interval
    MinRenewMs,         \* MIN_RENEW_INTERVAL_MS
    CallMs,             \* the longest a Redis command takes
    Stoppable,          \* bound: the instances whose scheduler is stopped
    LockKinds,          \* which of "redis", "local" and "none" are checked
    MaxMisses           \* bound: renewals that fail in a row

LeaseMultiplier == 3
RenewFraction == 3

ASSUME ProcsAssumption == Stoppable \subseteq Procs
ASSUME TimesAssumption == {EveryMs, MinRenewMs} \subseteq Nat \ {0} /\ CallMs \in Nat
ASSUME BoundsAssumption == MaxMisses \in Nat /\ LockKinds \subseteq {"redis", "local", "none"}

TtlMs == EveryMs * LeaseMultiplier

Larger(a, b) == IF a < b THEN b ELSE a

RenewEvery == Larger(MinRenewMs, TtlMs \div RenewFraction)

\* A process has room for two runs at once, so that its guard has something to
\* prevent.
Runs == Procs \X {1, 2}
ProcOf(r) == r[1]

ASSUME NoneAssumption == None \notin Runs /\ None \notin [token : Runs, left : 0..TtlMs]

VARIABLES
    lockKind,       \* how the job is locked
    scheduled,      \* scheduled[p]: p's scheduler is started
    inProgress,     \* inProgress[p]: the job's id is in p's `inProgress`
    held,           \* held[p]: the job's name is in p's LocalLock
    lease,          \* Redis's key: whose token, and the time it has left
    run             \* run[r]: a run of the job

vars == <<lockKind, scheduled, inProgress, held, lease, run>>

Idle == [phase |-> "idle", token |-> None, age |-> 0, aborted |-> FALSE,
         renewIn |-> 0, renewal |-> "none", renewAge |-> 0, misses |-> 0]

Init ==
    /\ lockKind \in LockKinds
    /\ scheduled = [p \in Procs |-> TRUE]
    /\ inProgress = [p \in Procs |-> FALSE]
    /\ held = [p \in Procs |-> FALSE]
    /\ lease = None
    /\ run = [r \in Runs |-> Idle]

Phase(r) == run[r].phase
HoldsLease(r) == lease # None /\ lease.token = run[r].token

\* Where a process keeps its next run.
FreeRun(p) == IF Phase(<<p, 1>>) = "idle" THEN <<p, 1>> ELSE <<p, 2>>

-----------------------------------------------------------------------------
(* JobScheduler.execute *)

\* The random token of a run is its name: a run compares its token only while
\* it has taken the lease itself, and that it could do only with every lease
\* its process took before gone.
Begun(r) ==
    IF lockKind = "redis" THEN [Idle EXCEPT !.phase = "acquiring", !.token = r]
    ELSE [Idle EXCEPT !.phase = "working"]

\* Mutant of Busy: a tick does not look whether the last run is over.
BusyNever(p) == FALSE

Busy(p) == inProgress[p]

\* A tick while the last run is going on, or while the process's own mutex is
\* held, is recorded as skipped and changes nothing.
JobTick(r) ==
    /\ scheduled[ProcOf(r)]
    /\ ~ Busy(ProcOf(r))
    /\ lockKind = "local" => ~ held[ProcOf(r)]
    /\ r = FreeRun(ProcOf(r)) /\ Phase(r) = "idle"
    /\ inProgress' = [inProgress EXCEPT ![ProcOf(r)] = TRUE]
    /\ held' = [held EXCEPT ![ProcOf(r)] = (lockKind = "local")]
    /\ run' = [run EXCEPT ![r] = Begun(r)]
    /\ UNCHANGED <<lockKind, scheduled, lease>>

\* Mutant of Finished: a run that failed leaves its job's guard set.
FinishedForgotten(r) ==
    /\ run' = [run EXCEPT ![r] = Idle]
    /\ held' = [held EXCEPT ![ProcOf(r)] = FALSE]
    /\ inProgress' = [inProgress EXCEPT ![ProcOf(r)] = run[r].phase = "working"]

\* The `finally` of execute, and the mutex's.
Finished(r) ==
    /\ run' = [run EXCEPT ![r] = Idle]
    /\ held' = [held EXCEPT ![ProcOf(r)] = FALSE]
    /\ inProgress' = [inProgress EXCEPT ![ProcOf(r)] = FALSE]

StopsScheduler(p) ==
    /\ p \in Stoppable /\ scheduled[p]
    /\ scheduled' = [scheduled EXCEPT ![p] = FALSE]
    /\ UNCHANGED <<lockKind, inProgress, held, lease, run>>

StartsScheduler(p) ==
    /\ ~ scheduled[p]
    /\ scheduled' = [scheduled EXCEPT ![p] = TRUE]
    /\ UNCHANGED <<lockKind, inProgress, held, lease, run>>

-----------------------------------------------------------------------------
(* RedisLock.runExclusive: taking the lease. *)

\* SET NX PX.  A refusal is as good as answered: it changes nothing.
Acquires(r) ==
    /\ Phase(r) = "acquiring"
    /\ IF lease = None
       THEN /\ lease' = [token |-> run[r].token, left |-> TtlMs]
            /\ run' = [run EXCEPT ![r].phase = "granted"]
            /\ UNCHANGED <<inProgress, held>>
       ELSE Finished(r) /\ UNCHANGED lease
    /\ UNCHANGED <<lockKind, scheduled>>

StartsWork(r) ==
    /\ Phase(r) = "granted"
    /\ run' = [run EXCEPT ![r].phase = "working", ![r].age = 0, ![r].renewIn = RenewEvery]
    /\ UNCHANGED <<lockKind, scheduled, inProgress, held, lease>>

\* Fails closed: the lease may have been granted all the same, and then stands
\* until it expires.
AcquireFails(r) ==
    /\ Phase(r) \in {"acquiring", "granted"}
    /\ Finished(r)
    /\ UNCHANGED <<lockKind, scheduled, lease>>

-----------------------------------------------------------------------------
(* Renewing it, while the work runs. *)

RenewDue(r) == Phase(r) = "working" /\ lockKind = "redis" /\ run[r].renewIn = 0

Renews(r) ==
    /\ RenewDue(r)
    /\ run[r].renewal = "none"
    /\ run' = [run EXCEPT ![r].renewal = "sent", ![r].renewAge = 0, ![r].renewIn = RenewEvery]
    /\ UNCHANGED <<lockKind, scheduled, inProgress, held, lease>>

\* The process stalls past the moment it was to renew.
RenewMissed(r) ==
    /\ RenewDue(r)
    /\ run[r].misses < MaxMisses
    /\ run' = [run EXCEPT ![r].misses = @ + 1, ![r].renewIn = RenewEvery]
    /\ UNCHANGED <<lockKind, scheduled, inProgress, held, lease>>

\* RENEW_SCRIPT.
Extended(r) == IF HoldsLease(r) THEN [lease EXCEPT !.left = TtlMs] ELSE lease

RenewTakes(r) ==
    /\ run[r].renewal = "sent"
    /\ lease' = Extended(r)
    /\ run' = [run EXCEPT ![r].renewal = IF HoldsLease(r) THEN "extended" ELSE "refused"]
    /\ UNCHANGED <<lockKind, scheduled, inProgress, held>>

\* Mutant of Aborts: a lease that is gone is taken for one that was renewed.
AbortsNever(r) == FALSE

\* The signal fires once and for all.
Aborts(r) == run[r].aborted \/ run[r].renewal = "refused"

RenewAnswered(r) ==
    /\ run[r].renewal \in {"extended", "refused"}
    /\ run' = [run EXCEPT ![r].renewal = "none", ![r].misses = 0, ![r].aborted = Aborts(r)]
    /\ UNCHANGED <<lockKind, scheduled, inProgress, held, lease>>

RenewFails(r) ==
    /\ run[r].renewal # "none"
    /\ run[r].misses < MaxMisses
    /\ run' = [run EXCEPT ![r].renewal = "none", ![r].misses = @ + 1]
    /\ UNCHANGED <<lockKind, scheduled, inProgress, held, lease>>

-----------------------------------------------------------------------------
(* The work ends, by itself, by an error or by heeding the signal, and the *)
(* lease is given back.                                                    *)

WorkEnds(r) ==
    /\ Phase(r) = "working"
    /\ IF lockKind = "redis"
       THEN run' = [run EXCEPT ![r].phase = "releasing", ![r].age = 0] /\ UNCHANGED <<held, inProgress>>
       ELSE Finished(r)
    /\ UNCHANGED <<lockKind, scheduled, lease>>

\* Mutant of Given: DEL without comparing the token.
GivenBlindly(r) == None

\* RELEASE_SCRIPT.
Given(r) == IF HoldsLease(r) THEN None ELSE lease

\* On one connection, a renewal that is under way comes first.
Releases(r) ==
    /\ Phase(r) = "releasing"
    /\ run[r].renewal # "sent"
    /\ lease' = Given(r)
    /\ Finished(r)
    /\ UNCHANGED <<lockKind, scheduled>>

\* A release that failed is not retried: the lease expires on its own.
ReleaseFails(r) ==
    /\ Phase(r) = "releasing"
    /\ Finished(r)
    /\ UNCHANGED <<lockKind, scheduled, lease>>

-----------------------------------------------------------------------------
Crashes(p) ==
    /\ run' = [r \in Runs |-> IF ProcOf(r) = p THEN Idle ELSE run[r]]
    /\ inProgress' = [inProgress EXCEPT ![p] = FALSE]
    /\ held' = [held EXCEPT ![p] = FALSE]
    /\ scheduled' = [scheduled EXCEPT ![p] = TRUE]
    /\ UNCHANGED <<lockKind, lease>>

Overdue(r) ==
    \/ RenewDue(r)
    \/ Phase(r) \notin {"idle", "working"} /\ run[r].age >= CallMs
    \/ run[r].renewal # "none" /\ run[r].renewAge >= CallMs

\* One unit of time.  Redis drops the key once its time is over.
Tick ==
    /\ lockKind = "redis"
    /\ \A r \in Runs : ~ Overdue(r)
    /\ lease' = IF lease # None /\ lease.left > 0 THEN [lease EXCEPT !.left = @ - 1] ELSE None
    /\ run' = [r \in Runs |->
                LET u == run[r]
                IN  [u EXCEPT !.age = IF u.phase \in {"idle", "working"} THEN 0 ELSE @ + 1,
                              !.renewIn = IF u.phase = "working" THEN @ - 1 ELSE @,
                              !.renewAge = IF u.renewal = "none" THEN 0 ELSE @ + 1]]
    /\ UNCHANGED <<lockKind, scheduled, inProgress, held>>

Step(r) ==
    \/ JobTick(r) \/ Acquires(r) \/ StartsWork(r) \/ AcquireFails(r)
    \/ Renews(r) \/ RenewMissed(r) \/ RenewTakes(r) \/ RenewAnswered(r) \/ RenewFails(r)
    \/ WorkEnds(r) \/ Releases(r) \/ ReleaseFails(r)

\* What a process does by itself once a command or the work has ended.
Proceeds(r) ==
    \/ Renews(r) \/ RenewTakes(r) \/ RenewAnswered(r)
    \/ WorkEnds(r) \/ Releases(r) \/ ReleaseFails(r)

Next ==
    \/ \E r \in Runs : Step(r)
    \/ \E p \in Procs : StopsScheduler(p) \/ StartsScheduler(p) \/ Crashes(p)
    \/ Tick

\* Intervals fire, work and commands end, time passes; and a Redis that is
\* asked again and again is reached again and again.
Fairness ==
    /\ SF_vars(Tick)
    /\ \A p \in Procs :
        LET Own(A(_)) == \E r \in Runs : ProcOf(r) = p /\ A(r)
        IN  /\ WF_vars(Own(JobTick))
            /\ SF_vars(Own(Acquires)) /\ SF_vars(Own(StartsWork))
            /\ WF_vars(Own(Proceeds))

Spec == Init /\ [][Next]_vars /\ Fairness

-----------------------------------------------------------------------------
RunStates ==
    [ phase : {"idle", "acquiring", "granted", "working", "releasing"},
      token : Runs \cup {None}, age : 0..CallMs, aborted : BOOLEAN,
      renewIn : 0..RenewEvery, renewal : {"none", "sent", "extended", "refused"},
      renewAge : 0..CallMs, misses : 0..MaxMisses ]

TypeOK ==
    /\ lockKind \in LockKinds
    /\ {scheduled, inProgress, held} \subseteq [Procs -> BOOLEAN]
    /\ lease \in [token : Runs, left : 0..TtlMs] \cup {None}
    /\ run \in [Runs -> RunStates]

Active(p) == {r \in Runs : ProcOf(r) = p /\ Phase(r) # "idle"}

\* A process never has two runs of a job, however it is locked: not across a
\* stop and a start of the scheduler, and not after a run that failed
\* (job.scheduler.ts:41-49, 96-98).
OneRunPerProcess ==
    /\ TypeOK
    /\ \A p \in Procs : Cardinality(Active(p)) = (IF inProgress[p] THEN 1 ELSE 0)

\* Two instances both believe in the lease only if one of them has missed two
\* renewals in a row: one may fail, and a holder that was overtaken and reaches
\* Redis again is told to stop (redis.lock.ts:9, 45-53).
OneTrustedHolder ==
    lockKind = "redis" =>
        \A r, s \in Runs :
            /\ r # s
            /\ Phase(r) = "working" /\ ~ run[r].aborted
            /\ Phase(s) = "working" /\ ~ run[s].aborted
            => run[r].misses >= 2 \/ run[s].misses >= 2

\* The lock the port promises: nobody takes a lease that is taken, and a lease
\* that lapsed and was taken by another is neither extended nor given back by the
\* one that had it before (redis.lock.ts:21-43, 105-113).
Promised == INSTANCE Lease WITH
    Clients <- Runs,
    Ttl <- TtlMs,
    owner <- IF lease = None THEN None ELSE lease.token,
    left <- IF lease = None THEN 0 ELSE lease.left,
    believers <- {r \in Runs : run[r].token # None /\ Phase(r) # "acquiring"}

ImplementsLease == Promised!Spec

\* No crash, lost command, failed run or orphaned lease keeps the job from
\* running again, as long as the scheduler of some instance stays started
\* (job.scheduler.ts:154-156, redis.lock.ts:112-113).
KeepsRunning ==
    (\E p \in Procs : <>[]scheduled[p]) => []<>(\E r \in Runs : Phase(r) = "working")
=============================================================================
