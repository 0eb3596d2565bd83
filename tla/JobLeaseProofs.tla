---------------------------- MODULE JobLeaseProofs ----------------------------
(***************************************************************************)
(* What JobLease promises for any number of instances and any times: one   *)
(* run of the job in each of them, a lease that is what the Lock port      *)
(* promises, and, if Redis answers soon enough, one holder that trusts it. *)
(***************************************************************************)
EXTENDS JobLease, FiniteSetTheorems, TLAPS

Leases == [token : Runs, left : 0..TtlMs]

\* What goes with a run's phase.
GoodRun(r) ==
    /\ Phase(r) = "idle" => run[r].token = None /\ run[r].renewal = "none"
    /\ lockKind # "redis" =>
        Phase(r) \in {"idle", "working"} /\ run[r].token = None /\ run[r].renewal = "none"
    /\ lockKind = "redis" /\ Phase(r) # "idle" => run[r].token = r
    /\ run[r].renewal # "none" => Phase(r) \in {"working", "releasing"}

\* The guard is set exactly while a run goes on, and there is only one.
Guarded(p) == inProgress[p] <=> \E r \in Runs : ProcOf(r) = p /\ Phase(r) # "idle"
Alone(r) ==
    \A s \in Runs : Phase(r) # "idle" /\ Phase(s) # "idle" /\ ProcOf(r) = ProcOf(s) => r = s

IInv ==
    /\ TypeOK
    /\ \A r \in Runs : GoodRun(r) /\ Alone(r)
    /\ \A p \in Procs : Guarded(p)

-----------------------------------------------------------------------------
LEMMA Times ==
    /\ RenewEvery \in Nat \ {0} /\ TtlMs \in Nat \ {0} /\ CallMs \in Nat
    /\ MaxMisses \in Nat
BY TimesAssumption, BoundsAssumption
DEF TtlMs, RenewEvery, Larger, LeaseMultiplier, RenewFraction

LEMMA Ranges ==
    /\ 0 \in 0..CallMs /\ 0 \in 0..RenewEvery /\ RenewEvery \in 0..RenewEvery
    /\ 0 \in 0..MaxMisses
BY Times

LEMMA RunsOfProcs ==
    ASSUME NEW r \in Runs
    PROVE  ProcOf(r) \in Procs /\ r # None
BY NoneAssumption DEF Runs, ProcOf

LEMMA IdleTyped ==
    /\ Idle \in RunStates /\ Idle.phase = "idle" /\ Idle.token = None
    /\ Idle.renewal = "none"
BY Times DEF Idle, RunStates

\* One run changes, and the others stay.
LEMMA OneRun ==
    ASSUME TypeOK, NEW r \in Runs, NEW u \in RunStates, run' = [run EXCEPT ![r] = u]
    PROVE  /\ run' \in [Runs -> RunStates] /\ run'[r] = u
           /\ \A s \in Runs \ {r} : run'[s] = run[s]
BY DEF TypeOK

\* A run goes on: it stays one of its process.
LEMMA GoesOn ==
    ASSUME IInv, NEW r \in Runs, NEW u \in RunStates, run' = [run EXCEPT ![r] = u],
           Phase(r) # "idle", u.phase # "idle", u.token = run[r].token,
           lockKind # "redis" => u.phase = "working" /\ u.renewal = "none",
           u.renewal # "none" => u.phase \in {"working", "releasing"},
           UNCHANGED <<lockKind, scheduled, inProgress, held>>,
           lease' \in Leases \cup {None}
    PROVE  IInv'
<1>1. /\ run' \in [Runs -> RunStates] /\ run'[r] = u
      /\ \A s \in Runs \ {r} : run'[s] = run[s]
  BY OneRun DEF IInv
<1>2. TypeOK'
  BY <1>1 DEF IInv, TypeOK, Leases
<1>3. \A s \in Runs : (Phase(s) = "idle") <=> (Phase(s) = "idle")'
  BY <1>1 DEF Phase
<1>4. \A s \in Runs : GoodRun(s)'
  BY <1>1 DEF IInv, GoodRun, Phase
<1>5. \A s \in Runs : Alone(s)'
  BY <1>3 DEF IInv, Alone
<1>6. \A p \in Procs : Guarded(p)'
  BY <1>3 DEF IInv, Guarded
<1>7. QED
  BY <1>2, <1>4, <1>5, <1>6 DEF IInv

LEMMA Finishing ==
    ASSUME IInv, NEW r \in Runs, Phase(r) # "idle", Finished(r),
           UNCHANGED <<lockKind, scheduled>>, lease' \in Leases \cup {None}
    PROVE  IInv'
<1> DEFINE p == ProcOf(r)
<1>1. /\ run' \in [Runs -> RunStates] /\ run'[r] = Idle
      /\ \A s \in Runs \ {r} : run'[s] = run[s]
  BY OneRun, IdleTyped DEF IInv, Finished
<1>2. TypeOK'
  BY <1>1, RunsOfProcs DEF IInv, TypeOK, Leases, Finished
<1>3. \A s \in Runs : Phase(s)' # "idle" <=> s # r /\ Phase(s) # "idle"
  BY <1>1, IdleTyped DEF Phase
<1>4. \A s \in Runs : GoodRun(s)'
  BY <1>1, IdleTyped DEF IInv, GoodRun, Phase
<1>5. \A s \in Runs : Alone(s)'
  BY <1>3 DEF IInv, Alone
<1>6. \A q \in Procs : Guarded(q)'
  <2> SUFFICES ASSUME NEW q \in Procs
               PROVE  Guarded(q)'
    OBVIOUS
  <2>1. CASE q = p
    <3>1. ~ inProgress'[q]
      BY <2>1 DEF Finished, IInv, TypeOK
    <3>2. \A s \in Runs : ProcOf(s) = q => Phase(s)' = "idle"
      BY <1>3, <2>1 DEF IInv, Alone
    <3>3. QED
      BY <3>1, <3>2 DEF Guarded
  <2>2. CASE q # p
    <3>1. inProgress'[q] = inProgress[q]
      BY <2>2 DEF Finished, IInv, TypeOK
    <3>2. QED
      BY <1>3, <2>2, <3>1 DEF IInv, Guarded
  <2>3. QED
    BY <2>1, <2>2
<1>7. QED
  BY <1>2, <1>4, <1>5, <1>6 DEF IInv

-----------------------------------------------------------------------------
(* The actions *)

LEMMA Before ==
    ASSUME IInv, NEW r \in Runs
    PROVE  /\ run \in [Runs -> RunStates] /\ run[r] \in RunStates /\ GoodRun(r)
           /\ lease \in Leases \cup {None} /\ ProcOf(r) \in Procs
           /\ lockKind \in {"redis", "local", "none"}
BY RunsOfProcs, BoundsAssumption DEF IInv, TypeOK, Leases

LEMMA Ticking ==
    ASSUME IInv, NEW r \in Runs, JobTick(r)
    PROVE  IInv'
<1> DEFINE p == ProcOf(r)
<1>1. /\ Begun(r) \in RunStates /\ Begun(r).renewal = "none"
      /\ \/ lockKind = "redis" /\ Begun(r).phase = "acquiring" /\ Begun(r).token = r
         \/ lockKind # "redis" /\ Begun(r).phase = "working" /\ Begun(r).token = None
  BY Ranges DEF Begun, Idle, RunStates
<1>2. run' = [run EXCEPT ![r] = Begun(r)] /\ ~ inProgress[p] /\ Phase(r) = "idle"
  BY DEF JobTick, Busy
<1>3. /\ run' \in [Runs -> RunStates] /\ run'[r] = Begun(r)
      /\ \A s \in Runs \ {r} : run'[s] = run[s]
  BY <1>1, <1>2, OneRun DEF IInv
<1>4. inProgress' \in [Procs -> BOOLEAN] /\ inProgress'[p]
      /\ \A q \in Procs \ {p} : inProgress'[q] = inProgress[q]
  BY Before DEF JobTick, IInv, TypeOK
<1>5. held' \in [Procs -> BOOLEAN]
  <2>1. held \in [Procs -> BOOLEAN] /\ (lockKind = "local") \in BOOLEAN
    BY DEF IInv, TypeOK
  <2>2. held' = [held EXCEPT ![p] = (lockKind = "local")]
    BY DEF JobTick
  <2> HIDE DEF p
  <2>3. QED
    BY <2>1, <2>2
<1>6. TypeOK'
  BY <1>3, <1>4, <1>5 DEF JobTick, IInv, TypeOK
<1>7. \A s \in Runs : ProcOf(s) = p => Phase(s) = "idle"
  BY <1>2, Before DEF IInv, Guarded
<1>8. \A s \in Runs : Phase(s)' # "idle" <=> s = r \/ Phase(s) # "idle"
  BY <1>1, <1>3 DEF Phase
<1>9. \A s \in Runs : GoodRun(s)'
  BY <1>1, <1>3 DEF IInv, GoodRun, Phase, JobTick
<1>10. \A s \in Runs : Alone(s)'
  BY <1>7, <1>8 DEF IInv, Alone
<1>11. \A q \in Procs : Guarded(q)'
  BY <1>4, <1>8, Before DEF IInv, Guarded
<1>12. QED
  BY <1>6, <1>9, <1>10, <1>11 DEF IInv

LEMMA Acquiring ==
    ASSUME IInv, NEW r \in Runs, Acquires(r) \/ AcquireFails(r)
    PROVE  IInv'
<1>1. CASE Finished(r) /\ lease' = lease
  BY <1>1, Finishing, Before DEF Acquires, AcquireFails
<1>2. CASE Acquires(r) /\ lease = None
  <2> DEFINE u == [run[r] EXCEPT !.phase = "granted"]
  <2>1. /\ u \in RunStates /\ u.phase = "granted" /\ u.token = run[r].token
        /\ u.renewal = run[r].renewal
    BY Before DEF RunStates
  <2>2. lockKind = "redis" /\ run[r].renewal = "none" /\ run[r].token = r
    BY <1>2, Before DEF Acquires, GoodRun
  <2>3. run' = [run EXCEPT ![r] = u] /\ lease' \in Leases
    BY <1>2, <2>2, Times DEF Acquires, Leases
  <2> HIDE DEF u
  <2>4. QED
    BY <1>2, <2>1, <2>2, <2>3, GoesOn DEF Acquires
<1>3. QED
  BY <1>1, <1>2 DEF Acquires, AcquireFails

LEMMA StartingWork ==
    ASSUME IInv, NEW r \in Runs, StartsWork(r)
    PROVE  IInv'
<1> DEFINE u == [run[r] EXCEPT !.phase = "working", !.age = 0, !.renewIn = RenewEvery]
<1>1. /\ u \in RunStates /\ u.phase = "working" /\ u.token = run[r].token
      /\ u.renewal = run[r].renewal
  BY Before, Ranges DEF RunStates
<1>2. lockKind = "redis" /\ run[r].renewal = "none"
  BY Before DEF StartsWork, GoodRun
<1>3. run' = [run EXCEPT ![r] = u]
  BY DEF StartsWork
<1> HIDE DEF u
<1>4. QED
  BY <1>1, <1>2, <1>3, Before, GoesOn DEF StartsWork

LEMMA Renewing ==
    ASSUME IInv, NEW r \in Runs, Renews(r) \/ RenewMissed(r)
    PROVE  IInv'
<1>1. Phase(r) = "working" /\ lockKind = "redis"
  BY DEF Renews, RenewMissed, RenewDue
<1>2. CASE Renews(r)
  <2> DEFINE u == [run[r] EXCEPT !.renewal = "sent", !.renewAge = 0, !.renewIn = RenewEvery]
  <2>1. u \in RunStates /\ u.phase = Phase(r) /\ u.token = run[r].token
    BY Before, Ranges DEF RunStates, Phase
  <2>2. run' = [run EXCEPT ![r] = u]
    BY <1>2 DEF Renews
  <2> HIDE DEF u
  <2>3. QED
    BY <1>1, <1>2, <2>1, <2>2, Before, GoesOn DEF Renews
<1>3. CASE RenewMissed(r)
  <2> DEFINE n == run[r].misses + 1
             u == [run[r] EXCEPT !.misses = n, !.renewIn = RenewEvery]
  <2>1. n \in 0..MaxMisses
    BY <1>3, Before, Times DEF RenewMissed, RunStates
  <2>2. u \in RunStates /\ u.phase = Phase(r) /\ u.token = run[r].token
    <3> HIDE DEF n
    <3>1. QED
      BY <2>1, Before, Ranges DEF RunStates, Phase
  <2>3. run' = [run EXCEPT ![r] = u]
    BY <1>3 DEF RenewMissed
  <2> HIDE DEF u
  <2>4. QED
    BY <1>1, <1>3, <2>2, <2>3, Before, GoesOn DEF RenewMissed
<1>4. QED
  BY <1>2, <1>3

\* A renewal takes effect, is answered, or is lost.
LEMMA RenewalGoing ==
    ASSUME IInv, NEW r \in Runs, RenewTakes(r) \/ RenewAnswered(r) \/ RenewFails(r)
    PROVE  IInv'
<1>1. /\ run[r].renewal # "none" /\ Phase(r) \in {"working", "releasing"}
      /\ lockKind = "redis"
  BY Before DEF RenewTakes, RenewAnswered, RenewFails, GoodRun
<1>2. CASE RenewTakes(r)
  <2> DEFINE v == IF HoldsLease(r) THEN "extended" ELSE "refused"
             u == [run[r] EXCEPT !.renewal = v]
  <2>1. u \in RunStates /\ u.phase = Phase(r) /\ u.token = run[r].token
    BY Before DEF RunStates, Phase
  <2>2. run' = [run EXCEPT ![r] = u]
    BY <1>2 DEF RenewTakes
  <2>3. lease' \in Leases \cup {None}
    BY <1>2, Before, Times DEF RenewTakes, Extended, HoldsLease, Leases
  <2> HIDE DEF u
  <2>4. QED
    BY <1>1, <1>2, <2>1, <2>2, <2>3, GoesOn DEF RenewTakes
<1>3. CASE RenewAnswered(r)
  <2> DEFINE a == Aborts(r)
             u == [run[r] EXCEPT !.renewal = "none", !.misses = 0, !.aborted = a]
  <2>1. a \in BOOLEAN
    BY Zenon DEF Aborts
  <2>2. u \in RunStates /\ u.phase = Phase(r) /\ u.token = run[r].token /\ u.renewal = "none"
    <3> HIDE DEF a
    <3>1. QED
      BY <2>1, Before, Ranges DEF RunStates, Phase
  <2>3. run' = [run EXCEPT ![r] = u]
    BY <1>3 DEF RenewAnswered
  <2> HIDE DEF u
  <2>4. QED
    BY <1>1, <1>3, <2>2, <2>3, Before, GoesOn DEF RenewAnswered
<1>4. CASE RenewFails(r)
  <2> DEFINE n == run[r].misses + 1
             u == [run[r] EXCEPT !.renewal = "none", !.misses = n]
  <2>1. n \in 0..MaxMisses
    BY <1>4, Before, Times DEF RenewFails, RunStates
  <2>2. u \in RunStates /\ u.phase = Phase(r) /\ u.token = run[r].token /\ u.renewal = "none"
    <3> HIDE DEF n
    <3>1. QED
      BY <2>1, Before DEF RunStates, Phase
  <2>3. run' = [run EXCEPT ![r] = u]
    BY <1>4 DEF RenewFails
  <2> HIDE DEF u
  <2>4. QED
    BY <1>1, <1>4, <2>2, <2>3, Before, GoesOn DEF RenewFails
<1>5. QED
  BY <1>2, <1>3, <1>4

LEMMA EndingWork ==
    ASSUME IInv, NEW r \in Runs, WorkEnds(r)
    PROVE  IInv'
<1>1. CASE lockKind = "redis"
  <2> DEFINE u == [run[r] EXCEPT !.phase = "releasing", !.age = 0]
  <2>1. u \in RunStates /\ u.phase = "releasing" /\ u.token = run[r].token
    BY Before, Ranges DEF RunStates
  <2>2. run' = [run EXCEPT ![r] = u]
    BY <1>1 DEF WorkEnds
  <2> HIDE DEF u
  <2>3. QED
    BY <1>1, <2>1, <2>2, Before, GoesOn DEF WorkEnds
<1>2. CASE lockKind # "redis"
  BY <1>2, Before, Finishing DEF WorkEnds
<1>3. QED
  BY <1>1, <1>2

LEMMA Releasing ==
    ASSUME IInv, NEW r \in Runs, Releases(r) \/ ReleaseFails(r)
    PROVE  IInv'
<1>1. lease' \in Leases \cup {None}
  BY Before DEF Releases, ReleaseFails, Given
<1>2. QED
  BY <1>1, Finishing DEF Releases, ReleaseFails

LEMMA Crashing ==
    ASSUME IInv, NEW p \in Procs, Crashes(p)
    PROVE  IInv'
<1>1. /\ run' \in [Runs -> RunStates]
      /\ \A r \in Runs : run'[r] = IF ProcOf(r) = p THEN Idle ELSE run[r]
  BY IdleTyped DEF Crashes, IInv, TypeOK
<1>2. TypeOK'
  BY <1>1 DEF Crashes, IInv, TypeOK
<1>3. \A r \in Runs : Phase(r)' # "idle" <=> ProcOf(r) # p /\ Phase(r) # "idle"
  BY <1>1, IdleTyped DEF Phase
<1>4. \A r \in Runs : GoodRun(r)'
  BY <1>1, IdleTyped DEF IInv, GoodRun, Phase, Crashes
<1>5. \A r \in Runs : Alone(r)'
  BY <1>3 DEF IInv, Alone
<1>6. \A q \in Procs : Guarded(q)'
  BY <1>3 DEF IInv, Guarded, Crashes, TypeOK
<1>7. QED
  BY <1>2, <1>4, <1>5, <1>6 DEF IInv

LEMMA Scheduling ==
    ASSUME IInv, NEW p \in Procs, StopsScheduler(p) \/ StartsScheduler(p)
    PROVE  IInv'
<1>1. UNCHANGED <<lockKind, inProgress, held, lease, run>>
  BY DEF StopsScheduler, StartsScheduler
<1>2. scheduled' \in [Procs -> BOOLEAN]
  BY DEF StopsScheduler, StartsScheduler, IInv, TypeOK
<1>3. TypeOK'
  BY <1>1, <1>2 DEF IInv, TypeOK
<1>4. QED
  BY <1>1, <1>3 DEF IInv, GoodRun, Alone, Guarded, Phase

\* A run as it is one unit of time later.
Older(u) ==
    [u EXCEPT !.age = IF u.phase \in {"idle", "working"} THEN 0 ELSE @ + 1,
              !.renewIn = IF u.phase = "working" THEN @ - 1 ELSE @,
              !.renewAge = IF u.renewal = "none" THEN 0 ELSE @ + 1]

\* There is time left for everything it waits for.
InTime(u) ==
    /\ u.phase = "working" => u.renewIn # 0
    /\ u.phase \notin {"idle", "working"} => u.age < CallMs
    /\ u.renewal # "none" => u.renewAge < CallMs

LEMMA Ageing ==
    ASSUME NEW u \in RunStates, InTime(u)
    PROVE  /\ Older(u) \in RunStates
           /\ Older(u).phase = u.phase /\ Older(u).token = u.token
           /\ Older(u).aborted = u.aborted
           /\ Older(u).renewal = u.renewal /\ Older(u).misses = u.misses
           /\ Older(u).age = IF u.phase \in {"idle", "working"} THEN 0 ELSE u.age + 1
           /\ Older(u).renewIn = IF u.phase = "working" THEN u.renewIn - 1 ELSE u.renewIn
           /\ Older(u).renewAge = IF u.renewal = "none" THEN 0 ELSE u.renewAge + 1
<1>1. (IF u.phase \in {"idle", "working"} THEN 0 ELSE u.age + 1) \in 0..CallMs
  BY Times DEF RunStates, InTime
<1>2. (IF u.phase = "working" THEN u.renewIn - 1 ELSE u.renewIn) \in 0..RenewEvery
  BY Times DEF RunStates, InTime
<1>3. (IF u.renewal = "none" THEN 0 ELSE u.renewAge + 1) \in 0..CallMs
  BY Times DEF RunStates, InTime
<1>4. QED
  BY <1>1, <1>2, <1>3 DEF RunStates, Older

LEMMA TimePasses ==
    ASSUME IInv, Tick
    PROVE  /\ lockKind = "redis" /\ run' \in [Runs -> RunStates]
           /\ lease' \in Leases \cup {None}
           /\ \A r \in Runs : InTime(run[r]) /\ run'[r] = Older(run[r])
<1>1. lockKind = "redis" /\ \A r \in Runs : InTime(run[r])
  <2> SUFFICES ASSUME NEW r \in Runs
               PROVE  InTime(run[r])
    BY DEF Tick
  <2>1. ~ Overdue(r) /\ lockKind = "redis" /\ run[r] \in RunStates
    BY Before DEF Tick
  <2>2. QED
    BY <2>1, Times DEF Overdue, RenewDue, Phase, InTime, RunStates
<1>2. run' = [r \in Runs |-> Older(run[r])]
  BY DEF Tick, Older
<1>3. \A r \in Runs : Older(run[r]) \in RunStates
  BY <1>1, Ageing, Before
<1>4. lease' \in Leases \cup {None}
  <2>1. CASE lease # None /\ lease.left > 0
    <3>1. lease \in Leases /\ lease' = [lease EXCEPT !.left = lease.left - 1]
      BY <2>1 DEF Tick, IInv, TypeOK, Leases
    <3>2. lease.left - 1 \in 0..TtlMs
      BY <2>1, <3>1, Times DEF Leases
    <3>3. QED
      BY <3>1, <3>2 DEF Leases
  <2>2. CASE ~ (lease # None /\ lease.left > 0)
    BY <2>2 DEF Tick
  <2>3. QED
    BY <2>1, <2>2
<1>5. QED
  BY <1>1, <1>2, <1>3, <1>4

LEMMA Waiting ==
    ASSUME IInv, Tick
    PROVE  IInv'
<1>1. \A r \in Runs : /\ run'[r].phase = run[r].phase /\ run'[r].token = run[r].token
                      /\ run'[r].renewal = run[r].renewal
  BY TimePasses, Ageing, Before
<1>2. TypeOK'
  <2>1. UNCHANGED <<lockKind, scheduled, inProgress, held>>
    BY DEF Tick
  <2>2. QED
    BY <2>1, TimePasses DEF IInv, TypeOK, Leases
<1>3. UNCHANGED <<lockKind, inProgress>> /\ \A r \in Runs : Phase(r)' = Phase(r)
  BY <1>1 DEF Tick, Phase
<1>4. \A r \in Runs : GoodRun(r)'
  BY <1>1, <1>3 DEF IInv, GoodRun
<1>5. \A r \in Runs : Alone(r)'
  BY <1>3 DEF IInv, Alone
<1>6. \A p \in Procs : Guarded(p)'
  BY <1>3 DEF IInv, Guarded
<1>7. QED
  BY <1>2, <1>4, <1>5, <1>6 DEF IInv

LEMMA Starts == Init => IInv
<1> SUFFICES ASSUME Init
             PROVE  IInv
  OBVIOUS
<1>1. TypeOK
  BY IdleTyped DEF Init, TypeOK
<1>2. \A r \in Runs : run[r] = Idle
  BY DEF Init
<1>3. \A r \in Runs : GoodRun(r) /\ Alone(r)
  BY <1>2, IdleTyped DEF GoodRun, Alone, Phase
<1>4. \A p \in Procs : Guarded(p)
  BY <1>2, IdleTyped DEF Init, Guarded, Phase
<1>5. QED
  BY <1>1, <1>3, <1>4 DEF IInv

LEMMA Steps ==
    ASSUME IInv, [Next]_vars
    PROVE  IInv'
<1>1. CASE \E r \in Runs : Step(r)
  BY <1>1, Ticking, Acquiring, StartingWork, Renewing, RenewalGoing, EndingWork, Releasing
  DEF Step
<1>2. CASE \E p \in Procs : StopsScheduler(p) \/ StartsScheduler(p) \/ Crashes(p)
  BY <1>2, Scheduling, Crashing
<1>3. CASE Tick
  BY <1>3, Waiting
<1>4. CASE UNCHANGED vars
  BY <1>4 DEF vars, IInv, TypeOK, GoodRun, Alone, Guarded, Phase
<1>5. QED
  BY <1>1, <1>2, <1>3, <1>4 DEF Next

\* The inductive invariant of the jobs and their leases: the guard of a process
\* is set exactly while it runs the job, and a run has the token that is its own.
THEOREM Inductive == Spec => []IInv
BY Starts, Steps, PTL DEF Spec

\* A process never has two runs of a job, whatever locks it (job.scheduler.ts:41-49,
\* 96-98).
THEOREM OneEach == Spec => []OneRunPerProcess
<1>1. ASSUME IInv
      PROVE  OneRunPerProcess
  <2> SUFFICES ASSUME NEW p \in Procs
               PROVE  Cardinality(Active(p)) = (IF inProgress[p] THEN 1 ELSE 0)
    BY <1>1 DEF IInv, OneRunPerProcess
  <2>1. CASE inProgress[p]
    <3>1. PICK r \in Runs : ProcOf(r) = p /\ Phase(r) # "idle"
      BY <1>1, <2>1 DEF IInv, Guarded
    <3>2. Active(p) = {r}
      BY <1>1, <3>1 DEF IInv, Alone, Active
    <3>3. QED
      BY <2>1, <3>2, FS_Singleton
  <2>2. CASE ~ inProgress[p]
    <3>1. Active(p) = {}
      BY <1>1, <2>2 DEF IInv, Guarded, Active
    <3>2. QED
      BY <2>2, <3>1, FS_EmptySet
  <2>3. QED
    BY <2>1, <2>2
<1>2. QED
  BY <1>1, Inductive, PTL

-----------------------------------------------------------------------------
(* Trusting the lease *)

Left == IF lease = None THEN 0 ELSE lease.left

\* What is left of the lease while its holder has missed at most one renewal:
\* enough for the renewal that is due, or for the answer that is awaited.
Trusted(u, has, left) ==
    /\ u.phase = "granted" => has /\ left + u.age >= TtlMs
    /\ u.phase = "working" /\ ~ u.aborted =>
        /\ u.renewal = "refused" => u.misses >= 2
        /\ u.renewal = "extended" => has /\ left + u.renewAge >= TtlMs
        /\ u.renewal = "none" /\ u.misses = 0 =>
            has /\ left >= u.renewIn + RenewEvery + CallMs
        /\ u.renewal = "none" /\ u.misses = 1 => has /\ left >= u.renewIn + CallMs
        /\ u.renewal = "sent" /\ u.misses = 0 => has /\ left >= u.renewIn + CallMs
        /\ u.renewal = "sent" /\ u.misses = 1 => has /\ left + u.renewAge >= CallMs

Trusts(r) == Trusted(run[r], HoldsLease(r), Left)

TInv == IInv /\ (lockKind = "redis" => \A r \in Runs : Trusts(r))

\* The time a renewal may take, and be tried again in.
Timely == 2 * RenewEvery + 2 * CallMs <= TtlMs

LEMMA LeaseTime ==
    ASSUME IInv
    PROVE  Left \in 0..TtlMs /\ \A r \in Runs : HoldsLease(r) \in BOOLEAN
BY Times DEF IInv, TypeOK, Left, HoldsLease

\* A run that does not work under the lease trusts in nothing.
LEMMA NothingTrusted ==
    ASSUME NEW u, NEW h, NEW l, u.phase \notin {"granted", "working"}
    PROVE  Trusted(u, h, l)
BY DEF Trusted

\* Who trusts without holding the lease has missed too much for it to matter.
LEMMA NothingHeld ==
    ASSUME NEW u \in RunStates, NEW l, NEW m, Trusted(u, FALSE, l)
    PROVE  Trusted(u, FALSE, m)
BY DEF Trusted

\* A run's own steps while the lease stays as it is.
LEMMA TrustKept ==
    ASSUME Timely, NEW u \in RunStates, NEW v \in RunStates, NEW h \in BOOLEAN,
           NEW l \in 0..TtlMs, Trusted(u, h, l), v.phase = "working",
           \/ /\ u.phase = "granted" /\ v.renewal = "none" /\ v.renewIn = RenewEvery
           \/ /\ u.phase = "working" /\ v.aborted = u.aborted
              /\ \/ /\ u.renewal = "none" /\ u.renewIn = 0 /\ v.renewal = "sent"
                    /\ v.renewAge = 0 /\ v.renewIn = RenewEvery /\ v.misses = u.misses
                 \/ /\ u.renewIn = 0 /\ v.renewIn = RenewEvery /\ v.misses = u.misses + 1
                    /\ v.renewal = u.renewal /\ v.renewAge = u.renewAge
                 \/ /\ u.renewal # "none" /\ v.renewal = "none" /\ v.misses = u.misses + 1
                    /\ v.renewIn = u.renewIn
                 \/ /\ u.renewal = "extended" /\ v.renewal = "none" /\ v.misses = 0
                    /\ v.renewIn = u.renewIn
           \/ v.aborted
    PROVE  Trusted(v, h, l)
<1>1. CASE v.aborted
  BY <1>1 DEF Trusted
<1>2. CASE u.phase = "granted" /\ v.renewal = "none" /\ v.renewIn = RenewEvery
  BY <1>2, Times DEF Trusted, RunStates, Timely
<1>3. CASE u.phase = "working" /\ v.aborted = u.aborted /\ ~ v.aborted
  <2>1. CASE /\ u.renewal = "none" /\ u.renewIn = 0 /\ v.renewal = "sent"
             /\ v.renewAge = 0 /\ v.renewIn = RenewEvery /\ v.misses = u.misses
    BY <1>3, <2>1, Times DEF Trusted, RunStates, Timely
  <2>2. CASE /\ u.renewIn = 0 /\ v.renewIn = RenewEvery /\ v.misses = u.misses + 1
             /\ v.renewal = u.renewal /\ v.renewAge = u.renewAge
    BY <1>3, <2>2, Times DEF Trusted, RunStates, Timely
  <2>3. CASE /\ u.renewal # "none" /\ v.renewal = "none" /\ v.misses = u.misses + 1
             /\ v.renewIn = u.renewIn
    BY <1>3, <2>3, Times DEF Trusted, RunStates, Timely
  <2>4. CASE /\ u.renewal = "extended" /\ v.renewal = "none" /\ v.misses = 0
             /\ v.renewIn = u.renewIn
    BY <1>3, <2>4, Times DEF Trusted, RunStates, Timely
  <2>5. QED
    BY <1>1, <1>2, <1>3, <2>1, <2>2, <2>3, <2>4
<1>4. QED
  BY <1>1, <1>2, <1>3

\* Time passes for the lease and for the run alike.
LEMMA TrustLasts ==
    ASSUME Timely, NEW u \in RunStates, NEW v \in RunStates, InTime(u),
           NEW h \in BOOLEAN, NEW l \in 0..TtlMs, NEW i \in BOOLEAN, NEW m \in 0..TtlMs,
           Trusted(u, h, l), h /\ l > 0 => i /\ m = l - 1,
           v.phase = u.phase, v.aborted = u.aborted, v.renewal = u.renewal,
           v.misses = u.misses, u.phase = "working" => v.renewIn = u.renewIn - 1,
           u.phase = "granted" => v.age = u.age + 1,
           u.renewal # "none" => v.renewAge = u.renewAge + 1
    PROVE  Trusted(v, i, m)
<1>1. CASE u.phase = "granted"
  BY <1>1, Times DEF Trusted, RunStates, Timely, InTime
<1>2. CASE u.phase = "working" /\ ~ u.aborted
  <2>1. CASE u.renewal = "none"
    BY <1>2, <2>1, Times DEF Trusted, RunStates, Timely, InTime
  <2>2. CASE u.renewal = "sent"
    BY <1>2, <2>2, Times DEF Trusted, RunStates, Timely, InTime
  <2>3. CASE u.renewal = "extended"
    BY <1>2, <2>3, Times DEF Trusted, RunStates, Timely, InTime
  <2>4. CASE u.renewal = "refused"
    BY <1>2, <2>4 DEF Trusted
  <2>5. QED
    BY <2>1, <2>2, <2>3, <2>4 DEF RunStates
<1>3. QED
  BY <1>1, <1>2 DEF Trusted

\* What a run does to its own lease is nothing to the others.
LEMMA OthersTrust ==
    ASSUME TInv, lockKind = "redis", NEW r \in Runs,
           \A s \in Runs \ {r} : run'[s] = run[s],
           \/ lease' = lease
           \/ (lease = None \/ lease.token = r) /\ (lease' = None \/ lease'.token = r)
    PROVE  \A s \in Runs \ {r} : Trusts(s)'
<1> SUFFICES ASSUME NEW s \in Runs \ {r}
             PROVE  Trusts(s)'
  OBVIOUS
<1>1. Trusts(s) /\ GoodRun(s) /\ run'[s] = run[s] /\ run[s] \in RunStates
  BY Before DEF TInv
<1>2. CASE run[s].phase \notin {"granted", "working"}
  BY <1>1, <1>2, NothingTrusted DEF Trusts
<1>3. CASE run[s].phase \in {"granted", "working"} /\ lease' = lease
  BY <1>1, <1>3 DEF Trusts, HoldsLease, Left
<1>4. CASE /\ run[s].phase \in {"granted", "working"}
           /\ lease = None \/ lease.token = r
           /\ lease' = None \/ lease'.token = r
  <2>1. run[s].token = s /\ s # r
    BY <1>1, <1>4 DEF GoodRun, Phase
  <2>2. HoldsLease(s) = FALSE /\ HoldsLease(s)' = FALSE
    BY <1>1, <1>4, <2>1 DEF HoldsLease
  <2>3. QED
    BY <1>1, <2>2, NothingHeld DEF Trusts
<1>5. QED
  BY <1>2, <1>3, <1>4

\* A run that has taken the lease holds it, and one that has not trusts in nothing.
LEMMA TrustOfRun ==
    ASSUME TInv, Timely, lockKind = "redis", NEW r \in Runs, Step(r), IInv'
    PROVE  Trusts(r)'
<1> DEFINE u == run[r]
           v == run'[r]
<1>1. /\ u \in RunStates /\ v \in RunStates /\ Trusts(r) /\ GoodRun(r)
      /\ HoldsLease(r) \in BOOLEAN /\ HoldsLease(r)' \in BOOLEAN
      /\ Left \in 0..TtlMs /\ Left' \in 0..TtlMs /\ run \in [Runs -> RunStates]
  <2>1. Left' \in 0..TtlMs /\ run'[r] \in RunStates
    BY Times DEF IInv, TypeOK, Left
  <2>2. QED
    BY <2>1, Before, LeaseTime, Zenon DEF TInv, HoldsLease
<1>2. CASE JobTick(r)
  <2>1. v.phase = "acquiring"
    BY <1>1, <1>2 DEF JobTick, Begun, Idle
  <2>2. QED
    BY <2>1, NothingTrusted DEF Trusts
<1>3. CASE Finished(r)
  <2>1. v.phase = "idle"
    BY <1>1, <1>3, IdleTyped DEF Finished
  <2>2. QED
    BY <2>1, NothingTrusted DEF Trusts
<1>4. CASE Acquires(r) /\ lease = None
  <2>1. /\ v.phase = "granted" /\ v.token = r /\ r # None
        /\ lease' \in Leases /\ lease'.token = r /\ lease'.left = TtlMs
    <3>1. u.token = r /\ r # None
      BY <1>1, <1>4, RunsOfProcs DEF Acquires, GoodRun, Phase
    <3>2. lease' = [token |-> r, left |-> TtlMs] /\ TtlMs \in 0..TtlMs
      BY <1>4, <3>1, Times DEF Acquires
    <3>3. v.phase = "granted" /\ v.token = u.token
      <4>1. run' = [run EXCEPT ![r] = [u EXCEPT !.phase = "granted"]]
        BY <1>4 DEF Acquires
      <4>2. QED
        BY <1>1, <4>1 DEF RunStates
    <3>4. QED
      BY <3>1, <3>2, <3>3 DEF Leases
  <2>2. HoldsLease(r)' /\ Left' = TtlMs
    BY <2>1, NoneAssumption DEF HoldsLease, Left, Leases
  <2>3. v.age >= 0
    BY <1>1, Times DEF RunStates
  <2> HIDE DEF v
  <2>4. Trusted(v, TRUE, TtlMs)
    BY <1>1, <2>1, <2>3, Times DEF Trusted, RunStates
  <2>5. QED
    BY <2>2, <2>4 DEF Trusts, v
<1>5. CASE StartsWork(r) \/ Renews(r) \/ RenewMissed(r) \/ RenewAnswered(r) \/ RenewFails(r)
  <2>1. /\ lease' = lease /\ v.token = u.token
        /\ v.phase \in {"working", "releasing"}
    <3>1. CASE StartsWork(r)
      <4>1. /\ lease' = lease
            /\ run' = [run EXCEPT ![r] = [u EXCEPT !.phase = "working", !.age = 0,
                                                   !.renewIn = RenewEvery]]
        BY <3>1 DEF StartsWork
      <4>2. v.phase = "working" /\ v.token = u.token
        BY <1>1, <4>1 DEF RunStates
      <4>3. QED
        BY <4>1, <4>2
    <3>2. CASE Renews(r)
      BY <1>1, <3>2 DEF Renews, RenewDue, Phase
    <3>3. CASE RenewMissed(r)
      BY <1>1, <3>3 DEF RenewMissed, RenewDue, Phase
    <3>4. CASE RenewAnswered(r)
      BY <1>1, <3>4 DEF RenewAnswered, GoodRun, Phase
    <3>5. CASE RenewFails(r)
      BY <1>1, <3>5 DEF RenewFails, GoodRun, Phase
    <3>6. QED
      BY <1>5, <3>1, <3>2, <3>3, <3>4, <3>5
  <2>2. HoldsLease(r)' = HoldsLease(r) /\ Left' = Left
    BY <2>1 DEF HoldsLease, Left
  <2>3. CASE v.phase # "working"
    BY <2>1, <2>3, NothingTrusted DEF Trusts
  <2>4. CASE v.phase = "working"
    <3>1. CASE StartsWork(r)
      <4>1. u.phase = "granted" /\ v.renewal = "none" /\ v.renewIn = RenewEvery
        BY <1>1, <3>1 DEF StartsWork, Phase, GoodRun
      <4>2. QED
        BY <1>1, <2>2, <2>4, <4>1, TrustKept DEF Trusts
    <3>2. CASE Renews(r)
      <4>1. /\ u.phase = "working" /\ u.renewal = "none" /\ u.renewIn = 0
            /\ v.renewal = "sent" /\ v.renewAge = 0 /\ v.renewIn = RenewEvery
            /\ v.misses = u.misses /\ v.aborted = u.aborted
        BY <1>1, <3>2 DEF Renews, RenewDue, Phase
      <4>2. QED
        BY <1>1, <2>2, <2>4, <4>1, TrustKept DEF Trusts
    <3>3. CASE RenewMissed(r)
      <4>1. /\ u.phase = "working" /\ u.renewIn = 0 /\ v.renewIn = RenewEvery
            /\ v.misses = u.misses + 1 /\ v.renewal = u.renewal
            /\ v.renewAge = u.renewAge /\ v.aborted = u.aborted
        BY <1>1, <3>3 DEF RenewMissed, RenewDue, Phase
      <4>2. QED
        BY <1>1, <2>2, <2>4, <4>1, TrustKept DEF Trusts
    <3>4. CASE RenewAnswered(r)
      <4>1. /\ u.phase = "working" /\ v.renewal = "none" /\ v.misses = 0
            /\ v.renewIn = u.renewIn
            /\ v.aborted = Aborts(r) /\ u.renewal \in {"extended", "refused"}
        BY <1>1, <2>4, <3>4 DEF RenewAnswered, Phase
      <4>2. v.aborted \/ (v.aborted = u.aborted /\ u.renewal = "extended")
        BY <1>1, <4>1 DEF Aborts, RunStates
      <4>3. QED
        BY <1>1, <2>2, <2>4, <4>1, <4>2, TrustKept DEF Trusts
    <3>5. CASE RenewFails(r)
      <4>1. /\ u.phase = "working" /\ u.renewal # "none" /\ v.renewal = "none"
            /\ v.misses = u.misses + 1 /\ v.renewIn = u.renewIn /\ v.aborted = u.aborted
        BY <1>1, <2>4, <3>5 DEF RenewFails, Phase
      <4>2. QED
        BY <1>1, <2>2, <2>4, <4>1, TrustKept DEF Trusts
    <3>6. QED
      BY <1>5, <3>1, <3>2, <3>3, <3>4, <3>5
  <2>5. QED
    BY <2>3, <2>4
<1>6. CASE RenewTakes(r)
  <2>1. /\ v.phase = u.phase /\ v.token = u.token /\ v.aborted = u.aborted
        /\ v.misses = u.misses /\ v.renewAge = u.renewAge /\ u.renewal = "sent"
        /\ v.renewal = IF HoldsLease(r) THEN "extended" ELSE "refused"
        /\ lease' = Extended(r)
    BY <1>1, <1>6 DEF RenewTakes
  <2>2. u.phase # "granted"
    BY <1>1, <2>1 DEF GoodRun, Phase
  <2>3. CASE HoldsLease(r)
    <3>1. lease \in Leases
      BY <2>3, Before DEF HoldsLease, TInv
    <3>2. lease' = [lease EXCEPT !.left = TtlMs]
      BY <2>1, <2>3 DEF Extended
    <3>3. lease' \in Leases /\ lease'.token = lease.token /\ lease'.left = TtlMs
      BY <3>1, <3>2, Times DEF Leases
    <3>4. HoldsLease(r)' /\ Left' = TtlMs
      BY <2>1, <2>3, <3>3, NoneAssumption DEF HoldsLease, Left, Leases
    <3>5. v.renewAge >= 0 /\ v.renewal = "extended"
      BY <1>1, <2>1, <2>3, Times DEF RunStates
    <3> HIDE DEF v
    <3>6. Trusted(v, TRUE, TtlMs)
      BY <1>1, <2>1, <2>2, <3>5, Times DEF Trusted, RunStates
    <3>7. QED
      BY <3>4, <3>6 DEF Trusts, v
  <2>4. CASE ~ HoldsLease(r)
    <3>1. lease' = lease /\ v.renewal = "refused"
      BY <2>1, <2>4 DEF Extended
    <3>2. u.phase = "working" /\ ~ u.aborted => u.misses \notin {0, 1}
      BY <1>1, <2>1, <2>4 DEF Trusts, Trusted
    <3>3. u.misses \in Nat
      BY <1>1, Times DEF RunStates
    <3> HIDE DEF u, v
    <3>4. \A h, l : Trusted(v, h, l)
      BY <2>1, <2>2, <3>1, <3>2, <3>3 DEF Trusted
    <3>5. QED
      BY <3>4 DEF Trusts, v
  <2>5. QED
    BY <2>3, <2>4
<1>7. CASE WorkEnds(r)
  <2>1. run' = [run EXCEPT ![r] = [u EXCEPT !.phase = "releasing", !.age = 0]]
    BY <1>7 DEF WorkEnds
  <2>2. v.phase = "releasing"
    BY <1>1, <2>1 DEF RunStates
  <2>3. QED
    BY <2>2, NothingTrusted DEF Trusts
<1>8. QED
  BY <1>2, <1>3, <1>4, <1>5, <1>6, <1>7
  DEF Step, Acquires, AcquireFails, Releases, ReleaseFails

\* What a run's step does to the lease is its own: it takes a free one, or
\* prolongs or gives back the one that it holds.
LEMMA OwnLease ==
    ASSUME IInv, NEW r \in Runs, Step(r), lockKind = "redis"
    PROVE  /\ lockKind' = "redis" /\ \A s \in Runs \ {r} : run'[s] = run[s]
           /\ \/ lease' = lease
              \/ (lease = None \/ lease.token = r) /\ (lease' = None \/ lease'.token = r)
<1>1. run \in [Runs -> RunStates] /\ GoodRun(r)
  BY Before
<1>2. CASE Acquires(r) /\ lease = None
  <2>1. run[r].token = r
    BY <1>1, <1>2 DEF Acquires, GoodRun, Phase
  <2>2. lease'.token = r
    BY <1>2, <2>1 DEF Acquires
  <2>3. QED
    BY <1>1, <1>2, <2>2 DEF Acquires
<1>3. CASE RenewTakes(r)
  <2>1. lease' = Extended(r) /\ run[r].token = r
    BY <1>1, <1>3 DEF RenewTakes, GoodRun, Phase
  <2>2. CASE HoldsLease(r)
    <3>1. lease \in Leases /\ lease.token = r
      BY <2>1, <2>2, Before DEF HoldsLease
    <3>2. lease'.token = r
      BY <2>1, <2>2, <3>1 DEF Extended, Leases
    <3>3. QED
      BY <1>1, <1>3, <3>1, <3>2 DEF RenewTakes
  <2>3. CASE ~ HoldsLease(r)
    BY <1>1, <1>3, <2>1, <2>3 DEF Extended, RenewTakes
  <2>4. QED
    BY <2>2, <2>3
<1>4. CASE Releases(r)
  <2>1. lease' = Given(r) /\ run[r].token = r
    BY <1>1, <1>4 DEF Releases, GoodRun, Phase
  <2>2. lease' = lease \/ (lease.token = r /\ lease' = None)
    BY <2>1 DEF Given, HoldsLease
  <2>3. QED
    BY <1>1, <1>4, <2>2 DEF Releases, Finished
<1>5. CASE JobTick(r) \/ AcquireFails(r) \/ ReleaseFails(r) \/ WorkEnds(r)
           \/ (Acquires(r) /\ lease # None)
  BY <1>1, <1>5 DEF JobTick, AcquireFails, ReleaseFails, WorkEnds, Acquires, Finished
<1>6. CASE StartsWork(r) \/ Renews(r) \/ RenewMissed(r) \/ RenewAnswered(r) \/ RenewFails(r)
  BY <1>1, <1>6 DEF StartsWork, Renews, RenewMissed, RenewAnswered, RenewFails
<1>7. QED
  BY <1>2, <1>3, <1>4, <1>5, <1>6 DEF Step

LEMMA TrustSteps ==
    ASSUME TInv, Timely, [Next]_vars
    PROVE  TInv'
<1>1. IInv'
  BY Steps DEF TInv
<1>2. SUFFICES ASSUME lockKind' = "redis", NEW r \in Runs
               PROVE  Trusts(r)'
  BY <1>1 DEF TInv
<1>3. lockKind = "redis"
  BY <1>2 DEF Next, vars, Step, JobTick, Acquires, AcquireFails, StartsWork, Renews, RenewMissed,
     RenewTakes, RenewAnswered, RenewFails, WorkEnds, Releases, ReleaseFails, StopsScheduler,
     StartsScheduler, Crashes, Tick
<1>4. Trusts(r) /\ run[r] \in RunStates
  BY <1>3, Before DEF TInv
<1>5. CASE \E s \in Runs : Step(s)
  <2>1. PICK s \in Runs : Step(s)
    BY <1>5
  <2>2. CASE r = s
    BY <1>1, <1>3, <2>1, <2>2, TrustOfRun
  <2>3. CASE r # s
    BY <1>3, <2>1, <2>3, OwnLease, OthersTrust DEF TInv
  <2>4. QED
    BY <2>2, <2>3
<1>6. CASE \E p \in Procs : StopsScheduler(p) \/ StartsScheduler(p) \/ Crashes(p)
  <2>1. lease' = lease /\ (run'[r] = run[r] \/ run'[r] = Idle)
    BY <1>6 DEF StopsScheduler, StartsScheduler, Crashes
  <2>2. CASE run'[r] = run[r]
    BY <1>4, <2>1, <2>2 DEF Trusts, HoldsLease, Left
  <2>3. CASE run'[r] = Idle
    BY <2>3, IdleTyped, NothingTrusted DEF Trusts
  <2>4. QED
    BY <2>1, <2>2, <2>3
<1>7. CASE Tick
  <2>1. InTime(run[r]) /\ run'[r] = Older(run[r]) /\ IInv
    BY <1>7, TimePasses DEF TInv
  <2>2. /\ run'[r] \in RunStates /\ Left \in 0..TtlMs /\ Left' \in 0..TtlMs
        /\ HoldsLease(r) \in BOOLEAN /\ HoldsLease(r)' \in BOOLEAN
    BY <1>1, <1>4, <2>1, Ageing, LeaseTime, Times DEF IInv, TypeOK, Left, HoldsLease
  <2>3. HoldsLease(r) /\ Left > 0 => HoldsLease(r)' /\ Left' = Left - 1
    <3> SUFFICES ASSUME HoldsLease(r), Left > 0
                 PROVE  HoldsLease(r)' /\ Left' = Left - 1
      OBVIOUS
    <3>1. lease \in Leases /\ lease.left > 0
      BY <2>1, Before DEF HoldsLease, Left
    <3>2. lease' = [lease EXCEPT !.left = lease.left - 1]
      BY <1>7, <3>1, NoneAssumption DEF Tick, Leases
    <3>3. lease' # None
      <4>1. lease.left - 1 \in 0..TtlMs
        BY <3>1, Times DEF Leases
      <4>2. lease' \in Leases
        BY <3>1, <3>2, <4>1 DEF Leases
      <4>3. QED
        BY <4>2, NoneAssumption DEF Leases
    <3>4. lease'.token = lease.token /\ lease'.left = lease.left - 1
      BY <3>1, <3>2 DEF Leases
    <3>5. run'[r].token = run[r].token
      BY <1>4, <2>1, Ageing
    <3>6. QED
      BY <3>1, <3>3, <3>4, <3>5, NoneAssumption DEF HoldsLease, Left, Leases
  <2>4. /\ run'[r].phase = run[r].phase /\ run'[r].aborted = run[r].aborted
        /\ run'[r].renewal = run[r].renewal /\ run'[r].misses = run[r].misses
        /\ run[r].phase = "working" => run'[r].renewIn = run[r].renewIn - 1
        /\ run[r].phase = "granted" => run'[r].age = run[r].age + 1
        /\ run[r].renewal # "none" => run'[r].renewAge = run[r].renewAge + 1
    BY <1>4, <2>1, Ageing
  <2>5. Trusted(run[r], HoldsLease(r), Left)
    BY <1>4 DEF Trusts
  <2>6. Trusted(run'[r], HoldsLease(r)', Left')
    BY <1>4, <2>1, <2>2, <2>3, <2>4, <2>5, TrustLasts
  <2>7. QED
    BY <2>6 DEF Trusts
<1>8. CASE UNCHANGED vars
  BY <1>4, <1>8 DEF vars, Trusts, HoldsLease, Left
<1>9. QED
  BY <1>5, <1>6, <1>7, <1>8 DEF Next

\* If two renewals and their answers fit into the lease (redis.lock.ts:45-53 renews
\* a third of the way through it), two instances both believe in it only when one
\* has missed two renewals in a row (redis.lock.ts:9, 45-53).
THEOREM OneTrusted ==
    ASSUME Timely
    PROVE  Spec => []OneTrustedHolder
<1>1. ASSUME TInv
      PROVE  OneTrustedHolder
  <2> SUFFICES ASSUME lockKind = "redis", NEW r \in Runs, NEW s \in Runs, r # s,
                      Phase(r) = "working", ~ run[r].aborted,
                      Phase(s) = "working", ~ run[s].aborted,
                      ~ (run[r].misses >= 2), ~ (run[s].misses >= 2)
               PROVE  FALSE
    BY DEF OneTrustedHolder
  <2>1. ASSUME NEW t \in Runs, Phase(t) = "working", ~ run[t].aborted, ~ (run[t].misses >= 2)
        PROVE  HoldsLease(t) /\ run[t].token = t
    <3>1. Trusts(t) /\ GoodRun(t) /\ run[t] \in RunStates
      BY <1>1, Before DEF TInv
    <3>2. run[t].misses = 0 \/ run[t].misses = 1
      BY <2>1, <3>1, Times DEF RunStates
    <3>3. QED
      BY <2>1, <3>1, <3>2 DEF Trusts, Trusted, GoodRun, Phase, RunStates
  <2>2. QED
    BY <2>1 DEF HoldsLease
<1>2. ASSUME Init
      PROVE  TInv
  <2>1. \A r \in Runs : run[r].phase = "idle"
    BY <1>2, IdleTyped DEF Init
  <2>2. QED
    BY <1>2, <2>1, Starts, NothingTrusted DEF TInv, Trusts
<1>3. QED
  BY <1>1, <1>2, TrustSteps, PTL DEF Spec

-----------------------------------------------------------------------------
(* The lease of the port *)

Owner == IF lease = None THEN None ELSE lease.token
Believers == {r \in Runs : run[r].token # None /\ Phase(r) # "acquiring"}


\* The steps of the port's lease, said of the job's.
Takes(r) ==
    /\ Owner = None /\ r \notin Believers
    /\ Owner' = r /\ Left' = TtlMs /\ Believers' = Believers \cup {r}
Extends(r) ==
    /\ Owner = r /\ r \in Believers
    /\ Left' = TtlMs /\ Owner' = Owner /\ Believers' = Believers
Returns(r) ==
    /\ r \in Believers /\ Believers' = Believers \ {r}
    /\ IF Owner = r THEN Owner' = None /\ Left' = 0 ELSE Owner' = Owner /\ Left' = Left
Forgets == Believers' \subseteq Believers /\ Owner' = Owner /\ Left' = Left
Passes ==
    /\ Owner # None /\ Believers' = Believers
    /\ IF Left > 0 THEN Left' = Left - 1 /\ Owner' = Owner ELSE Owner' = None /\ Left' = 0

LEMMA PortSteps ==
    ASSUME (\E r \in Runs : Takes(r) \/ Extends(r) \/ Returns(r)) \/ Forgets \/ Passes
    PROVE  [Promised!Next]_(Promised!leaseVars)
<1> USE DEF Owner, Left, Believers
<1>1. ASSUME NEW r \in Runs, Takes(r)
      PROVE  Promised!Take(r)
  BY <1>1 DEF Takes, Promised!Take
<1>2. ASSUME NEW r \in Runs, Extends(r)
      PROVE  Promised!Extend(r)
  BY <1>2 DEF Extends, Promised!Extend
<1>3. ASSUME NEW r \in Runs, Returns(r)
      PROVE  Promised!Return(r)
  BY <1>3 DEF Returns, Promised!Return
<1>4. ASSUME Forgets
      PROVE  Promised!Forget
  BY <1>4 DEF Forgets, Promised!Forget
<1>5. ASSUME Passes
      PROVE  Promised!Pass
  BY <1>5 DEF Passes, Promised!Pass
<1>6. QED
  BY <1>1, <1>2, <1>3, <1>4, <1>5 DEF Promised!Next

\* Who believes, seen from one run that changes.
LEMMA Believing ==
    ASSUME NEW r \in Runs, run \in [Runs -> RunStates], NEW u, run' = [run EXCEPT ![r] = u]
    PROVE  Believers' = IF u.token # None /\ u.phase # "acquiring"
                        THEN Believers \cup {r} ELSE Believers \ {r}
BY DEF Believers, Phase

LEMMA Giving ==
    ASSUME IInv, NEW r \in Runs, Finished(r)
    PROVE  Believers' = Believers \ {r}
BY Before, Believing, IdleTyped DEF Finished

\* A run by itself: it takes the lease, prolongs it, gives it back, gives it up,
\* or leaves everything as it is.
LEMMA LeaseOfRun ==
    ASSUME IInv, NEW r \in Runs, Step(r)
    PROVE  [Promised!Next]_(Promised!leaseVars)
<1>1. /\ run \in [Runs -> RunStates] /\ run[r] \in RunStates /\ GoodRun(r) /\ r # None
      /\ lease \in Leases \cup {None}
  BY Before, RunsOfProcs
<1>2. r \in Believers <=> run[r].token # None /\ Phase(r) # "acquiring"
  BY DEF Believers
<1>3. CASE Acquires(r) /\ lease = None
  <2>1. run[r].token = r /\ r \notin Believers /\ Owner = None
    BY <1>1, <1>2, <1>3 DEF Acquires, GoodRun, Phase, Owner
  <2>2. run' = [run EXCEPT ![r] = [run[r] EXCEPT !.phase = "granted"]]
    BY <1>3 DEF Acquires
  <2>3. Believers' = Believers \cup {r}
    <3> DEFINE u == [run[r] EXCEPT !.phase = "granted"]
    <3>1. u.token = r /\ u.phase = "granted"
      BY <1>1, <2>1 DEF RunStates
    <3>2. QED
      BY <1>1, <2>2, <3>1, Believing
  <2>4. lease' = [token |-> r, left |-> TtlMs] /\ TtlMs \in 0..TtlMs
    BY <1>3, <2>1, Times DEF Acquires
  <2>5. lease' \in Leases /\ lease'.token = r /\ lease'.left = TtlMs
    BY <2>4 DEF Leases
  <2>6. Owner' = r /\ Left' = TtlMs
    BY <2>5, NoneAssumption DEF Owner, Left, Leases
  <2>7. QED
    BY <2>1, <2>3, <2>6, PortSteps DEF Takes
<1>4. CASE RenewTakes(r)
  <2>1. run[r].token = r /\ r \in Believers
    BY <1>1, <1>2, <1>4 DEF RenewTakes, GoodRun, Phase
  <2>2. Believers' = Believers
    <3> DEFINE u == [run[r] EXCEPT !.renewal = IF HoldsLease(r) THEN "extended" ELSE "refused"]
    <3>1. run' = [run EXCEPT ![r] = u]
      BY <1>4 DEF RenewTakes
    <3>2. u.token = r /\ u.phase # "acquiring"
      BY <1>1, <1>2, <2>1 DEF RunStates, Phase
    <3> HIDE DEF u
    <3>3. QED
      BY <1>1, <2>1, <3>1, <3>2, Believing
  <2>3. CASE HoldsLease(r)
    <3>1. lease \in Leases /\ lease.token = r /\ lease # None
      BY <1>1, <2>1, <2>3 DEF HoldsLease
    <3>2. lease' = [lease EXCEPT !.left = TtlMs] /\ TtlMs \in 0..TtlMs
      BY <1>4, <2>3, Times DEF RenewTakes, Extended
    <3>3. lease' \in Leases /\ lease'.token = r /\ lease'.left = TtlMs
      BY <3>1, <3>2 DEF Leases
    <3>4. Owner = r /\ Owner' = Owner /\ Left' = TtlMs
      BY <3>1, <3>3, NoneAssumption DEF Owner, Left, Leases
    <3>5. QED
      BY <2>1, <2>2, <3>4, PortSteps DEF Extends
  <2>4. CASE ~ HoldsLease(r)
    <3>1. lease' = lease
      BY <1>4, <2>4 DEF RenewTakes, Extended
    <3>2. QED
      BY <2>2, <3>1, PortSteps DEF Forgets, Owner, Left
  <2>5. QED
    BY <2>3, <2>4
<1>5. CASE Releases(r)
  <2>1. lease' = Given(r) /\ Believers' = Believers \ {r}
    BY <1>5, Giving DEF Releases
  <2>2. CASE run[r].token = r
    <3>1. r \in Believers
      BY <1>1, <1>2, <1>5, <2>2 DEF Releases
    <3>2. IF Owner = r THEN Owner' = None /\ Left' = 0 ELSE Owner' = Owner /\ Left' = Left
      BY <1>1, <2>1, <2>2 DEF Given, HoldsLease, Owner, Left
    <3>3. QED
      BY <2>1, <3>1, <3>2, PortSteps DEF Returns
  <2>3. CASE run[r].token # r
    BY <1>1, <1>5, <2>3, BoundsAssumption DEF Releases, GoodRun, Phase
  <2>4. QED
    BY <2>2, <2>3
<1>6. CASE AcquireFails(r) \/ ReleaseFails(r) \/ (Finished(r) /\ lease' = lease)
  <2>1. lease' = lease /\ Believers' = Believers \ {r}
    BY <1>6, Giving DEF AcquireFails, ReleaseFails
  <2>2. QED
    BY <2>1, PortSteps DEF Forgets, Owner, Left
<1>7. CASE JobTick(r)
  <2>1. run' = [run EXCEPT ![r] = Begun(r)] /\ lease' = lease
    BY <1>7 DEF JobTick
  <2>2. Begun(r).token = None \/ Begun(r).phase = "acquiring"
    BY DEF Begun, Idle
  <2>3. r \notin Believers
    BY <1>1, <1>2, <1>7 DEF JobTick, GoodRun
  <2>4. Believers' = Believers
    BY <1>1, <2>1, <2>2, <2>3, Believing
  <2>5. QED
    BY <2>1, <2>4, PortSteps DEF Forgets, Owner, Left
<1>8. CASE \/ StartsWork(r) \/ Renews(r) \/ RenewMissed(r) \/ RenewAnswered(r) \/ RenewFails(r)
           \/ (WorkEnds(r) /\ lockKind = "redis")
  <2>1. PICK u : /\ run' = [run EXCEPT ![r] = u] /\ u.token = run[r].token
                 /\ (u.phase # "acquiring" <=> Phase(r) # "acquiring")
    <3>1. CASE StartsWork(r)
      <4> DEFINE u == [run[r] EXCEPT !.phase = "working", !.age = 0, !.renewIn = RenewEvery]
      <4>1. u.token = run[r].token /\ u.phase = "working" /\ Phase(r) = "granted"
        BY <1>1, <3>1 DEF StartsWork, RunStates
      <4>2. run' = [run EXCEPT ![r] = u]
        BY <3>1 DEF StartsWork
      <4> HIDE DEF u
      <4>3. QED
        BY <4>1, <4>2
    <3>2. CASE Renews(r)
      <4> DEFINE u == [run[r] EXCEPT !.renewal = "sent", !.renewAge = 0, !.renewIn = RenewEvery]
      <4>1. u.token = run[r].token /\ u.phase = Phase(r)
        BY <1>1 DEF Phase, RunStates
      <4>2. run' = [run EXCEPT ![r] = u]
        BY <3>2 DEF Renews
      <4> HIDE DEF u
      <4>3. QED
        BY <4>1, <4>2
    <3>3. CASE RenewMissed(r)
      <4> DEFINE u == [run[r] EXCEPT !.misses = run[r].misses + 1, !.renewIn = RenewEvery]
      <4>1. u.token = run[r].token /\ u.phase = Phase(r)
        BY <1>1 DEF Phase, RunStates
      <4>2. run' = [run EXCEPT ![r] = u]
        BY <3>3 DEF RenewMissed
      <4> HIDE DEF u
      <4>3. QED
        BY <4>1, <4>2
    <3>4. CASE RenewAnswered(r)
      <4> DEFINE u == [run[r] EXCEPT !.renewal = "none", !.misses = 0, !.aborted = Aborts(r)]
      <4>1. u.token = run[r].token /\ u.phase = Phase(r)
        BY <1>1 DEF Phase, RunStates
      <4>2. run' = [run EXCEPT ![r] = u]
        BY <3>4 DEF RenewAnswered
      <4> HIDE DEF u
      <4>3. QED
        BY <4>1, <4>2
    <3>5. CASE RenewFails(r)
      <4> DEFINE u == [run[r] EXCEPT !.renewal = "none", !.misses = run[r].misses + 1]
      <4>1. u.token = run[r].token /\ u.phase = Phase(r)
        BY <1>1 DEF Phase, RunStates
      <4>2. run' = [run EXCEPT ![r] = u]
        BY <3>5 DEF RenewFails
      <4> HIDE DEF u
      <4>3. QED
        BY <4>1, <4>2
    <3>6. CASE WorkEnds(r) /\ lockKind = "redis"
      <4> DEFINE u == [run[r] EXCEPT !.phase = "releasing", !.age = 0]
      <4>1. u.token = run[r].token /\ u.phase = "releasing" /\ Phase(r) = "working"
        BY <1>1, <3>6 DEF WorkEnds, RunStates
      <4>2. run' = [run EXCEPT ![r] = u]
        BY <3>6 DEF WorkEnds
      <4> HIDE DEF u
      <4>3. QED
        BY <4>1, <4>2
    <3>7. QED
      BY <1>8, <3>1, <3>2, <3>3, <3>4, <3>5, <3>6
  <2>2. lease' = lease
    BY <1>8 DEF StartsWork, Renews, RenewMissed, RenewAnswered, RenewFails, WorkEnds
  <2>3. Believers' = Believers
    <3>1. CASE run[r].token # None /\ Phase(r) # "acquiring"
      <4>1. u.token # None /\ u.phase # "acquiring"
        BY <2>1, <3>1
      <4>2. Believers' = Believers \cup {r}
        BY <1>1, <2>1, <4>1, Believing
      <4>3. QED
        BY <1>2, <3>1, <4>2
    <3>2. CASE ~ (run[r].token # None /\ Phase(r) # "acquiring")
      <4>1. ~ (u.token # None /\ u.phase # "acquiring")
        BY <2>1, <3>2
      <4>2. Believers' = Believers \ {r}
        BY <1>1, <2>1, <4>1, Believing
      <4>3. QED
        BY <1>2, <3>2, <4>2
    <3>3. QED
      BY <3>1, <3>2
  <2>4. QED
    BY <2>2, <2>3, PortSteps DEF Forgets, Owner, Left
<1>9. QED
  BY <1>3, <1>4, <1>5, <1>6, <1>7, <1>8 DEF Step, Acquires, WorkEnds

LEMMA LeaseOfTime ==
    ASSUME IInv, Tick
    PROVE  [Promised!Next]_(Promised!leaseVars)
<1>1. Believers' = Believers
  <2>1. \A r \in Runs : run'[r].token = run[r].token /\ run'[r].phase = run[r].phase
    BY TimePasses, Ageing, Before
  <2>2. QED
    BY <2>1 DEF Believers, Phase
<1>2. CASE lease = None
  <2>1. lease' = None
    BY <1>2 DEF Tick
  <2>2. QED
    BY <1>1, <1>2, <2>1, PortSteps DEF Forgets, Owner, Left
<1>3. CASE lease # None
  <2>1. lease \in Leases /\ Owner = lease.token /\ Left = lease.left /\ Owner # None
    BY <1>3, NoneAssumption DEF IInv, TypeOK, Leases, Owner, Left
  <2>2. CASE lease.left > 0
    <3>1. lease' = [lease EXCEPT !.left = lease.left - 1]
      BY <1>3, <2>2 DEF Tick
    <3>2. lease.left - 1 \in 0..TtlMs
      BY <2>1, <2>2, Times DEF Leases
    <3>3. lease' \in Leases /\ lease'.token = lease.token /\ lease'.left = lease.left - 1
      BY <2>1, <3>1, <3>2 DEF Leases
    <3>4. Owner' = Owner /\ Left' = Left - 1
      BY <2>1, <3>3, NoneAssumption DEF Owner, Left, Leases
    <3>5. QED
      BY <1>1, <2>1, <2>2, <3>4, PortSteps DEF Passes
  <2>3. CASE ~ (lease.left > 0)
    <3>1. Owner' = None /\ Left' = 0
      BY <2>3 DEF Tick, Owner, Left
    <3>2. QED
      BY <1>1, <2>1, <2>3, <3>1, PortSteps DEF Passes
  <2>4. QED
    BY <2>2, <2>3
<1>4. QED
  BY <1>2, <1>3

LEMMA LeaseSteps ==
    ASSUME IInv, [Next]_vars
    PROVE  [Promised!Next]_(Promised!leaseVars)
<1>1. CASE \E p \in Procs : StopsScheduler(p) \/ StartsScheduler(p) \/ Crashes(p)
  <2>1. lease' = lease /\ \A r \in Runs : run'[r] = run[r] \/ run'[r] = Idle
    BY <1>1 DEF StopsScheduler, StartsScheduler, Crashes
  <2>2. Believers' \subseteq Believers
    BY <2>1, IdleTyped DEF Believers, Phase
  <2>3. QED
    BY <2>1, <2>2, PortSteps DEF Forgets, Owner, Left
<1>2. CASE UNCHANGED vars
  BY <1>2, PortSteps DEF Forgets, vars, Owner, Left, Believers, Phase
<1>3. QED
  BY <1>1, <1>2, LeaseOfRun, LeaseOfTime DEF Next

\* Redis's key, as the runs of the job take, prolong and give it back, is the lease
\* that the Lock port promises, whatever is lost, late or restarted
\* (redis.lock.ts:21-43, 105-113).
THEOREM LeaseImplemented == Spec => ImplementsLease
<1>1. ASSUME Init
      PROVE  Promised!Init
  BY <1>1, IdleTyped DEF Init, Promised!Init, Phase
<1>2. QED
  BY <1>1, Inductive, LeaseSteps, PTL DEF Spec, ImplementsLease, Promised!Spec
=============================================================================
