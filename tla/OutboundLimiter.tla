-------------------------- MODULE OutboundLimiter --------------------------
(***************************************************************************)
(* discord/gateway/outbound.limiter.ts: every outbound Discord call runs   *)
(* through per-guild lanes, two rolling budgets and a circuit breaker.     *)
(*                                                                         *)
(* The limiter is one record, `lim`, and each synchronous stretch of the   *)
(* code (run up to its await, a settled call with its drain, a drain tick) *)
(* is one action.  An action is asked for once; its status is what its     *)
(* caller's promise will say.  The loop of `drain` is in closed form: each *)
(* turn takes one slot, one guild call and one process call, so it starts  *)
(* as many waiters as the smallest of the three rooms.                     *)
(***************************************************************************)
EXTENDS CircuitBreaker, GuildBudget, SequencesExt, FiniteSets

CONSTANTS
    Actions, Guilds,
    GuildOf,            \* [Actions -> Guilds]: the lane, GLOBAL_LANE included
    PriorityOf,         \* [Actions -> Priorities]
    CircuitOf,          \* [Actions -> CircuitKeys]: guild and feature
    BudgetWindowMs, BudgetMaxActions, GlobalWindowMs, GlobalMaxActions,
    ConcurrencyPerGuild, QueueMaxPerGuild, QueueTimeoutMs,
    LastRequest,        \* bound: no action is asked for after this time
    MaxNow              \* bound: the clock

Critical == 0
Low == 3
Priorities == Critical..Low

ASSUME RequestsAssumption ==
    /\ GuildOf \in [Actions -> Guilds]
    /\ PriorityOf \in [Actions -> Priorities]
    /\ CircuitOf \in [Actions -> CircuitKeys]

Lanes == [inFlight : Nat, queues : [Priorities -> Seq(Actions)]]

Circuits ==
    [failures : Nat, windowStartedAt : Nat, openedAt : Nat \cup {None},
     probing : BOOLEAN, lastTouchedAt : Nat]

ASSUME NoneAssumption == None \notin Nat \cup Lanes \cup Circuits

ASSUME LimitsAssumption ==
    /\ {BudgetWindowMs, BudgetMaxActions, GlobalWindowMs, GlobalMaxActions,
        ConcurrencyPerGuild, QueueTimeoutMs} \subseteq Nat \ {0}
    /\ {QueueMaxPerGuild, LastRequest, MaxNow} \subseteq Nat

VARIABLES
    lim,        \* lanes, their insertion order, the budgets, the circuits
    status,     \* status[a]: where a's promise is
    expiresAt,  \* expiresAt[a]: when a queued action gives up
    sentAt,     \* history: when a's call to Discord started
    stopped,
    now

vars == <<lim, status, expiresAt, sentAt, stopped, now>>

EmptyLane == [inFlight |-> 0, queues |-> [p \in Priorities |-> <<>>]]

Init ==
    /\ lim = [ lanes      |-> [g \in Guilds |-> None],
               order      |-> <<>>,
               cursor     |-> 0,
               budget     |-> [g \in Guilds |-> <<>>],
               everything |-> <<>>,
               circuits   |-> NoCircuits ]
    /\ status = [a \in Actions |-> "new"]
    /\ expiresAt = [a \in Actions |-> None]
    /\ sentAt = [a \in Actions |-> None]
    /\ stopped = FALSE
    /\ now = 0

-----------------------------------------------------------------------------
(* Lanes. *)

LaneFor(l, g) ==
    IF l.lanes[g] # None THEN l
    ELSE [l EXCEPT !.lanes[g] = EmptyLane, !.order = Append(@, g)]

\* In the order of takeNext: by priority, oldest first within one.
Waiters(lane) == lane.queues[0] \o lane.queues[1] \o lane.queues[2] \o lane.queues[Low]

Depth(lane) == Len(Waiters(lane))

\* SelectSeq, as a recursive function, which can be reasoned about.
Kept(s, S) ==
    LET kept[i \in 0..Len(s)] ==
            IF i = 0 THEN <<>>
            ELSE IF s[i] \in S THEN Append(kept[i - 1], s[i]) ELSE kept[i - 1]
    IN  kept[Len(s)]

Without(lane, gone) ==
    [lane EXCEPT !.queues = [p \in Priorities |-> Kept(lane.queues[p], Actions \ gone)]]

Least(a, b) == IF a < b THEN a ELSE b

\* Mutant of Room: the process-wide budget is not asked.
RoomOfGuild(l, g) ==
    Least(ConcurrencyPerGuild - l.lanes[g].inFlight,
          Capacity(l.budget[g], BudgetWindowMs, BudgetMaxActions, now))

\* How many calls the lane may start now.
Room(l, g) ==
    Least(ConcurrencyPerGuild - l.lanes[g].inFlight,
          Least(Capacity(l.budget[g], BudgetWindowMs, BudgetMaxActions, now),
                Capacity(l.everything, GlobalWindowMs, GlobalMaxActions, now)))

\* The synchronous part of n executions: counted before the first await.
Execute(l, g, n) ==
    [l EXCEPT !.lanes[g].inFlight = @ + n,
              !.budget[g] = Record(@, BudgetWindowMs, now, n),
              !.everything = Record(@, GlobalWindowMs, now, n)]

\* Mutant of Abandon: the probe slot is kept.
AbandonWithProbe(l, gone) == l

\* An action that ends without calling Discord gives its probe slot back.
Abandon(l, gone) ==
    [l EXCEPT !.circuits =
        [k \in CircuitKeys |->
            IF \E a \in gone : CircuitOf[a] = k THEN ReleaseProbe(l.circuits, k)[k]
            ELSE l.circuits[k]]]

\* Mutants of DropIdleLane: one does not look at the calls in flight, the
\* other does not look at the queue.
DropQuietLane(l, g) ==
    IF Depth(l.lanes[g]) = 0
    THEN [l EXCEPT !.lanes[g] = None, !.order = Kept(@, Guilds \ {g})]
    ELSE l

DropCallFreeLane(l, g) ==
    IF l.lanes[g].inFlight = 0
    THEN [l EXCEPT !.lanes[g] = None, !.order = Kept(@, Guilds \ {g})]
    ELSE l

DropIdleLane(l, g) ==
    IF l.lanes[g].inFlight = 0 /\ Depth(l.lanes[g]) = 0
    THEN [l EXCEPT !.lanes[g] = None, !.order = Kept(@, Guilds \ {g})]
    ELSE l

-----------------------------------------------------------------------------
(* Draining.  Several lanes may be drained in one step, so a drain carries *)
(* what the step has started and timed out so far beside the limiter.      *)

Expired(l, g) == {a \in ToSet(Waiters(l.lanes[g])) : expiresAt[a] <= now}

\* Mutant of Startable: the room is given to the waiters at the back.
StartableFromTheBack(l, g) ==
    LET alive == Reverse(Waiters(Without(l.lanes[g], Expired(l, g))))
    IN  {alive[i] : i \in 1..Least(Room(l, g), Len(alive))}

\* Highest priority first, oldest first within a priority; a circuit that
\* opened while they waited is not asked again.
Startable(l, g) ==
    LET alive == Waiters(Without(l.lanes[g], Expired(l, g)))
    IN  {alive[i] : i \in 1..Least(Room(l, g), Len(alive))}

Drain(d, g) ==
    IF d.lim.lanes[g] = None THEN d
    ELSE LET late   == Expired(d.lim, g)
             starts == Startable(d.lim, g)
             rid    == [Abandon(d.lim, late) EXCEPT !.lanes[g] = Without(@, late \cup starts)]
         IN  [ lim    |-> DropIdleLane(Execute(rid, g, Cardinality(starts)), g),
               starts |-> d.starts \cup starts,
               late   |-> d.late \cup late ]

Undrained(l) == [lim |-> l, starts |-> {}, late |-> {}]

\* The lanes drained one after the other.
Drained(l, keys) ==
    LET after[i \in 0..Len(keys)] ==
            IF i = 0 THEN Undrained(l) ELSE Drain(after[i - 1], keys[i])
    IN  after[Len(keys)]

\* The limiter and the promises as a drain leaves them, `settled` besides.
Becomes(d, settled) ==
    /\ lim' = d.lim
    /\ status' = [a \in Actions |->
                    IF a \in d.starts THEN "calling"
                    ELSE IF a \in d.late THEN "timed-out"
                    ELSE IF a \in DOMAIN settled THEN settled[a] ELSE status[a]]
    /\ sentAt' = [a \in Actions |-> IF a \in d.starts THEN now ELSE sentAt[a]]
    /\ expiresAt' = [a \in Actions |-> IF a \in d.starts \cup d.late THEN None ELSE expiresAt[a]]

Nothing == [a \in {} |-> "new"]

-----------------------------------------------------------------------------
(* run(), up to its first await. *)

IsCritical(a) == PriorityOf[a] = Critical

\* A handler that outlives stop() may still ask; that is left out, since the
\* process is then exiting and no drain tick will come.
Asked(a) == status[a] = "new" /\ now <= LastRequest /\ ~ stopped

Refused(a) == ~ IsCritical(a) /\ ~ Allows(lim.circuits, CircuitOf[a], now)

\* Past the breaker, which may have given this action the probe, and with its
\* guild's lane in place.
Admitted(a) ==
    LaneFor([lim EXCEPT !.circuits =
                IF IsCritical(a) THEN @ ELSE AfterAllows(@, CircuitOf[a], now)],
            GuildOf[a])

RunsAtOnce(a) == IsCritical(a) \/ Room(Admitted(a), GuildOf[a]) > 0

Full(a) == Depth(Admitted(a).lanes[GuildOf[a]]) >= QueueMaxPerGuild

\* The priorities evictLower looks through for a waiter to give up.
LessUrgent(a) ==
    {p \in Priorities : p > PriorityOf[a] /\ Admitted(a).lanes[GuildOf[a]].queues[p] # <<>>}

Victim(a) ==
    LET p == CHOOSE q \in LessUrgent(a) : \A r \in LessUrgent(a) : r <= q
    IN  Head(Admitted(a).lanes[GuildOf[a]].queues[p])

Push(l, a) == [l EXCEPT !.lanes[GuildOf[a]].queues[PriorityOf[a]] = Append(@, a)]

ShortCircuits(a) ==
    /\ Asked(a)
    /\ Refused(a)
    /\ status' = [status EXCEPT ![a] = "short-circuited"]
    /\ UNCHANGED <<lim, expiresAt, sentAt, stopped, now>>

RunsNow(a) ==
    /\ Asked(a)
    /\ ~ Refused(a)
    /\ RunsAtOnce(a)
    /\ lim' = Execute(Admitted(a), GuildOf[a], 1)
    /\ status' = [status EXCEPT ![a] = "calling"]
    /\ sentAt' = [sentAt EXCEPT ![a] = now]
    /\ UNCHANGED <<expiresAt, stopped, now>>

Enqueues(a) ==
    /\ Asked(a)
    /\ ~ Refused(a)
    /\ ~ RunsAtOnce(a)
    /\ ~ Full(a)
    /\ lim' = Push(Admitted(a), a)
    /\ status' = [status EXCEPT ![a] = "queued"]
    /\ expiresAt' = [expiresAt EXCEPT ![a] = now + QueueTimeoutMs]
    /\ UNCHANGED <<sentAt, stopped, now>>

EvictsAndEnqueues(a) ==
    /\ Asked(a)
    /\ ~ Refused(a)
    /\ ~ RunsAtOnce(a)
    /\ Full(a)
    /\ LessUrgent(a) # {}
    /\ LET kept == [Abandon(Admitted(a), {Victim(a)}) EXCEPT
                        !.lanes[GuildOf[a]] = Without(@, {Victim(a)})]
       IN  lim' = Push(kept, a)
    /\ status' = [status EXCEPT ![a] = "queued", ![Victim(a)] = "dropped"]
    /\ expiresAt' = [expiresAt EXCEPT ![a] = now + QueueTimeoutMs, ![Victim(a)] = None]
    /\ UNCHANGED <<sentAt, stopped, now>>

Drops(a) ==
    /\ Asked(a)
    /\ ~ Refused(a)
    /\ ~ RunsAtOnce(a)
    /\ Full(a)
    /\ LessUrgent(a) = {}
    /\ lim' = Abandon(Admitted(a), {a})
    /\ status' = [status EXCEPT ![a] = "dropped"]
    /\ UNCHANGED <<expiresAt, sentAt, stopped, now>>

Run(a) ==
    ShortCircuits(a) \/ RunsNow(a) \/ Enqueues(a) \/ EvictsAndEnqueues(a) \/ Drops(a)

-----------------------------------------------------------------------------
(* A call to Discord settles: the breaker hears of it, the lane it started *)
(* on has one call less, and its guild's lane drains.                      *)

Reported(a, result) ==
    [lim EXCEPT !.circuits = IF result = "executed" THEN RecordSuccess(@, CircuitOf[a])
                             ELSE RecordFailure(@, CircuitOf[a], now)]

Released(l, a) ==
    IF l.lanes[GuildOf[a]] = None THEN l ELSE [l EXCEPT !.lanes[GuildOf[a]].inFlight = @ - 1]

Settles(a, result) ==
    /\ status[a] = "calling"
    /\ \E d \in {Drain(Undrained(Released(Reported(a, result), a)), GuildOf[a])} :
            Becomes(d, [b \in {a} |-> result])
    /\ UNCHANGED <<stopped, now>>

-----------------------------------------------------------------------------
(* The timers. *)

\* drainAll: every lane, starting one further along than the last time.
DrainTick ==
    /\ ~ stopped
    /\ lim.order # <<>>
    /\ LET n     == Len(lim.order)
           first == lim.cursor % n
           keys  == SubSeq(lim.order, first + 1, n) \o SubSeq(lim.order, 1, first)
       IN  \E d \in {Drained([lim EXCEPT !.cursor = (first + 1) % n], keys)} :
                Becomes(d, Nothing)
    /\ UNCHANGED <<stopped, now>>

SweepTick ==
    /\ ~ stopped
    /\ lim' = [lim EXCEPT !.circuits = SweepCircuits(@, now)]
    /\ UNCHANGED <<status, expiresAt, sentAt, stopped, now>>

\* Queued work is abandoned; calls in flight settle on lanes the limiter no
\* longer holds.
Abandoned == {a \in Actions : status[a] = "queued"}

Stop ==
    /\ ~ stopped
    /\ stopped' = TRUE
    /\ status' = [a \in Actions |-> IF a \in Abandoned THEN "dropped" ELSE status[a]]
    /\ lim' = [ lanes      |-> [g \in Guilds |-> None],
                order      |-> <<>>,
                cursor     |-> lim.cursor,
                budget     |-> [g \in Guilds |-> <<>>],
                everything |-> <<>>,
                circuits   |-> NoCircuits ]
    /\ expiresAt' = [a \in Actions |-> None]
    /\ UNCHANGED <<sentAt, now>>

Tick ==
    /\ now < MaxNow
    /\ now' = now + 1
    /\ UNCHANGED <<lim, status, expiresAt, sentAt, stopped>>

Next ==
    \/ \E a \in Actions : Run(a)
    \/ \E a \in Actions, result \in {"executed", "failed"} : Settles(a, result)
    \/ DrainTick
    \/ SweepTick
    \/ Stop
    \/ Tick

\* A tick that would time something out or start something.
DrainHasWork ==
    ~ stopped /\ \E g \in Guilds :
        lim.lanes[g] # None /\ Expired(lim, g) \cup Startable(lim, g) # {}

\* Time passes, every REST call settles, and the drain interval keeps firing.
\* The last two are WF of Settles and of DrainTick, with what enables a step
\* that changes something written out.
Fairness ==
    /\ WF_vars(Tick)
    /\ \A a \in Actions : []<>(status[a] # "calling")
    /\ []<>(~ DrainHasWork) \/ []<><<DrainTick>>_vars

Spec == Init /\ [][Next]_vars /\ Fairness

-----------------------------------------------------------------------------
Unsettled == {"new", "queued", "calling"}

TypeOK ==
    /\ lim.lanes \in [Guilds -> Lanes \cup {None}]
    /\ lim.order \in Seq(Guilds) /\ lim.cursor \in Nat
    /\ lim.budget \in [Guilds -> Seq(Nat)] /\ lim.everything \in Seq(Nat)
    /\ lim.circuits \in [CircuitKeys -> Circuits \cup {None}]
    /\ status \in [Actions -> Unsettled \cup {"short-circuited", "dropped", "timed-out", "executed", "failed"}]
    /\ expiresAt \in [Actions -> Nat \cup {None}]
    /\ sentAt \in [Actions -> Nat \cup {None}]
    /\ stopped \in BOOLEAN /\ now \in Nat

Of(g, s) == {a \in Actions : GuildOf[a] = g /\ status[a] = s}

\* A guild's lane exists while anything of it waits or is in flight, counts
\* exactly its calls in flight and holds exactly its waiters, each in its
\* priority's queue and never more than the queue's limit: no drain, however
\* it interleaves with fresh calls, drops a lane that is in use or counts a
\* call twice (outbound.limiter.ts:227-247, 335).
LaneAccounting ==
    /\ TypeOK
    /\ ~ stopped =>
        \A g \in Guilds :
            LET lane == lim.lanes[g]
            IN  /\ g \in ToSet(lim.order) <=> lane # None
                /\ lane = None => Of(g, "calling") = {} /\ Of(g, "queued") = {}
                /\ lane # None =>
                    /\ lane.inFlight = Cardinality(Of(g, "calling"))
                    /\ Depth(lane) = Cardinality(Of(g, "queued"))
                    /\ Depth(lane) <= QueueMaxPerGuild
                    /\ \A p \in Priorities : ToSet(lane.queues[p]) =
                            {a \in Of(g, "queued") : PriorityOf[a] = p}

SentSince(t, S) == Cardinality({a \in S : sentAt'[a] # None /\ sentAt'[a] > t})

\* A call that is not critical never starts beyond the guild's budget, the
\* process's or the guild's concurrency, critical calls counted in all three
\* (action.types.ts:45-62): whatever mix of fresh calls, completions, drain
\* ticks and trims of the windows let it go.
PacedStarts ==
    [][\A a \in Actions :
        ~ stopped /\ ~ IsCritical(a) /\ sentAt[a] # sentAt'[a] =>
            LET mine == {b \in Actions : GuildOf[b] = GuildOf[a]}
            IN  /\ SentSince(now - BudgetWindowMs, mine) <= BudgetMaxActions
                /\ SentSince(now - GlobalWindowMs, Actions) <= GlobalMaxActions
                /\ Cardinality({b \in mine : status'[b] = "calling"}) <= ConcurrencyPerGuild]_vars

\* A circuit that is holding calls back for a probe has an action that will
\* report or give the probe back: dropped, evicted, timed-out and stopped
\* actions never leave it probing for ever (circuit-breaker.ts:56-66).
ProbeIsHeld ==
    \A k \in CircuitKeys :
        lim.circuits[k] # None /\ lim.circuits[k].probing =>
            \E a \in Actions : CircuitOf[a] = k /\ status[a] \in {"queued", "calling"}

\* "Under pressure the queue drains highest-first, and overflow drops from the
\* bottom": whatever frees a slot, however many lanes one tick drains and
\* whatever expires or is evicted meanwhile, no call is started from the queue
\* while a more urgent one of its guild, or an older one as urgent, stays in
\* it, and none is dropped for room while a less urgent one stays
\* (action.types.ts:4-7).
UrgentFirst ==
    [][\A a, b \in Actions :
        GuildOf[a] = GuildOf[b] /\ status'[b] = "queued" /\ ~ stopped' =>
            /\ status[a] = "queued" /\ status'[a] = "calling" /\ status[b] = "queued" =>
                \/ PriorityOf[a] < PriorityOf[b]
                \/ PriorityOf[a] = PriorityOf[b] /\ expiresAt[a] <= expiresAt[b]
            /\ status[a] # "dropped" /\ status'[a] = "dropped" => PriorityOf[b] <= PriorityOf[a]]_vars

\* Every promise run() returned is settled: queued work is started, evicted
\* or timed out, with the drain tick alone when a budget holds it back
\* (outbound.limiter.ts:73-77).
EveryActionSettles ==
    \A a \in Actions : status[a] \in {"queued", "calling"}
        ~> status[a] \notin Unsettled \/ stopped
=============================================================================
