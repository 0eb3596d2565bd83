---------------------------- MODULE PrefixProofs ----------------------------
(***************************************************************************)
(* What the prefix of a guild is promised, behind one process's memory     *)
(* cache (GuildPrefix) and behind the two tiers of several (TieredPrefix), *)
(* for every set of guilds, readers, writers and instances, every TTL and  *)
(* every keep time.  The two have no variable in common: IInv carries the  *)
(* proofs of the first, TieredInv those of the second.                     *)
(***************************************************************************)
EXTENDS GuildPrefix, TieredPrefix, TLAPS

Answered(r) == load[r].phase \in {"read", "settled"}

\* A load's own fields, while it runs.
LoadShape ==
    \A r \in Readers :
        /\ Running(r) => load[r].key \in Keys /\ load[r].mark \in Marks
        /\ Answered(r) => load[r].value \in Nat

\* The in-flight map is exactly the running loads.
InFlightExact ==
    /\ \A r \in Readers : Running(r) => cache.inFlight[load[r].key] = r
    /\ \A k \in Keys : cache.inFlight[k] # None
            => Running(cache.inFlight[k]) /\ load[cache.inFlight[k]].key = k

\* A mark never runs ahead of its counters, so a bump always outdates it.
MarksBehind ==
    \A r \in Readers : Running(r) =>
        /\ load[r].mark.generation <= cache.generations[load[r].key]
        /\ load[r].mark.clears <= cache.cleared

\* An answer that would still be stored is the row, once writes are announced.
CurrentLoadFresh ==
    \A r \in Readers :
        /\ load[r].phase = "read"
        /\ IsCurrent(cache, load[r].key, load[r].mark)
        /\ ~ Unannounced(load[r].key)
        => load[r].value = db[load[r].key]

EntryFresh ==
    \A k \in Keys :
        ~ Unannounced(k) /\ cache.entries[k] # None => cache.entries[k].value = db[k]

\* While a load runs, no entry but its own answer is served for its key.
EntryIsLoads ==
    \A r \in Readers : Running(r) /\ cache.entries[load[r].key] # None =>
        /\ load[r].phase = "settled"
        /\ cache.entries[load[r].key].value = load[r].value

\* Nothing that may still be answered is older than what was answered.
AnswersBehind ==
    /\ \A k \in Keys :
        /\ lastAnswer[k] <= db[k]
        /\ cache.entries[k] # None =>
             lastAnswer[k] <= cache.entries[k].value /\ cache.entries[k].value <= db[k]
    /\ \A r \in Readers : Answered(r) =>
         lastAnswer[load[r].key] <= load[r].value /\ load[r].value <= db[load[r].key]

Coherence ==
    /\ InFlightExact
    /\ MarksBehind
    /\ CurrentLoadFresh
    /\ EntryFresh
    /\ EntryIsLoads
    /\ AnswersBehind

IInv == TypeOK /\ LoadShape /\ (~ stopped => Coherence)
-----------------------------------------------------------------------------
(* The cache's operators keep a cache a cache.                             *)

LEMMA BumpIsCache ==
    ASSUME NEW c \in Caches, NEW k \in Keys, NEW n \in Nat
    PROVE  Bump(c, k, n) \in Caches
<1>1. [c.generations EXCEPT ![k] = @ + 1] \in [Keys -> Nat]
  BY DEF Caches
<1>2. [c.bumpedAt EXCEPT ![k] = n] \in [Keys -> Nat \cup {None}]
  BY DEF Caches
<1>3. QED
  BY <1>1, <1>2 DEF Bump, Caches

LEMMA KeyOperators ==
    ASSUME NEW c \in Caches, NEW k \in Keys, NEW n \in Nat
    PROVE  /\ Evict(c, k) \in Caches
           /\ Delete(c, k, n) \in Caches
           /\ FinishLoad(c, k) \in Caches
           /\ MarkLoad(c, k) \in Marks
<1>1. Evict(c, k) \in Caches
  BY DEF Evict, Caches
<1>2. Delete(c, k, n) \in Caches
  BY <1>1, BumpIsCache DEF Delete
<1>3. FinishLoad(c, k) \in Caches
  BY DEF FinishLoad, Caches
<1>4. MarkLoad(c, k) \in Marks
  BY DEF MarkLoad, Marks, Caches
<1>5. QED
  BY <1>1, <1>2, <1>3, <1>4

LEMMA BeginLoadIsCache ==
    ASSUME NEW c \in Caches, NEW k \in Keys, NEW r \in Readers
    PROVE  BeginLoad(c, k, r) \in Caches
<1>1. Evict(c, k) \in Caches
  BY DEF Evict, Caches
<1>2. QED
  BY <1>1 DEF BeginLoad, Caches

LEMMA StoreAnswerIsCache ==
    ASSUME NEW c \in Caches, NEW k \in Keys, NEW m \in Marks, NEW v \in Nat, NEW n \in Nat
    PROVE  StoreAnswer(c, k, m, v, n) \in Caches
<1>1. EntryOf(v, n) \in Entries
  BY TtlAssumption DEF EntryOf, Entries
<1>2. Put(c, k, v, n) \in Caches
  BY <1>1 DEF Put, Caches
<1>3. QED
  BY <1>2 DEF StoreAnswer

LEMMA WholeCacheOperators ==
    ASSUME NEW c \in Caches, NEW n \in Nat
    PROVE  /\ EmptyCache \in Caches
           /\ Clear(c) \in Caches
           /\ SweepCache(c, n) \in Caches
           /\ StopCache(c) \in Caches
<1>1. EmptyCache \in Caches
  BY DEF EmptyCache, Caches
<1>2. Clear(c) \in Caches
  <2>1. [k \in Keys |-> None] \in [Keys -> Entries \cup {None}]
    OBVIOUS
  <2>2. c.cleared + 1 \in Nat
    BY DEF Caches
  <2>3. QED
    BY <2>1, <2>2 DEF Clear, Caches
<1>3. SweepCache(c, n) \in Caches
  BY DEF SweepCache, Caches
<1>4. QED
  BY <1>1, <1>2, <1>3 DEF StopCache

-----------------------------------------------------------------------------
(* Types. *)

TypeShape == TypeOK /\ LoadShape

LEMMA InitTypes == Init => TypeShape
<1> SUFFICES ASSUME Init PROVE TypeShape
  OBVIOUS
<1>1. EmptyCache \in Caches
  BY DEF EmptyCache, Caches
<1>2. Idle \in LoadStates
  BY DEF Idle, LoadStates
<1>3. TypeOK
  BY <1>1, <1>2 DEF Init, TypeOK
<1>4. LoadShape
  BY DEF Init, LoadShape, Running, Answered, Idle
<1>5. QED
  BY <1>3, <1>4 DEF TypeShape

LEMMA StepTypes == TypeShape /\ [Next]_vars => TypeShape'
<1> SUFFICES ASSUME TypeShape, [Next]_vars PROVE TypeShape'
  OBVIOUS
<1> USE DEF TypeShape, TypeOK, LoadShape
<1>1. ASSUME NEW r \in Readers, NEW k \in Keys, ReadHit(r, k) PROVE TypeShape'
  BY <1>1 DEF ReadHit, Hit, Caches, Entries, Running, Answered
<1>2. ASSUME NEW r \in Readers, NEW k \in Keys, ReadJoins(r, k) PROVE TypeShape'
  <2>1. cache' \in Caches
    BY <1>2, KeyOperators DEF ReadJoins
  <2>2. cache.inFlight[k] \in Readers \cup {None}
    BY DEF Caches
  <2>3. QED
    BY <1>2, <2>1, <2>2 DEF ReadJoins, Running, Answered
<1>3. ASSUME NEW r \in Readers, NEW k \in Keys, ReadStartsLoad(r, k) PROVE TypeShape'
  <2>1. cache' \in Caches /\ MarkLoad(cache, k) \in Marks
    BY <1>3, KeyOperators, BeginLoadIsCache DEF ReadStartsLoad
  <2>2. [phase |-> "querying", key |-> k, mark |-> MarkLoad(cache, k), value |-> None]
            \in LoadStates
    BY <2>1 DEF LoadStates
  <2>3. QED
    BY <1>3, <2>1, <2>2 DEF ReadStartsLoad, Running, Answered
<1>4. ASSUME NEW r \in Readers, LoadReads(r) PROVE TypeShape'
  BY <1>4 DEF LoadReads, LoadStates, Running, Answered
<1>5. ASSUME NEW r \in Readers, LoadFails(r) PROVE TypeShape'
  BY <1>5 DEF LoadFails, LoadStates, Running, Answered
<1>6. ASSUME NEW r \in Readers, LoadStores(r) PROVE TypeShape'
  <2>1. load[r].key \in Keys /\ load[r].mark \in Marks /\ load[r].value \in Nat
    BY <1>6 DEF LoadStores, Running, Answered
  <2>2. cache' \in Caches
    BY <1>6, <2>1, StoreAnswerIsCache DEF LoadStores
  <2>3. QED
    BY <1>6, <2>2 DEF LoadStores, LoadStates, Running, Answered
<1>7. ASSUME NEW r \in Readers, LoadFinishes(r) PROVE TypeShape'
  <2>1. load[r].key \in Keys
    BY <1>7 DEF LoadFinishes, Running
  <2>2. cache' \in Caches
    BY <1>7, <2>1, KeyOperators DEF LoadFinishes
  <2>3. Idle \in LoadStates
    BY DEF Idle, LoadStates
  <2>4. lastAnswer' \in [Keys -> Nat]
    BY <1>7, <2>1 DEF LoadFinishes, Answered
  <2>5. QED
    BY <1>7, <2>2, <2>3, <2>4 DEF LoadFinishes, Running, Answered, Idle
<1>8. ASSUME NEW w \in Writers, NEW k \in Keys, SaveCommits(w, k) PROVE TypeShape'
  BY <1>8 DEF SaveCommits, Running, Answered
<1>9. ASSUME NEW w \in Writers, NEW k \in Keys, SaveLosesAck(w, k) PROVE TypeShape'
  BY <1>9 DEF SaveLosesAck, Running, Answered
<1>10. ASSUME NEW w \in Writers, Invalidates(w) PROVE TypeShape'
  <2>1. writer[w] \in Keys
    BY <1>10 DEF Invalidates
  <2>2. cache' \in Caches
    BY <1>10, <2>1, KeyOperators DEF Invalidates
  <2>3. QED
    BY <1>10, <2>1, <2>2 DEF Invalidates, Running, Answered
<1>11. CASE ClearsNamespace
  BY <1>11, WholeCacheOperators DEF ClearsNamespace, Running, Answered
<1>12. CASE Sweeps
  BY <1>12, WholeCacheOperators DEF Sweeps, Running, Answered
<1>13. CASE Stops
  BY <1>13, WholeCacheOperators DEF Stops, Running, Answered
<1>14. CASE Tick
  BY <1>14 DEF Tick, Running, Answered
<1>15. CASE UNCHANGED vars
  BY <1>15 DEF vars, Running, Answered
<1>16. QED
  BY <1>1, <1>2, <1>3, <1>4, <1>5, <1>6, <1>7, <1>8, <1>9, <1>10, <1>11, <1>12,
     <1>13, <1>14, <1>15 DEF Next, LoadSteps

\* TypeOK is an invariant: every map of the cache, and every load, keeps its
\* shape through each handler.
THEOREM TypeCorrect == Spec => []TypeOK
<1>1. Spec => []TypeShape
  BY InitTypes, StepTypes, PTL DEF Spec
<1>2. TypeShape => TypeOK
  BY DEF TypeShape
<1>3. QED
  BY <1>1, <1>2, PTL
-----------------------------------------------------------------------------
(* What each operator does to each field, so that the steps below need not *)
(* take records apart.                                                     *)

LEMMA EvictFields ==
    ASSUME NEW c \in Caches, NEW k \in Keys
    PROVE  /\ Evict(c, k).entries = [c.entries EXCEPT ![k] = None]
           /\ Evict(c, k).inFlight = c.inFlight
           /\ Evict(c, k).generations = c.generations
           /\ Evict(c, k).bumpedAt = c.bumpedAt
           /\ Evict(c, k).cleared = c.cleared
BY DEF Evict, Caches

LEMMA BeginLoadFields ==
    ASSUME NEW c \in Caches, NEW k \in Keys, NEW r \in Readers
    PROVE  /\ BeginLoad(c, k, r).entries = [c.entries EXCEPT ![k] = None]
           /\ BeginLoad(c, k, r).inFlight = [c.inFlight EXCEPT ![k] = r]
           /\ BeginLoad(c, k, r).generations = c.generations
           /\ BeginLoad(c, k, r).cleared = c.cleared
<1>1. Evict(c, k) \in Caches
  BY DEF Evict, Caches
<1>2. QED
  BY <1>1, EvictFields DEF BeginLoad, Caches

LEMMA FinishLoadFields ==
    ASSUME NEW c \in Caches, NEW k \in Keys
    PROVE  /\ FinishLoad(c, k).entries = c.entries
           /\ FinishLoad(c, k).inFlight = [c.inFlight EXCEPT ![k] = None]
           /\ FinishLoad(c, k).generations = c.generations
           /\ FinishLoad(c, k).cleared = c.cleared
BY DEF FinishLoad, Caches

LEMMA DeleteFields ==
    ASSUME NEW c \in Caches, NEW k \in Keys, NEW n \in Nat
    PROVE  /\ Delete(c, k, n).entries = [c.entries EXCEPT ![k] = None]
           /\ Delete(c, k, n).inFlight = c.inFlight
           /\ Delete(c, k, n).generations = [c.generations EXCEPT ![k] = @ + 1]
           /\ Delete(c, k, n).cleared = c.cleared
<1> DEFINE e == Evict(c, k)
<1>1. e \in Caches
  BY KeyOperators
<1>2. /\ Bump(e, k, n).entries = e.entries
      /\ Bump(e, k, n).inFlight = e.inFlight
      /\ Bump(e, k, n).generations = [e.generations EXCEPT ![k] = @ + 1]
      /\ Bump(e, k, n).cleared = e.cleared
  <2> HIDE DEF e
  <2>1. QED
    BY <1>1 DEF Bump, Caches
<1>3. QED
  BY <1>2, EvictFields DEF Delete

LEMMA StoreAnswerFields ==
    ASSUME NEW c \in Caches, NEW k \in Keys, NEW m \in Marks, NEW v \in Nat, NEW n \in Nat
    PROVE  /\ IsCurrent(c, k, m) =>
                /\ StoreAnswer(c, k, m, v, n).entries = [c.entries EXCEPT ![k] = EntryOf(v, n)]
                /\ EntryOf(v, n).value = v
           /\ ~ IsCurrent(c, k, m) => StoreAnswer(c, k, m, v, n).entries = c.entries
           /\ StoreAnswer(c, k, m, v, n).inFlight = c.inFlight
           /\ StoreAnswer(c, k, m, v, n).generations = c.generations
           /\ StoreAnswer(c, k, m, v, n).cleared = c.cleared
<1>1. EntryOf(v, n) \in Entries /\ EntryOf(v, n).value = v
  BY TtlAssumption DEF EntryOf, Entries
<1>2. /\ Put(c, k, v, n).entries = [c.entries EXCEPT ![k] = EntryOf(v, n)]
      /\ Put(c, k, v, n).inFlight = c.inFlight
      /\ Put(c, k, v, n).generations = c.generations
      /\ Put(c, k, v, n).cleared = c.cleared
  BY DEF Put, Caches
<1>3. QED
  BY <1>1, <1>2 DEF StoreAnswer

LEMMA ClearFields ==
    ASSUME NEW c \in Caches
    PROVE  /\ \A k \in Keys : Clear(c).entries[k] = None
           /\ Clear(c).inFlight = c.inFlight
           /\ Clear(c).generations = c.generations
           /\ Clear(c).cleared = c.cleared + 1
BY DEF Clear, Caches

LEMMA SweepFields ==
    ASSUME NEW c \in Caches, NEW n \in Nat
    PROVE  /\ \A k \in Keys : SweepCache(c, n).entries[k] \in {c.entries[k], None}
           /\ SweepCache(c, n).inFlight = c.inFlight
           /\ \A k \in Keys : c.inFlight[k] # None =>
                SweepCache(c, n).generations[k] = c.generations[k]
           /\ SweepCache(c, n).cleared = c.cleared
BY DEF SweepCache, Forgettable, Caches

-----------------------------------------------------------------------------
(* Coherence. *)

LEMMA StepCoherence ==
    ASSUME TypeShape, TypeShape', ~ stopped', ~ stopped => Coherence, [Next]_vars
    PROVE  Coherence'
<1> DEFINE Fields(c) ==
        /\ c.entries \in [Keys -> Entries \cup {None}]
        /\ c.inFlight \in [Keys -> Readers \cup {None}]
        /\ c.generations \in [Keys -> Nat]
        /\ c.cleared \in Nat
<1>a. Fields(cache) /\ Fields(cache')
  BY DEF TypeShape, TypeOK, Caches
<1>b. ~ stopped
  BY DEF Next, vars, LoadSteps, ReadHit, ReadJoins, ReadStartsLoad, LoadReads, LoadFails,
     LoadStores, LoadFinishes, SaveCommits, SaveLosesAck, Invalidates, ClearsNamespace,
     Sweeps, Stops, Tick
<1>c. InFlightExact /\ MarksBehind /\ CurrentLoadFresh /\ EntryFresh /\ EntryIsLoads /\ AnswersBehind
  BY <1>b DEF Coherence
<1>d. TypeOK /\ LoadShape
  BY DEF TypeShape
<1>e. /\ cache \in Caches
      /\ db \in [Keys -> Nat]
      /\ load \in [Readers -> LoadStates]
      /\ writer \in [Writers -> Keys \cup {None}]
      /\ lostAck \in [Keys -> BOOLEAN]
      /\ lastAnswer \in [Keys -> Nat]
      /\ now \in Nat
  BY <1>d DEF TypeOK
<1>f. \A r \in Readers : Running(r) => load[r].key \in Keys /\ load[r].mark \in Marks
  BY <1>d DEF LoadShape
<1>g. \A r \in Readers : Answered(r) => Running(r) /\ load[r].value \in Nat
  BY <1>d DEF LoadShape, Running, Answered
<1> DEFINE Known ==
        /\ Fields(cache) /\ Fields(cache')
        /\ InFlightExact /\ MarksBehind /\ CurrentLoadFresh
        /\ EntryFresh /\ EntryIsLoads /\ AnswersBehind
        /\ db \in [Keys -> Nat]
        /\ load \in [Readers -> LoadStates]
        /\ writer \in [Writers -> Keys \cup {None}]
        /\ lostAck \in [Keys -> BOOLEAN]
        /\ lastAnswer \in [Keys -> Nat]
        /\ \A r \in Readers : Running(r) => load[r].key \in Keys /\ load[r].mark \in Marks
        /\ \A r \in Readers : Answered(r) => Running(r) /\ load[r].value \in Nat
        /\ None \notin Keys /\ None \notin Readers
<1>h. Known
  BY <1>a, <1>c, <1>e, <1>f, <1>g, KeysAssumption, ReadersAssumption
<1> HIDE DEF Fields, Known
<1>1. ASSUME NEW r \in Readers, NEW k \in Keys, ReadHit(r, k) PROVE Coherence'
  <2>1. InFlightExact'
    BY <1>1, <1>h DEF ReadHit, InFlightExact, Running, Fields, Hit, Known
  <2>2. MarksBehind'
    BY <1>1, <1>h DEF ReadHit, MarksBehind, InFlightExact, Marks, Running, Fields, Hit,
       Known
  <2>3. CurrentLoadFresh'
    BY <1>1, <1>h DEF ReadHit, CurrentLoadFresh, MarksBehind, InFlightExact, IsCurrent,
       Unannounced, Marks, Running, Fields, Hit, Known
  <2>4. EntryFresh'
    BY <1>1, <1>h DEF ReadHit, EntryFresh, CurrentLoadFresh, Unannounced, Running, Fields,
       Hit, Known
  <2>5. EntryIsLoads'
    BY <1>1, <1>h DEF ReadHit, EntryIsLoads, InFlightExact, Running, Fields, Hit, Known
  <2>6. AnswersBehind'
    BY <1>1, <1>h DEF ReadHit, AnswersBehind, EntryIsLoads, InFlightExact, Answered,
       Entries, Running, Fields, Hit, Known
  <2>7. QED
    BY <2>1, <2>2, <2>3, <2>4, <2>5, <2>6 DEF Coherence
<1>2. ASSUME NEW r \in Readers, NEW k \in Keys, ReadJoins(r, k) PROVE Coherence'
  <2>1. /\ cache'.entries = [cache.entries EXCEPT ![k] = None]
        /\ cache'.inFlight = cache.inFlight
        /\ cache'.generations = cache.generations
        /\ cache'.cleared = cache.cleared
    BY <1>2, <1>e, EvictFields DEF ReadJoins, Running
  <2>2. InFlightExact'
    BY <1>2, <1>h, <2>1 DEF ReadJoins, InFlightExact, Running, Fields, Known
  <2>3. MarksBehind'
    BY <1>2, <1>h, <2>1 DEF ReadJoins, MarksBehind, InFlightExact, Marks, Running, Fields,
       Known
  <2>4. CurrentLoadFresh'
    BY <1>2, <1>h, <2>1 DEF ReadJoins, CurrentLoadFresh, MarksBehind, InFlightExact,
       IsCurrent, Unannounced, Marks, Running, Fields, Known
  <2>5. EntryFresh'
    BY <1>2, <1>h, <2>1 DEF ReadJoins, EntryFresh, CurrentLoadFresh, Unannounced, Running,
       Fields, Known
  <2>6. EntryIsLoads'
    BY <1>2, <1>h, <2>1 DEF ReadJoins, EntryIsLoads, InFlightExact, Running, Fields, Known
  <2>7. AnswersBehind'
    BY <1>2, <1>h, <2>1 DEF ReadJoins, AnswersBehind, EntryIsLoads, InFlightExact,
       Answered, Entries, Running, Fields, Known
  <2>8. QED
    BY <2>2, <2>3, <2>4, <2>5, <2>6, <2>7 DEF Coherence
<1>3. ASSUME NEW r \in Readers, NEW k \in Keys, ReadStartsLoad(r, k) PROVE Coherence'
  <2>1. /\ cache'.entries = [cache.entries EXCEPT ![k] = None]
        /\ cache'.inFlight = [cache.inFlight EXCEPT ![k] = r]
        /\ cache'.generations = cache.generations
        /\ cache'.cleared = cache.cleared
    BY <1>3, <1>e, BeginLoadFields DEF ReadStartsLoad
  <2>2. InFlightExact'
    BY <1>3, <1>h, <2>1 DEF ReadStartsLoad, InFlightExact, Running, Fields, MarkLoad,
       Asks, Known
  <2>3. MarksBehind'
    BY <1>3, <1>h, <2>1 DEF ReadStartsLoad, MarksBehind, InFlightExact, Marks, Running,
       Fields, MarkLoad, Asks, Known
  <2>4. CurrentLoadFresh'
    BY <1>3, <1>h, <2>1 DEF ReadStartsLoad, CurrentLoadFresh, MarksBehind, InFlightExact,
       IsCurrent, Unannounced, Marks, Running, Fields, MarkLoad, Asks, Known
  <2>5. EntryFresh'
    BY <1>3, <1>h, <2>1 DEF ReadStartsLoad, EntryFresh, CurrentLoadFresh, Unannounced,
       Running, Fields, MarkLoad, Asks, Known
  <2>6. EntryIsLoads'
    BY <1>3, <1>h, <2>1 DEF ReadStartsLoad, EntryIsLoads, InFlightExact, Running, Fields,
       MarkLoad, Asks, Known
  <2>7. AnswersBehind'
    BY <1>3, <1>h, <2>1 DEF ReadStartsLoad, AnswersBehind, EntryIsLoads, InFlightExact,
       Answered, Entries, Running, Fields, MarkLoad, Asks, Known
  <2>8. QED
    BY <2>2, <2>3, <2>4, <2>5, <2>6, <2>7 DEF Coherence
<1>4. ASSUME NEW r \in Readers, LoadReads(r) PROVE Coherence'
  <2>1. InFlightExact'
    BY <1>4, <1>h DEF LoadReads, InFlightExact, Running, Fields, Known
  <2>2. MarksBehind'
    BY <1>4, <1>h DEF LoadReads, MarksBehind, InFlightExact, Marks, Running, Fields, Known
  <2>3. CurrentLoadFresh'
    BY <1>4, <1>h DEF LoadReads, CurrentLoadFresh, MarksBehind, InFlightExact, IsCurrent,
       Unannounced, Marks, Running, Fields, Known
  <2>4. EntryFresh'
    BY <1>4, <1>h DEF LoadReads, EntryFresh, CurrentLoadFresh, Unannounced, Running,
       Fields, Known
  <2>5. EntryIsLoads'
    BY <1>4, <1>h DEF LoadReads, EntryIsLoads, InFlightExact, Running, Fields, Known
  <2>6. AnswersBehind'
    BY <1>4, <1>h DEF LoadReads, AnswersBehind, EntryIsLoads, InFlightExact, Answered,
       Entries, Running, Fields, Known
  <2>7. QED
    BY <2>1, <2>2, <2>3, <2>4, <2>5, <2>6 DEF Coherence
<1>5. ASSUME NEW r \in Readers, LoadFails(r) PROVE Coherence'
  <2>1. InFlightExact'
    BY <1>5, <1>h DEF LoadFails, InFlightExact, Running, Fields, Known
  <2>2. MarksBehind'
    BY <1>5, <1>h DEF LoadFails, MarksBehind, InFlightExact, Marks, Running, Fields, Known
  <2>3. CurrentLoadFresh'
    BY <1>5, <1>h DEF LoadFails, CurrentLoadFresh, MarksBehind, InFlightExact, IsCurrent,
       Unannounced, Marks, Running, Fields, Known
  <2>4. EntryFresh'
    BY <1>5, <1>h DEF LoadFails, EntryFresh, CurrentLoadFresh, Unannounced, Running,
       Fields, Known
  <2>5. EntryIsLoads'
    BY <1>5, <1>h DEF LoadFails, EntryIsLoads, InFlightExact, Running, Fields, Known
  <2>6. AnswersBehind'
    BY <1>5, <1>h DEF LoadFails, AnswersBehind, EntryIsLoads, InFlightExact, Answered,
       Entries, Running, Fields, Known
  <2>7. QED
    BY <2>1, <2>2, <2>3, <2>4, <2>5, <2>6 DEF Coherence
<1>6. ASSUME NEW r \in Readers, LoadStores(r) PROVE Coherence'
  <2>0. load[r].key \in Keys /\ load[r].mark \in Marks /\ load[r].value \in Nat
    BY <1>6, <1>f, <1>g DEF LoadStores, Running, Answered
  <2>1. /\ \/ /\ IsCurrent(cache, load[r].key, load[r].mark)
              /\ cache'.entries = [cache.entries EXCEPT ![load[r].key] = EntryOf(load[r].value, now)]
              /\ EntryOf(load[r].value, now).value = load[r].value
           \/ cache'.entries = cache.entries
        /\ cache'.inFlight = cache.inFlight
        /\ cache'.generations = cache.generations
        /\ cache'.cleared = cache.cleared
    BY <1>6, <1>e, <2>0, StoreAnswerFields DEF LoadStores
  <2>2. InFlightExact'
    BY <1>6, <1>h, <2>0, <2>1 DEF LoadStores, InFlightExact, Running, Fields, Known
  <2>3. MarksBehind'
    BY <1>6, <1>h, <2>0, <2>1 DEF LoadStores, MarksBehind, InFlightExact, Marks, Running,
       Fields, Known
  <2>4. CurrentLoadFresh'
    BY <1>6, <1>h, <2>0, <2>1 DEF LoadStores, CurrentLoadFresh, MarksBehind,
       InFlightExact, IsCurrent, Unannounced, Marks, Running, Fields, Known
  <2>5. EntryFresh'
    BY <1>6, <1>h, <2>0, <2>1 DEF LoadStores, EntryFresh, CurrentLoadFresh, Unannounced,
       Running, Fields, Known
  <2>6. EntryIsLoads'
    BY <1>6, <1>h, <2>0, <2>1 DEF LoadStores, EntryIsLoads, InFlightExact, Running,
       Fields, Known
  <2>7. AnswersBehind'
    BY <1>6, <1>h, <2>0, <2>1 DEF LoadStores, AnswersBehind, EntryIsLoads, InFlightExact,
       Answered, Entries, Running, Fields, Known
  <2>8. QED
    BY <2>2, <2>3, <2>4, <2>5, <2>6, <2>7 DEF Coherence
<1>7. ASSUME NEW r \in Readers, LoadFinishes(r) PROVE Coherence'
  <2>1. /\ cache'.entries = cache.entries
        /\ cache'.inFlight = [cache.inFlight EXCEPT ![load[r].key] = None]
        /\ cache'.generations = cache.generations
        /\ cache'.cleared = cache.cleared
        /\ load[r].key \in Keys
    <3>1. load[r].key \in Keys
      BY <1>7, <1>f DEF LoadFinishes, Running
    <3>2. QED
      BY <1>7, <1>e, <3>1, FinishLoadFields DEF LoadFinishes
  <2>2. InFlightExact'
    BY <1>7, <1>h, <2>1 DEF LoadFinishes, InFlightExact, Running, Fields, Idle, Known
  <2>3. MarksBehind'
    BY <1>7, <1>h, <2>1 DEF LoadFinishes, MarksBehind, InFlightExact, Marks, Running,
       Fields, Idle, Known
  <2>4. CurrentLoadFresh'
    BY <1>7, <1>h, <2>1 DEF LoadFinishes, CurrentLoadFresh, MarksBehind, InFlightExact,
       IsCurrent, Unannounced, Marks, Running, Fields, Idle, Known
  <2>5. EntryFresh'
    BY <1>7, <1>h, <2>1 DEF LoadFinishes, EntryFresh, CurrentLoadFresh, Unannounced,
       Running, Fields, Idle, Known
  <2>6. EntryIsLoads'
    BY <1>7, <1>h, <2>1 DEF LoadFinishes, EntryIsLoads, InFlightExact, Running, Fields,
       Idle, Known
  <2>7. AnswersBehind'
    BY <1>7, <1>h, <2>1 DEF LoadFinishes, AnswersBehind, EntryIsLoads, InFlightExact,
       Answered, Entries, Running, Fields, Idle, Known
  <2>8. QED
    BY <2>2, <2>3, <2>4, <2>5, <2>6, <2>7 DEF Coherence
<1>8. ASSUME NEW w \in Writers, NEW q \in Keys, SaveCommits(w, q) PROVE Coherence'
  <2>1. InFlightExact'
    BY <1>8, <1>h DEF SaveCommits, InFlightExact, Running, Fields, Known
  <2>2. MarksBehind'
    BY <1>8, <1>h DEF SaveCommits, MarksBehind, InFlightExact, Marks, Running, Fields, Known
  <2>3. CurrentLoadFresh'
    BY <1>8, <1>h DEF SaveCommits, CurrentLoadFresh, MarksBehind, InFlightExact,
       IsCurrent, Unannounced, Marks, Running, Fields, Known
  <2>4. EntryFresh'
    BY <1>8, <1>h DEF SaveCommits, EntryFresh, CurrentLoadFresh, Unannounced, Running,
       Fields, Known
  <2>5. EntryIsLoads'
    BY <1>8, <1>h DEF SaveCommits, EntryIsLoads, InFlightExact, Running, Fields, Known
  <2>6. AnswersBehind'
    BY <1>8, <1>h DEF SaveCommits, AnswersBehind, EntryIsLoads, InFlightExact, Answered,
       Entries, Running, Fields, Known
  <2>7. QED
    BY <2>1, <2>2, <2>3, <2>4, <2>5, <2>6 DEF Coherence
<1>9. ASSUME NEW w \in Writers, NEW q \in Keys, SaveLosesAck(w, q) PROVE Coherence'
  <2>1. InFlightExact'
    BY <1>9, <1>h DEF SaveLosesAck, InFlightExact, Running, Fields, Known
  <2>2. MarksBehind'
    BY <1>9, <1>h DEF SaveLosesAck, MarksBehind, InFlightExact, Marks, Running, Fields,
       Known
  <2>3. CurrentLoadFresh'
    BY <1>9, <1>h DEF SaveLosesAck, CurrentLoadFresh, MarksBehind, InFlightExact,
       IsCurrent, Unannounced, Marks, Running, Fields, Known
  <2>4. EntryFresh'
    BY <1>9, <1>h DEF SaveLosesAck, EntryFresh, CurrentLoadFresh, Unannounced, Running,
       Fields, Known
  <2>5. EntryIsLoads'
    BY <1>9, <1>h DEF SaveLosesAck, EntryIsLoads, InFlightExact, Running, Fields, Known
  <2>6. AnswersBehind'
    BY <1>9, <1>h DEF SaveLosesAck, AnswersBehind, EntryIsLoads, InFlightExact, Answered,
       Entries, Running, Fields, Known
  <2>7. QED
    BY <2>1, <2>2, <2>3, <2>4, <2>5, <2>6 DEF Coherence
<1>10. ASSUME NEW w \in Writers, Invalidates(w) PROVE Coherence'
  <2>0. PICK q \in Keys : writer[w] = q
    BY <1>10, <1>e DEF Invalidates
  <2>1. /\ cache'.entries = [cache.entries EXCEPT ![q] = None]
        /\ cache'.inFlight = cache.inFlight
        /\ cache'.generations = [cache.generations EXCEPT ![q] = @ + 1]
        /\ cache'.cleared = cache.cleared
    <3>1. cache' = Delete(cache, q, now)
      BY <1>10, <2>0 DEF Invalidates
    <3>2. QED
      BY <1>e, <3>1, DeleteFields
  <2>2. InFlightExact'
    BY <1>10, <1>h, <2>0, <2>1 DEF Invalidates, InFlightExact, Running, Fields, Known
  <2>3. MarksBehind'
    BY <1>10, <1>h, <2>0, <2>1 DEF Invalidates, MarksBehind, InFlightExact, Marks,
       Running, Fields, Known
  <2>4. CurrentLoadFresh'
    BY <1>10, <1>h, <2>0, <2>1 DEF Invalidates, CurrentLoadFresh, MarksBehind,
       InFlightExact, IsCurrent, Unannounced, Marks, Running, Fields, Known
  <2>5. EntryFresh'
    BY <1>10, <1>h, <2>0, <2>1 DEF Invalidates, EntryFresh, CurrentLoadFresh, Unannounced,
       Running, Fields, Known
  <2>6. EntryIsLoads'
    BY <1>10, <1>h, <2>0, <2>1 DEF Invalidates, EntryIsLoads, InFlightExact, Running,
       Fields, Known
  <2>7. AnswersBehind'
    BY <1>10, <1>h, <2>0, <2>1 DEF Invalidates, AnswersBehind, EntryIsLoads,
       InFlightExact, Answered, Entries, Running, Fields, Known
  <2>8. QED
    BY <2>2, <2>3, <2>4, <2>5, <2>6, <2>7 DEF Coherence
<1>11. ASSUME ClearsNamespace PROVE Coherence'
  <2>1. /\ \A k \in Keys : cache'.entries[k] = None
        /\ cache'.inFlight = cache.inFlight
        /\ cache'.generations = cache.generations
        /\ cache'.cleared = cache.cleared + 1
    BY <1>11, <1>e, ClearFields DEF ClearsNamespace, Running
  <2>2. InFlightExact'
    BY <1>11, <1>h, <2>1 DEF ClearsNamespace, InFlightExact, Running, Fields, Known
  <2>3. MarksBehind'
    BY <1>11, <1>h, <2>1 DEF ClearsNamespace, MarksBehind, InFlightExact, Marks, Running,
       Fields, Known
  <2>4. CurrentLoadFresh'
    BY <1>11, <1>h, <2>1 DEF ClearsNamespace, CurrentLoadFresh, MarksBehind,
       InFlightExact, IsCurrent, Unannounced, Marks, Running, Fields, Known
  <2>5. EntryFresh'
    BY <1>11, <1>h, <2>1 DEF ClearsNamespace, EntryFresh, CurrentLoadFresh, Unannounced,
       Running, Fields, Known
  <2>6. EntryIsLoads'
    BY <1>11, <1>h, <2>1 DEF ClearsNamespace, EntryIsLoads, InFlightExact, Running,
       Fields, Known
  <2>7. AnswersBehind'
    BY <1>11, <1>h, <2>1 DEF ClearsNamespace, AnswersBehind, EntryIsLoads, InFlightExact,
       Answered, Entries, Running, Fields, Known
  <2>8. QED
    BY <2>2, <2>3, <2>4, <2>5, <2>6, <2>7 DEF Coherence
<1>12. ASSUME Sweeps PROVE Coherence'
  <2>1. /\ \A k \in Keys : cache'.entries[k] \in {cache.entries[k], None}
        /\ cache'.inFlight = cache.inFlight
        /\ \A k \in Keys : cache.inFlight[k] # None => cache'.generations[k] = cache.generations[k]
        /\ cache'.cleared = cache.cleared
    BY <1>12, <1>e, SweepFields DEF Sweeps, Running
  <2>2. InFlightExact'
    BY <1>12, <1>h, <2>1 DEF Sweeps, InFlightExact, Running, Fields, Known
  <2>3. MarksBehind'
    BY <1>12, <1>h, <2>1 DEF Sweeps, MarksBehind, InFlightExact, Marks, Running, Fields,
       Known
  <2>4. CurrentLoadFresh'
    BY <1>12, <1>h, <2>1 DEF Sweeps, CurrentLoadFresh, MarksBehind, InFlightExact,
       IsCurrent, Unannounced, Marks, Running, Fields, Known
  <2>5. EntryFresh'
    BY <1>12, <1>h, <2>1 DEF Sweeps, EntryFresh, CurrentLoadFresh, Unannounced, Running,
       Fields, Known
  <2>6. EntryIsLoads'
    BY <1>12, <1>h, <2>1 DEF Sweeps, EntryIsLoads, InFlightExact, Running, Fields, Known
  <2>7. AnswersBehind'
    BY <1>12, <1>h, <2>1 DEF Sweeps, AnswersBehind, EntryIsLoads, InFlightExact, Answered,
       Entries, Running, Fields, Known
  <2>8. QED
    BY <2>2, <2>3, <2>4, <2>5, <2>6, <2>7 DEF Coherence
<1>13. CASE Stops
  BY <1>13 DEF Stops
<1>14. CASE Tick
  BY <1>14, <1>c DEF Tick, Coherence, InFlightExact, MarksBehind, CurrentLoadFresh,
     EntryFresh,
     EntryIsLoads, AnswersBehind, Running, Answered, Unannounced, IsCurrent
<1>15. CASE UNCHANGED vars
  BY <1>15, <1>c DEF vars, Coherence, InFlightExact, MarksBehind, CurrentLoadFresh,
     EntryFresh,
     EntryIsLoads, AnswersBehind, Running, Answered, Unannounced, IsCurrent
<1>16. QED
  BY <1>1, <1>2, <1>3, <1>4, <1>5, <1>6, <1>7, <1>8, <1>9, <1>10, <1>11, <1>12,
     <1>13, <1>14, <1>15 DEF Next, LoadSteps

LEMMA InitCoherence == Init => Coherence
<1> SUFFICES ASSUME Init PROVE Coherence
  OBVIOUS
<1>1. \A r \in Readers : ~ Running(r) /\ ~ Answered(r)
  BY DEF Init, Idle, Running, Answered
<1>2. \A k \in Keys : cache.entries[k] = None /\ cache.inFlight[k] = None
  BY DEF Init, EmptyCache
<1>3. \A k \in Keys : lastAnswer[k] <= db[k]
  <2>1. lastAnswer = [k \in Keys |-> 0] /\ db = [k \in Keys |-> 0]
    BY DEF Init
  <2>2. ASSUME NEW k \in Keys PROVE lastAnswer[k] <= db[k]
    <3>1. lastAnswer[k] = 0 /\ db[k] = 0
      BY <2>1
    <3>2. QED
      BY <3>1
  <2>3. QED
    BY <2>2
<1>4. QED
  BY <1>1, <1>2, <1>3 DEF Coherence, InFlightExact, MarksBehind, CurrentLoadFresh,
     EntryFresh, EntryIsLoads, AnswersBehind, Answered

\* The inductive invariant: shapes, and, until the cache is stopped, what
\* running loads and entries owe to the invalidations so far.
THEOREM Inductive == Spec => []IInv
<1>1. Init => IInv
  BY InitTypes, InitCoherence DEF IInv, TypeShape
<1>2. IInv /\ [Next]_vars => IInv'
  BY StepTypes, StepCoherence DEF IInv, TypeShape
<1>3. QED
  BY <1>1, <1>2, PTL DEF Spec

\* An announced write is never undone in the cache: for any number of
\* readers and writers, in any interleaving with the sweep and the clock.
THEOREM Coherent == Spec => []CacheCoherent
<1>1. IInv => CacheCoherent
  BY DEF IInv, Coherence, EntryFresh, CacheCoherent
<1>2. QED
  BY <1>1, Inductive, PTL

\* At most one database read per guild at a time.
THEOREM OneLoadPerKey == Spec => []SingleFlight
<1>1. IInv => SingleFlight
  BY DEF IInv, Coherence, InFlightExact, SingleFlight
<1>2. QED
  BY <1>1, Inductive, PTL

\* Readers of one guild never see its prefix go back to an older one.
THEOREM MonotonicAnswers == Spec => AnswersNeverGoBack
<1>1. IInv /\ IInv' /\ [Next]_vars =>
        [~ stopped' => \A k \in Keys : lastAnswer'[k] >= lastAnswer[k]]_vars
  <2> SUFFICES ASSUME IInv, IInv', [Next]_vars, ~ stopped', NEW q \in Keys
               PROVE  lastAnswer'[q] >= lastAnswer[q]
    OBVIOUS
  <2>1. ~ stopped
    BY DEF Next, vars, LoadSteps, ReadHit, ReadJoins, ReadStartsLoad, LoadReads, LoadFails,
       LoadStores, LoadFinishes, SaveCommits, SaveLosesAck, Invalidates, ClearsNamespace,
       Sweeps, Stops, Tick
  <2>2. AnswersBehind
    BY <2>1 DEF IInv, Coherence
  <2>3. lastAnswer \in [Keys -> Nat]
    BY DEF IInv, TypeOK
  <2>4. ASSUME NEW r \in Readers, NEW k \in Keys, ReadHit(r, k)
        PROVE  lastAnswer'[q] >= lastAnswer[q]
    <3>1. cache.entries[k] \in Entries
      BY <2>4 DEF ReadHit, Hit, IInv, TypeOK, Caches
    <3>2. QED
      BY <2>2, <2>3, <2>4, <3>1 DEF ReadHit, Hit, AnswersBehind, Entries
  <2>5. ASSUME NEW r \in Readers, LoadFinishes(r)
        PROVE  lastAnswer'[q] >= lastAnswer[q]
    <3>1. load[r].phase = "settled" => load[r].key \in Keys /\ load[r].value \in Nat
      BY DEF IInv, LoadShape, Running, Answered
    <3>2. QED
      BY <2>2, <2>3, <2>5, <3>1 DEF LoadFinishes, AnswersBehind, Answered
  <2>6. CASE UNCHANGED lastAnswer
    BY <2>3, <2>6
  <2>7. QED
    BY <2>4, <2>5, <2>6 DEF Next, vars, LoadSteps, ReadJoins, ReadStartsLoad, LoadReads,
       LoadFails, LoadStores, SaveCommits, SaveLosesAck, Invalidates, ClearsNamespace,
       Sweeps, Stops, Tick
<1>2. QED
  BY <1>1, Inductive, PTL DEF Spec, AnswersNeverGoBack

-----------------------------------------------------------------------------
(* TieredPrefix: what the invariant says. *)

\* v is a version that was still the row at t, a moment that has been.
WasRow(v, t) == v \in 0..row /\ t <= clock /\ (v = row \/ supersededAt[v] >= t)

VersionsDated == \A v \in 0..MaxWrites : v < row => supersededAt[v] \in 0..clock

\* An entry of Redis was read from the row by one load, and one of memory may
\* have come through Redis: each tier adds a TTL and a read to the age.
SharedAged(e) ==
    e # None => /\ e.expiresAt <= clock + TtlMs
                /\ WasRow(e.value, e.expiresAt - TtlMs - LoadMs)

LocalAged(e) ==
    e # None => /\ e.expiresAt <= clock + TtlMs
                /\ WasRow(e.value, e.expiresAt + 1 - 2 * (TtlMs + LoadMs))

ReadAged(x) ==
    Reading(x) =>
        /\ x.startedAt <= clock /\ clock <= x.startedAt + LoadMs
        /\ x.phase = "read" => WasRow(x.value, x.startedAt)
        /\ x.phase = "answered" => WasRow(x.value, x.startedAt + 1 - TtlMs - LoadMs)

Aged ==
    /\ VersionsDated
    /\ SharedAged(l2)
    /\ \A p \in Procs : /\ LocalAged(l1[p].entries[Guild])
                        /\ ReadAged(loading[p]) /\ ReadAged(peeking[p])

\* A mark never runs ahead of its counter, and an invalidation since puts it
\* behind for good, unless the sweep forgets the counter.
MarkBehind(c, x) ==
    /\ x.mark \in ReadMarks
    /\ x.mark.generation <= c.generations[Guild]
    /\ x.outdated => x.mark.generation < c.generations[Guild]

Got(x) == x.phase \in {"read", "answered"}

\* A load keeps the sweep from forgetting; a peek does not.
MarkedAt(p) ==
    /\ Reading(loading[p]) => l1[p].inFlight[Guild] = p /\ MarkBehind(l1[p], loading[p])
    /\ Reading(peeking[p]) /\ ~ peeking[p].forgotten => MarkBehind(l1[p], peeking[p])
    /\ Got(loading[p]) => loading[p].value \in Nat
    /\ Got(peeking[p]) => peeking[p].value \in Nat

Marked == \A p \in Procs : MarkedAt(p)

TieredShape == TieredTypeOK /\ Marked

\* While nothing has raced there is one writer at most and nobody reads beside
\* it; what was read is the row, and a local entry was the row when it was put.
Unraced ==
    /\ \A p, q \in Procs : Writing(p) /\ Writing(q) => p = q
    /\ \A p, q \in Procs : Writing(p) => ~ Reading(loading[q]) /\ ~ Reading(peeking[q])
    /\ \A q \in Procs : /\ Got(loading[q]) => loading[q].value = row
                        /\ Got(peeking[q]) => peeking[q].value = row
    /\ (\A p \in Procs : ~ Writing(p)) /\ l2 # None => l2.value = row
    /\ \A q \in Procs :
        LET e == l1[q].entries[Guild]
        IN  e # None =>
                /\ WasRow(e.value, e.expiresAt - TtlMs)
                /\ q = lastWriter /\ saving[q] # "saved" => e.value = row

TieredInv == TieredShape /\ Aged /\ (~ raced => Unraced)

-----------------------------------------------------------------------------
(* What the cache's operators do to the one key this module reads. *)

LEMMA LocalEmpty ==
    /\ EmptyCache \in LocalCaches
    /\ EmptyCache.entries[Guild] = None
BY GuildAssumption DEF EmptyCache, LocalCaches

LEMMA LocalEvict ==
    ASSUME NEW c \in LocalCaches
    PROVE  /\ Evict(c, Guild) \in LocalCaches
           /\ Evict(c, Guild).entries[Guild] = None
           /\ Evict(c, Guild).inFlight = c.inFlight
           /\ Evict(c, Guild).generations = c.generations
BY GuildAssumption DEF Evict, LocalCaches

LEMMA LocalBegin ==
    ASSUME NEW c \in LocalCaches, NEW p \in Procs
    PROVE  /\ BeginLoad(c, Guild, p) \in LocalCaches
           /\ BeginLoad(c, Guild, p).entries[Guild] = None
           /\ BeginLoad(c, Guild, p).inFlight[Guild] = p
           /\ BeginLoad(c, Guild, p).generations = c.generations
BY GuildAssumption DEF BeginLoad, Evict, LocalCaches

LEMMA LocalDelete ==
    ASSUME NEW c \in LocalCaches, NEW t \in Nat
    PROVE  /\ Delete(c, Guild, t) \in LocalCaches
           /\ Delete(c, Guild, t).entries[Guild] = None
           /\ Delete(c, Guild, t).inFlight = c.inFlight
           /\ Delete(c, Guild, t).generations[Guild] = c.generations[Guild] + 1
<1>1. /\ Evict(c, Guild) \in LocalCaches
      /\ Evict(c, Guild).entries[Guild] = None
      /\ Evict(c, Guild).inFlight = c.inFlight
      /\ Evict(c, Guild).generations = c.generations
  BY LocalEvict
<1> DEFINE d == Evict(c, Guild)
<1>2. /\ d \in LocalCaches
      /\ d.entries[Guild] = None /\ d.inFlight = c.inFlight /\ d.generations = c.generations
  BY <1>1
<1> HIDE DEF d
<1>3. /\ Bump(d, Guild, t) \in LocalCaches
      /\ Bump(d, Guild, t).entries = d.entries
      /\ Bump(d, Guild, t).inFlight = d.inFlight
      /\ Bump(d, Guild, t).generations[Guild] = d.generations[Guild] + 1
  <2>1. [d.generations EXCEPT ![Guild] = @ + 1] \in [Keys -> Nat]
    BY <1>2, GuildAssumption DEF LocalCaches
  <2>2. [d.bumpedAt EXCEPT ![Guild] = t] \in [Keys -> Nat \cup {None}]
    BY <1>2 DEF LocalCaches
  <2>3. QED
    BY <1>2, <2>1, <2>2, GuildAssumption DEF Bump, LocalCaches
<1>4. QED
  BY <1>2, <1>3 DEF Delete, d

LEMMA LocalFinish ==
    ASSUME NEW c \in LocalCaches
    PROVE  /\ FinishLoad(c, Guild) \in LocalCaches
           /\ FinishLoad(c, Guild).entries = c.entries
           /\ FinishLoad(c, Guild).generations = c.generations
BY DEF FinishLoad, LocalCaches

\* What StoreAnswer leaves: it stores the answer, or nothing.
StoredAt(c, d, m, v, t) ==
    /\ d \in LocalCaches /\ d.inFlight = c.inFlight /\ d.generations = c.generations
    /\ IsCurrent(c, Guild, m) => d.entries[Guild] = EntryOf(v, t)
    /\ ~ IsCurrent(c, Guild, m) => d.entries[Guild] = c.entries[Guild]

LEMMA LocalStore ==
    ASSUME NEW c \in LocalCaches, NEW m, NEW v \in Nat, NEW t \in Nat
    PROVE  StoredAt(c, StoreAnswer(c, Guild, m, v, t), m, v, t)
<1>1. EntryOf(v, t) \in SharedEntries
  BY TtlAssumption DEF EntryOf, SharedEntries
<1>2. /\ Put(c, Guild, v, t) \in LocalCaches
      /\ Put(c, Guild, v, t).inFlight = c.inFlight
      /\ Put(c, Guild, v, t).generations = c.generations
      /\ Put(c, Guild, v, t).entries[Guild] = EntryOf(v, t)
  BY <1>1, GuildAssumption DEF Put, LocalCaches
<1>3. QED
  BY <1>2 DEF StoreAnswer, StoredAt

\* A sweep drops entries, and the key's counter when it may be forgotten.
LEMMA LocalSweep ==
    ASSUME NEW c \in LocalCaches, NEW t \in Nat
    PROVE  /\ SweepCache(c, t) \in LocalCaches
           /\ SweepCache(c, t).inFlight = c.inFlight
           /\ SweepCache(c, t).entries[Guild] \in {c.entries[Guild], None}
           /\ ~ Forgettable(c, Guild, t) =>
                SweepCache(c, t).generations[Guild] = c.generations[Guild]
<1>1. /\ [k \in Keys |-> IF Hit(c, k, t) THEN c.entries[k] ELSE None]
            \in [Keys -> SharedEntries \cup {None}]
      /\ [k \in Keys |-> IF Forgettable(c, k, t) THEN 0 ELSE c.generations[k]] \in [Keys -> Nat]
      /\ [k \in Keys |-> IF Forgettable(c, k, t) THEN None ELSE c.bumpedAt[k]]
            \in [Keys -> Nat \cup {None}]
  BY DEF LocalCaches
<1>2. QED
  BY <1>1, GuildAssumption DEF SweepCache, LocalCaches

LEMMA LocalMark == ASSUME NEW p \in Procs, TieredTypeOK
                   PROVE  /\ MarkLoad(l1[p], Guild) \in ReadMarks
                          /\ MarkLoad(l1[p], Guild).generation = l1[p].generations[Guild]
BY GuildAssumption DEF MarkLoad, ReadMarks, TieredTypeOK, LocalCaches

-----------------------------------------------------------------------------
(* Types and marks. *)

LEMMA BegunIsRead ==
    ASSUME TieredTypeOK, NEW p \in Procs
    PROVE  LET x == Begun(p, "asked")
           IN  /\ x \in Reads
               /\ x.phase = "asked" /\ x.startedAt = clock
               /\ x.outdated = FALSE /\ x.forgotten = FALSE
               /\ x.mark = MarkLoad(l1[p], Guild)
BY LocalMark DEF Begun, NotReading, Reads, TieredTypeOK

LEMMA NotReadingIsRead == NotReading \in Reads /\ ~ Reading(NotReading)
BY DEF NotReading, Reads, Reading

LEMMA TieredInitShape == TieredInit => TieredShape
<1> SUFFICES ASSUME TieredInit PROVE TieredShape
  OBVIOUS
<1>1. TieredTypeOK
  <2>1. row \in 0..MaxWrites /\ clock \in Nat
    BY WritesAssumption DEF TieredInit
  <2>2. l1 \in [Procs -> LocalCaches] /\ loading \in [Procs -> Reads] /\ peeking \in [Procs -> Reads]
    BY LocalEmpty, NotReadingIsRead DEF TieredInit
  <2>3. QED
    BY <2>1, <2>2 DEF TieredInit, TieredTypeOK
<1>2. Marked
  BY NotReadingIsRead DEF TieredInit, Marked, MarkedAt, Got, Reading
<1>3. QED
  BY <1>1, <1>2 DEF TieredShape

\* Only the process that takes a step has its cache and its reads changed.
Kept(q) == l1'[q] = l1[q] /\ loading'[q] = loading[q] /\ peeking'[q] = peeking[q]

LEMMA KeptStaysMarked ==
    ASSUME NEW q \in Procs, Kept(q), MarkedAt(q) PROVE MarkedAt(q)'
BY DEF Got, Kept, MarkedAt, MarkBehind

\* A load of p begins, moves on or ends.
LEMMA LoadStepShape ==
    ASSUME TieredShape, NEW p \in Procs,
           StartsLoad(p) \/ LoadHitsShared(p) \/ LoadMissesShared(p) \/ RowRead(p)
           \/ RowFails(p) \/ LoadSetsShared(p) \/ LoadSetLost(p) \/ LoadEnds(p)
    PROVE  TieredTypeOK' /\ MarkedAt(p)' /\ \A q \in Procs \ {p} : Kept(q)
<1>0. /\ TieredTypeOK /\ MarkedAt(p)
      /\ l1[p] \in LocalCaches /\ loading[p] \in Reads /\ peeking[p] \in Reads
      /\ l1[p].generations[Guild] \in Nat /\ row \in Nat
  BY GuildAssumption, WritesAssumption DEF TieredShape, Marked, TieredTypeOK, LocalCaches
<1>1. CASE StartsLoad(p)
  <2> DEFINE x == Begun(p, "asked")
             c == BeginLoad(l1[p], Guild, p)
  <2>1. /\ x \in Reads /\ x.phase = "asked" /\ x.outdated = FALSE
        /\ x.mark \in ReadMarks /\ x.mark.generation = l1[p].generations[Guild]
    BY <1>0, BegunIsRead, LocalMark
  <2>2. /\ c \in LocalCaches /\ c.inFlight[Guild] = p
        /\ c.generations = l1[p].generations
    BY <1>0, LocalBegin
  <2>3. /\ l1' = [l1 EXCEPT ![p] = c] /\ loading' = [loading EXCEPT ![p] = x]
        /\ raced' \in BOOLEAN
        /\ UNCHANGED <<row, l2, peeking, saving, supersededAt, lastWriter, clock>>
    BY <1>1, <1>0 DEF StartsLoad, RacesAWrite, TieredTypeOK
  <2> HIDE DEF x, c
  <2>4. TieredTypeOK'
    BY <1>0, <2>1, <2>2, <2>3 DEF TieredTypeOK
  <2>5. l1'[p] = c /\ loading'[p] = x /\ peeking'[p] = peeking[p]
    BY <1>0, <2>3 DEF TieredTypeOK
  <2>6. MarkedAt(p)'
    BY <1>0, <2>1, <2>2, <2>5 DEF MarkedAt, MarkBehind, Got, Reading
  <2>7. QED
    BY <1>0, <2>3, <2>4, <2>6 DEF Kept, TieredTypeOK
<1>2. CASE LoadHitsShared(p) \/ LoadMissesShared(p) \/ RowRead(p)
  <2>1. PICK x \in Reads :
            /\ loading' = [loading EXCEPT ![p] = x]
            /\ x.mark = loading[p].mark /\ x.outdated = loading[p].outdated
            /\ Got(x) => x.value \in Nat
            /\ Reading(loading[p])
    <3>1. CASE LoadHitsShared(p)
      <4>1. [loading[p] EXCEPT !.phase = "answered", !.value = l2.value] \in Reads
        BY <3>1, <1>0 DEF LoadHitsShared, HitShared, TieredTypeOK, SharedEntries, Reads
      <4>2. QED
        BY <3>1, <4>1, <1>0 DEF LoadHitsShared, HitShared, TieredTypeOK, SharedEntries, Reads, Got, Reading
    <3>2. CASE LoadMissesShared(p)
      <4>1. [loading[p] EXCEPT !.phase = "querying"] \in Reads
        BY <1>0 DEF Reads
      <4>2. QED
        BY <3>2, <4>1, <1>0 DEF LoadMissesShared, TieredTypeOK, Reads, Got, Reading
    <3>3. CASE RowRead(p)
      <4>1. [loading[p] EXCEPT !.phase = "read", !.value = row] \in Reads
        BY <1>0 DEF TieredTypeOK, Reads
      <4>2. QED
        BY <3>3, <4>1, <1>0 DEF RowRead, TieredTypeOK, Reads, Got, Reading
    <3>4. QED
      BY <1>2, <3>1, <3>2, <3>3
  <2>2. UNCHANGED <<row, l1, l2, peeking, saving, supersededAt, lastWriter, raced, clock>>
    BY <1>2 DEF LoadHitsShared, LoadMissesShared, RowRead
  <2>3. TieredTypeOK'
    BY <1>0, <2>1, <2>2 DEF TieredTypeOK
  <2>4. MarkedAt(p)'
    BY <1>0, <2>1, <2>2 DEF MarkedAt, MarkBehind, Got, Reading, TieredTypeOK
  <2>5. QED
    BY <1>0, <2>1, <2>2, <2>3, <2>4 DEF Kept, TieredTypeOK
<1>3. CASE LoadSetsShared(p) \/ LoadSetLost(p)
  <2>1. /\ loading' = [loading EXCEPT ![p].phase = "answered"]
        /\ loading[p].phase = "read"
        /\ l2' = Shared(loading[p].value) \/ l2' = l2
        /\ UNCHANGED <<row, l1, peeking, saving, supersededAt, lastWriter, raced, clock>>
    BY <1>3 DEF LoadSetsShared, LoadSetLost
  <2>2. l2' \in SharedEntries \cup {None}
    BY <1>0, <2>1, TtlAssumption DEF MarkedAt, Got, Shared, EntryOf, SharedEntries, TieredTypeOK
  <2>3. [loading[p] EXCEPT !.phase = "answered"] \in Reads
    BY <1>0 DEF Reads
  <2>4. TieredTypeOK'
    BY <1>0, <2>1, <2>2, <2>3 DEF TieredTypeOK
  <2>5. MarkedAt(p)'
    BY <1>0, <2>1 DEF MarkedAt, MarkBehind, Got, Reading, TieredTypeOK, Reads
  <2>6. QED
    BY <1>0, <2>1, <2>4, <2>5 DEF Kept, TieredTypeOK
<1>4. CASE RowFails(p) \/ LoadEnds(p)
  <2>1. PICK c \in LocalCaches :
            /\ l1' = [l1 EXCEPT ![p] = c]
            /\ c.generations = l1[p].generations
    <3>1. CASE RowFails(p)
      BY <1>0, <3>1, LocalFinish DEF RowFails
    <3>2. CASE LoadEnds(p)
      <4>1. loading[p].value \in Nat /\ clock \in Nat
        BY <1>0, <3>2 DEF LoadEnds, MarkedAt, Got, TieredTypeOK
      <4> DEFINE m == loading[p].mark
                 v == loading[p].value
                 d == StoreAnswer(l1[p], Guild, m, v, clock)
      <4>2. StoredAt(l1[p], d, m, v, clock)
        <5> HIDE DEF m, v
        <5>1. v \in Nat /\ clock \in Nat /\ l1[p] \in LocalCaches
          BY <1>0, <4>1 DEF v
        <5>2. QED
          BY ONLY <5>1, LocalStore DEF d
      <4>3. l1' = [l1 EXCEPT ![p] = FinishLoad(d, Guild)]
        BY <3>2 DEF LoadEnds
      <4> HIDE DEF d
      <4>4. QED
        BY <4>2, <4>3, LocalFinish DEF StoredAt
    <3>3. QED
      BY <1>4, <3>1, <3>2
  <2>2. /\ loading' = [loading EXCEPT ![p] = NotReading]
        /\ UNCHANGED <<row, l2, peeking, saving, supersededAt, lastWriter, raced, clock>>
    BY <1>4 DEF RowFails, LoadEnds
  <2>3. TieredTypeOK'
    BY <1>0, <2>1, <2>2, NotReadingIsRead DEF TieredTypeOK
  <2>4. l1'[p] = c /\ loading'[p] = NotReading /\ peeking'[p] = peeking[p]
    BY <1>0, <2>1, <2>2 DEF TieredTypeOK
  <2>5. MarkedAt(p)'
    BY <1>0, <2>1, <2>4 DEF MarkedAt, MarkBehind, Got, Reading, NotReading
  <2>6. QED
    BY <1>0, <2>1, <2>2, <2>3, <2>5 DEF Kept, TieredTypeOK
<1>5. QED
  BY <1>1, <1>2, <1>3, <1>4

\* A peek of p begins, moves on or ends.
LEMMA PeekStepShape ==
    ASSUME TieredShape, NEW p \in Procs,
           StartsPeek(p) \/ PeekAnswered(p) \/ PeekMisses(p) \/ Promotes(p)
    PROVE  TieredTypeOK' /\ MarkedAt(p)' /\ \A q \in Procs \ {p} : Kept(q)
<1>0. /\ TieredTypeOK /\ MarkedAt(p)
      /\ l1[p] \in LocalCaches /\ loading[p] \in Reads /\ peeking[p] \in Reads
      /\ l1[p].generations[Guild] \in Nat
  BY GuildAssumption DEF TieredShape, Marked, TieredTypeOK, LocalCaches
<1>1. PICK c \in LocalCaches, x \in Reads :
            /\ l1' = [l1 EXCEPT ![p] = c] /\ peeking' = [peeking EXCEPT ![p] = x]
            /\ c.inFlight = l1[p].inFlight /\ c.generations = l1[p].generations
            /\ Got(x) => x.value \in Nat
            /\ Reading(x) /\ ~ x.forgotten =>
                \/ MarkBehind(c, x)
                \/ Reading(peeking[p]) /\ ~ peeking[p].forgotten
                    /\ x.mark = peeking[p].mark /\ x.outdated = peeking[p].outdated
            /\ raced' \in BOOLEAN
            /\ UNCHANGED <<row, l2, loading, saving, supersededAt, lastWriter, clock>>
  <2>1. CASE StartsPeek(p)
    <3> DEFINE x == Begun(p, "asked")
               c == Evict(l1[p], Guild)
    <3>1. /\ x \in Reads /\ x.phase = "asked" /\ x.outdated = FALSE
          /\ x.mark \in ReadMarks /\ x.mark.generation = l1[p].generations[Guild]
      BY <1>0, BegunIsRead, LocalMark
    <3>2. /\ c \in LocalCaches /\ c.inFlight = l1[p].inFlight
          /\ c.generations = l1[p].generations
      BY <1>0, LocalEvict
    <3>3. /\ l1' = [l1 EXCEPT ![p] = c] /\ peeking' = [peeking EXCEPT ![p] = x]
          /\ raced' \in BOOLEAN
          /\ UNCHANGED <<row, l2, loading, saving, supersededAt, lastWriter, clock>>
      BY <2>1, <1>0 DEF StartsPeek, RacesAWrite, TieredTypeOK
    <3> HIDE DEF x, c
    <3>4. MarkBehind(c, x) /\ ~ Got(x)
      BY <1>0, <3>1, <3>2 DEF MarkBehind, Got
    <3>5. QED
      BY <3>1, <3>2, <3>3, <3>4
  <2>2. CASE PeekAnswered(p)
    <3>1. [peeking[p] EXCEPT !.phase = "answered", !.value = l2.value] \in Reads
      BY <2>2, <1>0 DEF PeekAnswered, HitShared, TieredTypeOK, SharedEntries, Reads
    <3>2. l1' = [l1 EXCEPT ![p] = l1[p]]
      BY <2>2, <1>0 DEF PeekAnswered, TieredTypeOK
    <3>3. l2.value \in Nat
      BY <2>2, <1>0 DEF PeekAnswered, HitShared, TieredTypeOK, SharedEntries
    <3> DEFINE x == [peeking[p] EXCEPT !.phase = "answered", !.value = l2.value]
    <3>4. /\ x.phase = "answered" /\ x.value = l2.value /\ x.mark = peeking[p].mark
          /\ x.outdated = peeking[p].outdated /\ x.forgotten = peeking[p].forgotten
      BY <1>0 DEF Reads
    <3>5. /\ peeking' = [peeking EXCEPT ![p] = x] /\ Reading(peeking[p])
          /\ raced' \in BOOLEAN
          /\ UNCHANGED <<row, l2, loading, saving, supersededAt, lastWriter, clock>>
      BY <2>2, <1>0 DEF PeekAnswered, TieredTypeOK, Reading
    <3> HIDE DEF x
    <3>6. x \in Reads
      BY <3>1 DEF x
    <3>7. QED
      BY <1>0, <3>2, <3>3, <3>4, <3>5, <3>6
  <2>3. CASE PeekMisses(p)
    <3>1. l1' = [l1 EXCEPT ![p] = l1[p]]
      BY <2>3, <1>0 DEF PeekMisses, TieredTypeOK
    <3>2. /\ peeking' = [peeking EXCEPT ![p] = NotReading] /\ raced' \in BOOLEAN
          /\ UNCHANGED <<row, l2, loading, saving, supersededAt, lastWriter, clock>>
      BY <2>3, <1>0 DEF PeekMisses, TieredTypeOK
    <3>3. ~ Got(NotReading)
      BY DEF NotReading, Got
    <3>4. QED
      BY <1>0, <3>1, <3>2, <3>3, NotReadingIsRead
  <2>4. CASE Promotes(p)
    <3> DEFINE m == peeking[p].mark
               v == peeking[p].value
               d == StoreAnswer(l1[p], Guild, m, v, clock)
    <3>1. v \in Nat /\ clock \in Nat /\ l1[p] \in LocalCaches
      BY <1>0, <2>4 DEF Promotes, MarkedAt, Got, TieredTypeOK
    <3>2. StoredAt(l1[p], d, m, v, clock)
      <4> HIDE DEF m, v
      <4>1. QED
        BY ONLY <3>1, LocalStore DEF d
    <3>3. /\ l1' = [l1 EXCEPT ![p] = d] /\ peeking' = [peeking EXCEPT ![p] = NotReading]
          /\ raced' \in BOOLEAN
          /\ UNCHANGED <<row, l2, loading, saving, supersededAt, lastWriter, clock>>
      BY <2>4, <1>0 DEF Promotes, TieredTypeOK
    <3> HIDE DEF d
    <3>4. ~ Got(NotReading)
      BY DEF NotReading, Got
    <3>5. QED
      BY <3>2, <3>3, <3>4, NotReadingIsRead DEF StoredAt
  <2>5. QED
    BY <2>1, <2>2, <2>3, <2>4
<1>2. TieredTypeOK'
  BY <1>0, <1>1 DEF TieredTypeOK
<1>3. l1'[p] = c /\ loading'[p] = loading[p] /\ peeking'[p] = x
  BY <1>0, <1>1 DEF TieredTypeOK
<1>4. Reading(x) /\ ~ x.forgotten => MarkBehind(c, x)
  BY <1>0, <1>1 DEF MarkedAt, MarkBehind
<1>5. MarkedAt(p)'
  BY <1>0, <1>1, <1>3, <1>4 DEF MarkedAt, MarkBehind, Got, Reading
<1>6. QED
  BY <1>0, <1>1, <1>2, <1>5 DEF Kept, TieredTypeOK

LEMMA KeptShape ==
    ASSUME TieredShape, TieredTypeOK', NEW p \in Procs, MarkedAt(p)',
           \A q \in Procs \ {p} : Kept(q)
    PROVE  TieredShape'
<1>1. ASSUME NEW q \in Procs PROVE MarkedAt(q)'
  <2>1. MarkedAt(q)
    BY DEF TieredShape, Marked
  <2>2. CASE q = p
    BY <2>2
  <2>3. CASE q # p
    BY <2>1, <2>3, KeptStaysMarked
  <2>4. QED
    BY <2>2, <2>3
<1>2. QED
  BY <1>1 DEF TieredShape, Marked

\* An invalidation puts every mark of its process behind.
LEMMA DeletesLocalShape ==
    ASSUME TieredShape, NEW p \in Procs, DeletesLocal(p) PROVE TieredShape'
<1> DEFINE c == Delete(l1[p], Guild, clock)
           x == [loading[p] EXCEPT !.outdated = Reading(loading[p])]
           y == [peeking[p] EXCEPT !.outdated = Reading(peeking[p])]
<1>1. /\ TieredTypeOK /\ MarkedAt(p)
      /\ l1[p] \in LocalCaches /\ loading[p] \in Reads /\ peeking[p] \in Reads
      /\ l1[p].generations[Guild] \in Nat /\ clock \in Nat
  BY GuildAssumption DEF TieredShape, Marked, TieredTypeOK, LocalCaches
<1>2. /\ c \in LocalCaches /\ c.inFlight = l1[p].inFlight
      /\ c.generations[Guild] = l1[p].generations[Guild] + 1
  BY <1>1, LocalDelete
<1>3. /\ x.phase = loading[p].phase /\ x.mark = loading[p].mark /\ x.value = loading[p].value
      /\ y.phase = peeking[p].phase /\ y.mark = peeking[p].mark /\ y.value = peeking[p].value
      /\ y.forgotten = peeking[p].forgotten
  BY <1>1 DEF Reads
<1>4. x \in Reads /\ y \in Reads
  BY <1>1 DEF Reads, Reading
<1>5. /\ l1' = [l1 EXCEPT ![p] = c]
      /\ loading' = [loading EXCEPT ![p] = x] /\ peeking' = [peeking EXCEPT ![p] = y]
      /\ saving' = [saving EXCEPT ![p] = "deleting"]
      /\ UNCHANGED <<row, l2, supersededAt, lastWriter, raced, clock>>
  BY DEF DeletesLocal
<1> HIDE DEF c, x, y
<1>6. TieredTypeOK'
  BY <1>1, <1>2, <1>4, <1>5 DEF TieredTypeOK
<1>7. l1'[p] = c /\ loading'[p] = x /\ peeking'[p] = y
  BY <1>1, <1>5 DEF TieredTypeOK
<1>8. MarkedAt(p)'
  <2>1. /\ Reading(x) => x.mark \in ReadMarks /\ x.mark.generation <= l1[p].generations[Guild]
                          /\ l1[p].inFlight[Guild] = p
        /\ Reading(y) /\ ~ y.forgotten =>
                y.mark \in ReadMarks /\ y.mark.generation <= l1[p].generations[Guild]
        /\ Got(x) => x.value \in Nat
        /\ Got(y) => y.value \in Nat
    BY <1>1, <1>3 DEF MarkedAt, MarkBehind, Reading, Got
  <2>2. /\ Reading(x) => MarkBehind(c, x)
        /\ Reading(y) /\ ~ y.forgotten => MarkBehind(c, y)
    BY <1>1, <1>2, <1>7, <2>1 DEF MarkBehind, ReadMarks
  <2>3. QED
    BY <1>2, <1>7, <2>1, <2>2 DEF MarkedAt, MarkBehind, Reading, Got
<1>9. QED
  BY <1>1, <1>5, <1>6, <1>8, KeptShape DEF Kept, TieredTypeOK

LEMMA RestartShape ==
    ASSUME TieredShape, NEW p \in Procs, Restarts(p) PROVE TieredShape'
<1>1. TieredTypeOK
  BY DEF TieredShape
<1>2. TieredTypeOK'
  BY <1>1, LocalEmpty, NotReadingIsRead DEF Restarts, TieredTypeOK, Writing
<1>3. loading'[p] = NotReading /\ peeking'[p] = NotReading
  BY <1>1 DEF Restarts, TieredTypeOK
<1>4. MarkedAt(p)'
  BY <1>3, NotReadingIsRead DEF MarkedAt, Reading, Got
<1>5. QED
  BY <1>1, <1>2, <1>4, KeptShape DEF Kept, Restarts, TieredTypeOK

\* The sweep forgets no counter a load is compared with.
LEMMA SweepShape ==
    ASSUME TieredShape, NEW p \in Procs, SweepsLocal(p) PROVE TieredShape'
<1> DEFINE c == SweepCache(l1[p], clock)
           f == peeking[p].forgotten
                    \/ (Reading(peeking[p]) /\ Forgettable(l1[p], Guild, clock))
           y == [peeking[p] EXCEPT !.forgotten = f]
<1>1. /\ TieredTypeOK /\ MarkedAt(p)
      /\ l1[p] \in LocalCaches /\ loading[p] \in Reads /\ peeking[p] \in Reads
      /\ l1[p].generations[Guild] \in Nat /\ clock \in Nat
  BY GuildAssumption DEF TieredShape, Marked, TieredTypeOK, LocalCaches
<1>2. /\ c \in LocalCaches /\ c.inFlight = l1[p].inFlight
      /\ ~ Forgettable(l1[p], Guild, clock) =>
            c.generations[Guild] = l1[p].generations[Guild]
  BY <1>1, LocalSweep
<1>3. /\ y.phase = peeking[p].phase /\ y.mark = peeking[p].mark /\ y.value = peeking[p].value
      /\ y.outdated = peeking[p].outdated /\ y.forgotten = f
  BY <1>1 DEF Reads
<1>4. y \in Reads
  BY <1>1 DEF Reads, Reading, Forgettable
<1>5. /\ l1' = [l1 EXCEPT ![p] = c] /\ peeking' = [peeking EXCEPT ![p] = y]
      /\ UNCHANGED <<row, l2, loading, saving, supersededAt, lastWriter, raced, clock>>
  BY DEF SweepsLocal
<1>6. /\ Reading(loading[p]) => ~ Forgettable(l1[p], Guild, clock)
      /\ Reading(y) /\ ~ y.forgotten =>
            ~ peeking[p].forgotten /\ ~ Forgettable(l1[p], Guild, clock)
  <2>1. Reading(loading[p]) => l1[p].inFlight[Guild] # None
    BY <1>1, ProcsAssumption DEF MarkedAt
  <2>2. QED
    BY <2>1, <1>3 DEF Forgettable, Reading
<1> HIDE DEF c, f, y
<1>7. TieredTypeOK'
  BY <1>1, <1>2, <1>4, <1>5 DEF TieredTypeOK
<1>8. l1'[p] = c /\ loading'[p] = loading[p] /\ peeking'[p] = y
  BY <1>1, <1>5 DEF TieredTypeOK
<1>9. MarkedAt(p)'
  <2>1. /\ Reading(loading[p]) => MarkBehind(c, loading[p])
        /\ Reading(y) /\ ~ y.forgotten => MarkBehind(c, y)
    BY <1>1, <1>2, <1>3, <1>6, <1>8 DEF MarkedAt, MarkBehind, Reading
  <2>2. QED
    BY <1>1, <1>2, <1>3, <1>8, <2>1 DEF MarkedAt, MarkBehind, Reading, Got
<1>10. QED
  BY <1>1, <1>5, <1>7, <1>9, KeptShape DEF Kept, TieredTypeOK

LEMMA UntouchedShape ==
    ASSUME TieredShape, TieredTypeOK', UNCHANGED <<l1, loading, peeking>>
    PROVE  TieredShape'
BY KeptStaysMarked DEF Kept, TieredShape, Marked

LEMMA SavesShape ==
    ASSUME TieredShape, NEW p \in Procs, Saves(p) PROVE TieredShape'
<1>1. TieredTypeOK
  BY DEF TieredShape
<1>2. row' \in 0..MaxWrites
  BY <1>1, WritesAssumption DEF Saves, TieredTypeOK
<1>3. TieredTypeOK'
  BY <1>1, <1>2 DEF Saves, RacesAWrite, Writing, Reading, TieredTypeOK
<1>4. QED
  BY <1>3, UntouchedShape DEF Saves

LEMMA OtherShape ==
    ASSUME TieredShape,
           \/ \E p \in Procs : DeletesShared(p) \/ DeleteLost(p)
           \/ ClockTicks
           \/ UNCHANGED tieredVars
    PROVE  TieredShape'
<1>1. TieredTypeOK
  BY DEF TieredShape
<1>2. TieredTypeOK' /\ UNCHANGED <<l1, loading, peeking>>
  <2>1. CASE \E p \in Procs : DeletesShared(p) \/ DeleteLost(p)
    BY <1>1, <2>1 DEF DeletesShared, DeleteLost, TieredTypeOK
  <2>2. CASE ClockTicks
    BY <1>1, <2>2 DEF ClockTicks, TieredTypeOK
  <2>3. CASE UNCHANGED tieredVars
    BY <1>1, <2>3 DEF tieredVars, TieredTypeOK
  <2>4. QED
    BY <2>1, <2>2, <2>3
<1>3. QED
  BY <1>2, UntouchedShape

LEMMA TieredShapeStep == TieredShape /\ [TieredNext]_tieredVars => TieredShape'
<1> SUFFICES ASSUME TieredShape, [TieredNext]_tieredVars PROVE TieredShape'
  OBVIOUS
<1>1. ASSUME NEW p \in Procs,
             StartsLoad(p) \/ LoadHitsShared(p) \/ LoadMissesShared(p) \/ RowRead(p)
             \/ RowFails(p) \/ LoadSetsShared(p) \/ LoadSetLost(p) \/ LoadEnds(p)
      PROVE  TieredShape'
  BY <1>1, LoadStepShape, KeptShape
<1>2. ASSUME NEW p \in PeekingProcs,
             StartsPeek(p) \/ PeekAnswered(p) \/ PeekMisses(p) \/ Promotes(p)
      PROVE  TieredShape'
  BY <1>2, PeekStepShape, KeptShape, ProcsAssumption
<1>3. ASSUME NEW p \in WritingProcs,
             Saves(p) \/ DeletesLocal(p) \/ DeletesShared(p) \/ DeleteLost(p)
      PROVE  TieredShape'
  BY <1>3, SavesShape, DeletesLocalShape, OtherShape, ProcsAssumption
<1>4. ASSUME NEW p \in Procs, Restarts(p) \/ SweepsLocal(p)
      PROVE  TieredShape'
  BY <1>4, RestartShape, SweepShape
<1>5. CASE ClockTicks \/ UNCHANGED tieredVars
  BY <1>5, OtherShape
<1>6. QED
  BY <1>1, <1>2, <1>3, <1>4, <1>5 DEF TieredNext

-----------------------------------------------------------------------------
(* What a step may do to a read, to a local entry and to a write: all that *)
(* the rest of the proof looks at.                                         *)

ReadMoves(x, y) ==
    \/ y.phase = x.phase /\ y.value = x.value /\ y.startedAt = x.startedAt
    \/ /\ UNCHANGED <<row, supersededAt, clock>>
       /\ \/ ~ Reading(y)
          \/ /\ y.phase = "asked" /\ y.startedAt = clock
             /\ raced' = RacesAWrite /\ UNCHANGED saving
          \/ /\ Reading(x) /\ y.startedAt = x.startedAt
             /\ \/ y.phase = "querying"
                \/ y.phase = "answered" /\ HitShared /\ y.value = l2.value
                \/ y.phase = "read" /\ y.value = row
                \/ x.phase = "read" /\ y.phase = "answered" /\ y.value = x.value

EntryMoves(q) ==
    LET old == l1[q].entries[Guild]
        new == l1'[q].entries[Guild]
    IN  \/ new \in {old, None}
        \/ /\ UNCHANGED <<row, l2, saving, supersededAt, lastWriter, clock>>
           /\ \E x \in {loading[q], peeking[q]} :
                x.phase = "answered" /\ new = EntryOf(x.value, clock)

WriteMoves(q) ==
    /\ saving[q] # "idle" /\ saving'[q] = "idle" => raced' \/ l2' = None
    /\ saving[q] = "saved" /\ saving'[q] # "saved" => l1'[q].entries[Guild] = None
    /\ saving'[q] # "idle" => saving[q] # "idle" \/ Saves(q)

Moves(q) ==
    /\ ReadMoves(loading[q], loading'[q]) /\ ReadMoves(peeking[q], peeking'[q])
    /\ EntryMoves(q) /\ WriteMoves(q)

StepMoves ==
    /\ \A q \in Procs : Moves(q)
    /\ raced => raced'
    /\ UNCHANGED <<row, supersededAt, lastWriter>> \/ \E p \in Procs : Saves(p)
    /\ UNCHANGED clock \/ ClockTicks
    /\ \/ l2' \in {l2, None}
       \/ UNCHANGED <<clock, row, saving>>
            /\ \E p \in Procs : loading[p].phase = "read" /\ l2' = Shared(loading[p].value)

LEMMA KeptMoves ==
    ASSUME NEW q \in Procs, Kept(q), saving'[q] = saving[q] PROVE Moves(q)
BY DEF Kept, Moves, ReadMoves, EntryMoves, WriteMoves

LEMMA LoadMoves ==
    ASSUME TieredShape, NEW p \in Procs,
           StartsLoad(p) \/ LoadHitsShared(p) \/ LoadMissesShared(p) \/ RowRead(p)
           \/ RowFails(p) \/ LoadSetsShared(p) \/ LoadSetLost(p) \/ LoadEnds(p)
    PROVE  StepMoves
<1>0. /\ TieredTypeOK /\ MarkedAt(p)
      /\ l1[p] \in LocalCaches /\ loading[p] \in Reads
  BY DEF TieredShape, Marked, TieredTypeOK
<1>1. \A q \in Procs \ {p} : Kept(q)
  BY LoadStepShape
<1>2. UNCHANGED <<row, peeking, saving, supersededAt, lastWriter, clock>>
  BY DEF StartsLoad, LoadHitsShared, LoadMissesShared, RowRead, RowFails,
         LoadSetsShared, LoadSetLost, LoadEnds
<1>3. raced => raced'
  BY DEF StartsLoad, LoadHitsShared, LoadMissesShared, RowRead, RowFails,
         LoadSetsShared, LoadSetLost, LoadEnds, RacesAWrite
<1>4. \/ l2' \in {l2, None}
      \/ loading[p].phase = "read" /\ l2' = Shared(loading[p].value)
  BY DEF StartsLoad, LoadHitsShared, LoadMissesShared, RowRead, RowFails,
         LoadSetsShared, LoadSetLost, LoadEnds
<1>5. ReadMoves(loading[p], loading'[p])
  <2>1. CASE StartsLoad(p)
    <3>1. loading'[p] = Begun(p, "asked") /\ raced' = RacesAWrite
      BY <1>0, <2>1 DEF StartsLoad, TieredTypeOK
    <3>2. QED
      BY <1>0, <1>2, <3>1, BegunIsRead DEF ReadMoves
  <2>2. CASE LoadHitsShared(p)
    <3>1. /\ loading'[p].phase = "answered" /\ loading'[p].value = l2.value
          /\ loading'[p].startedAt = loading[p].startedAt
          /\ Reading(loading[p]) /\ HitShared
      BY <1>0, <2>2 DEF LoadHitsShared, TieredTypeOK, Reads, Reading
    <3>2. QED
      BY <1>2, <3>1 DEF ReadMoves
  <2>3. CASE LoadMissesShared(p)
    <3>1. /\ loading'[p].phase = "querying"
          /\ loading'[p].startedAt = loading[p].startedAt
          /\ Reading(loading[p])
      BY <1>0, <2>3 DEF LoadMissesShared, TieredTypeOK, Reads, Reading
    <3>2. QED
      BY <1>2, <3>1 DEF ReadMoves
  <2>4. CASE RowRead(p)
    <3>1. /\ loading'[p].phase = "read" /\ loading'[p].value = row
          /\ loading'[p].startedAt = loading[p].startedAt
          /\ Reading(loading[p])
      BY <1>0, <2>4 DEF RowRead, TieredTypeOK, Reads, Reading
    <3>2. QED
      BY <1>2, <3>1 DEF ReadMoves
  <2>5. CASE LoadSetsShared(p) \/ LoadSetLost(p)
    <3>1. /\ loading[p].phase = "read" /\ loading'[p].phase = "answered"
          /\ loading'[p].value = loading[p].value
          /\ loading'[p].startedAt = loading[p].startedAt
          /\ Reading(loading[p])
      BY <1>0, <2>5 DEF LoadSetsShared, LoadSetLost, TieredTypeOK, Reads, Reading
    <3>2. QED
      BY <1>2, <3>1 DEF ReadMoves
  <2>6. CASE RowFails(p) \/ LoadEnds(p)
    <3>1. loading'[p] = NotReading
      BY <1>0, <2>6 DEF RowFails, LoadEnds, TieredTypeOK
    <3>2. QED
      BY <1>2, <3>1, NotReadingIsRead DEF ReadMoves
  <2>7. QED
    BY <2>1, <2>2, <2>3, <2>4, <2>5, <2>6
<1>6. EntryMoves(p)
  <2>1. CASE StartsLoad(p)
    <3>1. l1'[p] = BeginLoad(l1[p], Guild, p)
      BY <1>0, <2>1 DEF StartsLoad, TieredTypeOK
    <3>2. QED
      BY <1>0, <3>1, LocalBegin DEF EntryMoves
  <2>2. CASE RowFails(p)
    <3>1. l1'[p] = FinishLoad(l1[p], Guild)
      BY <1>0, <2>2 DEF RowFails, TieredTypeOK
    <3>2. QED
      BY <1>0, <3>1, LocalFinish DEF EntryMoves
  <2>3. CASE LoadEnds(p)
    <3> DEFINE m == loading[p].mark
               v == loading[p].value
               d == StoreAnswer(l1[p], Guild, m, v, clock)
    <3>1. v \in Nat /\ clock \in Nat /\ l1[p] \in LocalCaches
      BY <1>0, <2>3 DEF LoadEnds, MarkedAt, Got, TieredTypeOK
    <3>2. StoredAt(l1[p], d, m, v, clock)
      <4> HIDE DEF m, v
      <4>1. QED
        BY ONLY <3>1, LocalStore DEF d
    <3>3. l1'[p] = FinishLoad(d, Guild) /\ loading[p].phase = "answered" /\ l2' = l2
      BY <1>0, <2>3 DEF LoadEnds, TieredTypeOK
    <3> HIDE DEF d
    <3>4. l1'[p].entries[Guild] \in {l1[p].entries[Guild], EntryOf(v, clock)}
      BY <3>2, <3>3, LocalFinish DEF StoredAt
    <3>5. QED
      BY <1>2, <3>3, <3>4 DEF EntryMoves
  <2>4. CASE LoadHitsShared(p) \/ LoadMissesShared(p) \/ RowRead(p) \/ LoadSetsShared(p) \/ LoadSetLost(p)
    BY <2>4 DEF LoadHitsShared, LoadMissesShared, RowRead, LoadSetsShared, LoadSetLost, EntryMoves
  <2>5. QED
    BY <2>1, <2>2, <2>3, <2>4
<1>7. Moves(p)
  BY <1>2, <1>5, <1>6 DEF Moves, ReadMoves, WriteMoves
<1>8. \A q \in Procs : Moves(q)
  BY <1>1, <1>2, <1>7, KeptMoves
<1>9. QED
  BY <1>2, <1>3, <1>4, <1>8 DEF StepMoves

LEMMA PeekMoves ==
    ASSUME TieredShape, NEW p \in Procs,
           StartsPeek(p) \/ PeekAnswered(p) \/ PeekMisses(p) \/ Promotes(p)
    PROVE  StepMoves
<1>0. /\ TieredTypeOK /\ MarkedAt(p)
      /\ l1[p] \in LocalCaches /\ peeking[p] \in Reads
  BY DEF TieredShape, Marked, TieredTypeOK
<1>1. \A q \in Procs \ {p} : Kept(q)
  BY PeekStepShape
<1>2. UNCHANGED <<row, l2, loading, saving, supersededAt, lastWriter, clock>>
  BY DEF StartsPeek, PeekAnswered, PeekMisses, Promotes
<1>3. raced => raced'
  BY DEF StartsPeek, PeekAnswered, PeekMisses, Promotes, RacesAWrite
<1>5. ReadMoves(peeking[p], peeking'[p])
  <2>1. CASE StartsPeek(p)
    <3>1. peeking'[p] = Begun(p, "asked") /\ raced' = RacesAWrite
      BY <1>0, <2>1 DEF StartsPeek, TieredTypeOK
    <3>2. QED
      BY <1>0, <1>2, <3>1, BegunIsRead DEF ReadMoves
  <2>2. CASE PeekAnswered(p)
    <3>1. /\ peeking'[p].phase = "answered" /\ peeking'[p].value = l2.value
          /\ peeking'[p].startedAt = peeking[p].startedAt
          /\ Reading(peeking[p]) /\ HitShared
      BY <1>0, <2>2 DEF PeekAnswered, TieredTypeOK, Reads, Reading
    <3>2. QED
      BY <1>2, <3>1 DEF ReadMoves
  <2>3. CASE PeekMisses(p) \/ Promotes(p)
    <3>1. peeking'[p] = NotReading
      BY <1>0, <2>3 DEF PeekMisses, Promotes, TieredTypeOK
    <3>2. QED
      BY <1>2, <3>1, NotReadingIsRead DEF ReadMoves
  <2>4. QED
    BY <2>1, <2>2, <2>3
<1>6. EntryMoves(p)
  <2>1. CASE StartsPeek(p)
    <3>1. l1'[p] = Evict(l1[p], Guild)
      BY <1>0, <2>1 DEF StartsPeek, TieredTypeOK
    <3>2. QED
      BY <1>0, <3>1, LocalEvict DEF EntryMoves
  <2>2. CASE PeekAnswered(p) \/ PeekMisses(p)
    BY <2>2 DEF PeekAnswered, PeekMisses, EntryMoves
  <2>3. CASE Promotes(p)
    <3> DEFINE m == peeking[p].mark
               v == peeking[p].value
               d == StoreAnswer(l1[p], Guild, m, v, clock)
    <3>1. v \in Nat /\ clock \in Nat /\ l1[p] \in LocalCaches
      BY <1>0, <2>3 DEF Promotes, MarkedAt, Got, TieredTypeOK
    <3>2. StoredAt(l1[p], d, m, v, clock)
      <4> HIDE DEF m, v
      <4>1. QED
        BY ONLY <3>1, LocalStore DEF d
    <3>3. l1'[p] = d /\ peeking[p].phase = "answered"
      BY <1>0, <2>3 DEF Promotes, TieredTypeOK
    <3> HIDE DEF d
    <3>4. l1'[p].entries[Guild] \in {l1[p].entries[Guild], EntryOf(v, clock)}
      BY <3>2, <3>3 DEF StoredAt
    <3>5. QED
      BY <1>2, <3>3, <3>4 DEF EntryMoves
  <2>4. QED
    BY <2>1, <2>2, <2>3
<1>7. Moves(p)
  BY <1>2, <1>5, <1>6 DEF Moves, ReadMoves, WriteMoves
<1>8. \A q \in Procs : Moves(q)
  BY <1>1, <1>2, <1>7, KeptMoves
<1>9. QED
  BY <1>2, <1>3, <1>8 DEF StepMoves

LEMMA WriteStepMoves ==
    ASSUME TieredShape, NEW p \in Procs,
           Saves(p) \/ DeletesLocal(p) \/ DeletesShared(p) \/ DeleteLost(p)
    PROVE  StepMoves
<1>0. /\ TieredTypeOK /\ l1[p] \in LocalCaches /\ clock \in Nat
      /\ loading[p] \in Reads /\ peeking[p] \in Reads
  BY DEF TieredShape, TieredTypeOK
<1>1. /\ raced => raced'
      /\ UNCHANGED clock
      /\ UNCHANGED <<row, supersededAt, lastWriter>> \/ Saves(p)
      /\ l2' \in {l2, None}
  <2>1. CASE Saves(p)
    BY <2>1 DEF Saves, RacesAWrite
  <2>2. CASE DeletesLocal(p)
    BY <2>2 DEF DeletesLocal
  <2>3. CASE DeletesShared(p)
    BY <2>3 DEF DeletesShared
  <2>4. CASE DeleteLost(p)
    BY <2>4 DEF DeleteLost
  <2>5. QED
    BY <2>1, <2>2, <2>3, <2>4
<1>2. ASSUME NEW q \in Procs \ {p} PROVE Kept(q) /\ saving'[q] = saving[q]
  <2>1. CASE DeletesLocal(p)
    BY <1>0, <2>1 DEF DeletesLocal, Kept, TieredTypeOK
  <2>2. CASE Saves(p) \/ DeletesShared(p) \/ DeleteLost(p)
    BY <1>0, <2>2 DEF Saves, DeletesShared, DeleteLost, Kept, TieredTypeOK
  <2>3. QED
    BY <2>1, <2>2
<1>3. /\ loading'[p].phase = loading[p].phase /\ loading'[p].value = loading[p].value
      /\ loading'[p].startedAt = loading[p].startedAt
      /\ peeking'[p].phase = peeking[p].phase /\ peeking'[p].value = peeking[p].value
      /\ peeking'[p].startedAt = peeking[p].startedAt
  <2>1. CASE DeletesLocal(p)
    BY <1>0, <2>1 DEF DeletesLocal, TieredTypeOK, Reads
  <2>2. CASE Saves(p) \/ DeletesShared(p) \/ DeleteLost(p)
    BY <2>2 DEF Saves, DeletesShared, DeleteLost
  <2>3. QED
    BY <2>1, <2>2
<1>4. EntryMoves(p) /\ WriteMoves(p)
  <2>1. CASE DeletesLocal(p)
    <3>1. l1'[p] = Delete(l1[p], Guild, clock)
      BY <1>0, <2>1 DEF DeletesLocal, TieredTypeOK
    <3>2. l1'[p].entries[Guild] = None
      BY <1>0, <3>1, LocalDelete
    <3>3. saving[p] # "idle" /\ saving'[p] = "deleting"
      BY <1>0, <2>1 DEF DeletesLocal, TieredTypeOK
    <3>4. QED
      BY <3>2, <3>3 DEF EntryMoves, WriteMoves
  <2>2. CASE Saves(p)
    BY <1>0, <2>2 DEF Saves, EntryMoves, WriteMoves, TieredTypeOK
  <2>3. CASE DeletesShared(p) \/ DeleteLost(p)
    BY <1>0, <2>3 DEF DeletesShared, DeleteLost, EntryMoves, WriteMoves, TieredTypeOK
  <2>4. QED
    BY <2>1, <2>2, <2>3
<1>5. Moves(p)
  BY <1>3, <1>4 DEF Moves, ReadMoves
<1>6. \A q \in Procs : Moves(q)
  BY <1>2, <1>5, KeptMoves
<1>7. QED
  BY <1>1, <1>6 DEF StepMoves

LEMMA RestartMoves ==
    ASSUME TieredShape, NEW p \in Procs, Restarts(p) \/ SweepsLocal(p)
    PROVE  StepMoves
<1>0. /\ TieredTypeOK /\ l1[p] \in LocalCaches /\ clock \in Nat /\ peeking[p] \in Reads
  BY DEF TieredShape, TieredTypeOK
<1>1. /\ raced => raced'
      /\ UNCHANGED <<row, supersededAt, lastWriter, clock, l2>>
  <2>1. CASE Restarts(p)
    BY <2>1 DEF Restarts
  <2>2. CASE SweepsLocal(p)
    BY <2>2 DEF SweepsLocal
  <2>3. QED
    BY <2>1, <2>2
<1>2. ASSUME NEW q \in Procs \ {p} PROVE Kept(q) /\ saving'[q] = saving[q]
  <2>1. CASE Restarts(p)
    BY <1>0, <2>1 DEF Restarts, Kept, TieredTypeOK
  <2>2. CASE SweepsLocal(p)
    BY <1>0, <2>2 DEF SweepsLocal, Kept, TieredTypeOK
  <2>3. QED
    BY <2>1, <2>2
<1>3. CASE Restarts(p)
  <2>1. loading'[p] = NotReading /\ peeking'[p] = NotReading /\ l1'[p] = EmptyCache
        /\ saving'[p] = "idle" /\ (saving[p] # "idle" => raced')
    BY <1>0, <1>3 DEF Restarts, TieredTypeOK, Writing
  <2>2. l1'[p].entries[Guild] = None
    BY <2>1, LocalEmpty
  <2>3. Moves(p)
    BY <1>1, <2>1, <2>2, NotReadingIsRead DEF Moves, ReadMoves, EntryMoves, WriteMoves
  <2>4. QED
    BY <1>1, <1>2, <2>3, KeptMoves DEF StepMoves
<1>4. CASE SweepsLocal(p)
  <2>1. l1'[p] = SweepCache(l1[p], clock)
    BY <1>0, <1>4 DEF SweepsLocal, TieredTypeOK
  <2>2. l1'[p].entries[Guild] \in {l1[p].entries[Guild], None}
    BY <1>0, <2>1, LocalSweep
  <2>3. /\ peeking'[p].phase = peeking[p].phase /\ peeking'[p].value = peeking[p].value
        /\ peeking'[p].startedAt = peeking[p].startedAt
        /\ loading'[p] = loading[p] /\ saving'[p] = saving[p]
    BY <1>0, <1>4 DEF SweepsLocal, TieredTypeOK, Reads
  <2>4. Moves(p)
    BY <2>2, <2>3 DEF Moves, ReadMoves, EntryMoves, WriteMoves
  <2>5. QED
    BY <1>1, <1>2, <2>4, KeptMoves DEF StepMoves
<1>5. QED
  BY <1>3, <1>4

LEMMA EveryStepMoves ==
    ASSUME TieredShape, [TieredNext]_tieredVars PROVE StepMoves
<1>1. CASE ClockTicks \/ UNCHANGED tieredVars
  <2>1. \A q \in Procs : Kept(q) /\ saving'[q] = saving[q]
    BY <1>1 DEF ClockTicks, tieredVars, Kept
  <2>2. \A q \in Procs : Moves(q)
    BY <2>1, KeptMoves
  <2>3. QED
    BY <1>1, <2>2 DEF ClockTicks, tieredVars, StepMoves
<1>2. ASSUME NEW p \in Procs,
             StartsLoad(p) \/ LoadHitsShared(p) \/ LoadMissesShared(p) \/ RowRead(p)
             \/ RowFails(p) \/ LoadSetsShared(p) \/ LoadSetLost(p) \/ LoadEnds(p)
      PROVE  StepMoves
  BY <1>2, LoadMoves
<1>3. ASSUME NEW p \in PeekingProcs,
             StartsPeek(p) \/ PeekAnswered(p) \/ PeekMisses(p) \/ Promotes(p)
      PROVE  StepMoves
  BY <1>3, PeekMoves, ProcsAssumption
<1>4. ASSUME NEW p \in WritingProcs,
             Saves(p) \/ DeletesLocal(p) \/ DeletesShared(p) \/ DeleteLost(p)
      PROVE  StepMoves
  BY <1>4, WriteStepMoves, ProcsAssumption
<1>5. ASSUME NEW p \in Procs, Restarts(p) \/ SweepsLocal(p) PROVE StepMoves
  BY <1>5, RestartMoves
<1>6. QED
  BY <1>1, <1>2, <1>3, <1>4, <1>5 DEF TieredNext

-----------------------------------------------------------------------------
(* Ages. *)

\* What was the row at a moment that has been stays so.
LEMMA WasRowStays ==
    ASSUME TieredShape, VersionsDated, StepMoves, NEW v, NEW t \in Int, WasRow(v, t)
    PROVE  WasRow(v, t)'
<1>1. /\ row \in Nat /\ clock \in Nat /\ row <= MaxWrites /\ MaxWrites \in Nat
      /\ supersededAt \in [0..MaxWrites -> Nat \cup {None}]
      /\ v \in 0..row /\ t <= clock
  BY WritesAssumption DEF TieredShape, TieredTypeOK, WasRow
<1>2. clock' \in {clock, clock + 1}
  BY DEF StepMoves, ClockTicks
<1>3. CASE UNCHANGED <<row, supersededAt, lastWriter>>
  BY <1>1, <1>2, <1>3 DEF WasRow
<1>4. ASSUME NEW p \in Procs, Saves(p) PROVE WasRow(v, t)'
  <2>1. row' = row + 1 /\ supersededAt' = [supersededAt EXCEPT ![row] = clock] /\ clock' = clock
    BY <1>4 DEF Saves
  <2>2. supersededAt'[v] >= t
    <3>1. CASE v = row
      BY <1>1, <2>1, <3>1
    <3>2. CASE v # row
      BY <1>1, <2>1, <3>2 DEF WasRow
    <3>3. QED
      BY <3>1, <3>2
  <2>3. QED
    BY <1>1, <2>1, <2>2 DEF WasRow
<1>5. QED
  BY <1>3, <1>4 DEF StepMoves

LEMMA WasRowEarlier ==
    ASSUME TieredShape, VersionsDated, NEW v, NEW t \in Int, NEW u \in Int, u <= t, WasRow(v, t)
    PROVE  WasRow(v, u)
<1>1. /\ row \in Nat /\ clock \in Nat /\ row <= MaxWrites /\ v \in 0..row
  BY WritesAssumption DEF TieredShape, TieredTypeOK, WasRow
<1>2. v # row => supersededAt[v] \in Nat
  BY <1>1, WritesAssumption DEF VersionsDated
<1>3. QED
  BY <1>1, <1>2 DEF WasRow

LEMMA VersionsStayDated ==
    ASSUME TieredShape, VersionsDated, StepMoves PROVE VersionsDated'
<1>1. /\ row \in Nat /\ clock \in Nat /\ row <= MaxWrites /\ MaxWrites \in Nat
      /\ supersededAt \in [0..MaxWrites -> Nat \cup {None}]
  BY WritesAssumption DEF TieredShape, TieredTypeOK
<1>2. clock' \in {clock, clock + 1}
  BY DEF StepMoves, ClockTicks
<1>3. CASE UNCHANGED <<row, supersededAt, lastWriter>>
  BY <1>1, <1>2, <1>3 DEF VersionsDated
<1>4. ASSUME NEW p \in Procs, Saves(p) PROVE VersionsDated'
  <2>1. row' = row + 1 /\ supersededAt' = [supersededAt EXCEPT ![row] = clock] /\ clock' = clock
    BY <1>4 DEF Saves
  <2>2. ASSUME NEW v \in 0..MaxWrites, v < row' PROVE supersededAt'[v] \in 0..clock'
    <3>1. CASE v = row
      BY <1>1, <2>1, <3>1
    <3>2. CASE v # row
      BY <1>1, <2>1, <2>2, <3>2 DEF VersionsDated
    <3>3. QED
      BY <3>1, <3>2
  <2>3. QED
    BY <2>2 DEF VersionsDated
<1>5. QED
  BY <1>3, <1>4 DEF StepMoves

LEMMA Times == /\ TtlMs \in Nat /\ TtlMs >= 1 /\ LoadMs \in Nat /\ LoadMs >= 1
               /\ 2 * (TtlMs + LoadMs) \in Nat
BY TtlAssumption, TimesAssumption

LEMMA EntriesStayAged ==
    ASSUME TieredShape, Aged, StepMoves, NEW e \in SharedEntries \cup {None}
    PROVE  (SharedAged(e) => SharedAged(e)') /\ (LocalAged(e) => LocalAged(e)')
<1>1. clock \in Nat /\ clock' \in {clock, clock + 1}
  BY DEF StepMoves, ClockTicks, TieredShape, TieredTypeOK
<1>2. CASE e = None
  BY <1>2 DEF SharedAged, LocalAged
<1>3. CASE e # None
  <2>1. e.expiresAt \in Nat
    BY <1>3 DEF SharedEntries
  <2>2. /\ e.expiresAt - TtlMs - LoadMs \in Int
        /\ e.expiresAt + 1 - 2 * (TtlMs + LoadMs) \in Int
        /\ e.expiresAt <= clock + TtlMs => e.expiresAt <= clock' + TtlMs
    BY <1>1, <2>1, Times
  <2>3. SharedAged(e) => SharedAged(e)'
    BY <1>3, <2>2, WasRowStays DEF SharedAged, Aged
  <2>4. LocalAged(e) => LocalAged(e)'
    BY <1>3, <2>2, WasRowStays DEF LocalAged, Aged
  <2>5. QED
    BY <2>3, <2>4
<1>4. QED
  BY <1>2, <1>3

LEMMA SharedAgedStep ==
    ASSUME TieredShape, Aged, StepMoves PROVE SharedAged(l2)'
<1>0. /\ clock \in Nat /\ l2 \in SharedEntries \cup {None}
      /\ VersionsDated /\ SharedAged(l2)
  BY DEF TieredShape, TieredTypeOK, Aged
<1>1. CASE l2' = None
  BY <1>1 DEF SharedAged
<1>2. CASE l2' = l2
  BY <1>0, <1>2, EntriesStayAged DEF SharedAged
<1>3. ASSUME NEW p \in Procs, loading[p].phase = "read", l2' = Shared(loading[p].value)
      PROVE  SharedAged(l2)'
  <2>1. PICK x \in Reads : x = loading[p]
    BY DEF TieredShape, TieredTypeOK
  <2>2. PICK e : e = [value |-> x.value, expiresAt |-> clock + TtlMs]
    OBVIOUS
  <2>3. /\ x.startedAt \in Nat /\ clock <= x.startedAt + LoadMs
        /\ WasRow(x.value, x.startedAt) /\ x.value \in Nat
    BY <1>3, <2>1 DEF Aged, ReadAged, Reading, Reads, TieredShape, Marked, MarkedAt, Got
  <2>4. WasRow(x.value, clock - LoadMs)
    BY <1>0, <2>3, Times, WasRowEarlier
  <2>5. e \in SharedEntries /\ e.value = x.value /\ e.expiresAt = clock + TtlMs
    BY <1>0, <1>3, <2>1, <2>2, <2>3, Times DEF SharedEntries
  <2>6. SharedAged(e)
    <3>1. e.expiresAt - TtlMs - LoadMs = clock - LoadMs /\ e.expiresAt <= clock + TtlMs
      BY <1>0, <2>5, Times
    <3>2. QED
      BY <2>4, <2>5, <3>1 DEF SharedAged
  <2>7. QED
    BY <1>3, <2>1, <2>2, <2>5, <2>6, EntriesStayAged DEF Shared, EntryOf
<1>4. QED
  BY <1>1, <1>2, <1>3 DEF StepMoves

LEMMA ReadsStayAged ==
    ASSUME TieredShape, Aged, StepMoves, NEW x \in Reads, ReadAged(x),
           UNCHANGED clock \/ ~ Overdue(x)
    PROVE  ReadAged(x)'
<1>1. clock \in Nat /\ clock' \in {clock, clock + 1} /\ x.startedAt \in Nat
  BY DEF StepMoves, ClockTicks, TieredShape, TieredTypeOK, Reads
<1>2. Reading(x) => /\ x.startedAt <= clock' /\ clock' <= x.startedAt + LoadMs
  BY <1>1, Times DEF ReadAged, Overdue
<1>3. x.startedAt + 1 - TtlMs - LoadMs \in Int
  BY <1>1, Times
<1>4. x.phase = "read" => WasRow(x.value, x.startedAt)'
  BY <1>1, WasRowStays DEF ReadAged, Reading, Aged
<1>5. x.phase = "answered" => WasRow(x.value, x.startedAt + 1 - TtlMs - LoadMs)'
  BY <1>3, WasRowStays DEF ReadAged, Reading, Aged
<1>6. QED
  BY <1>2, <1>4, <1>5 DEF ReadAged, Reading

LEMMA ReadAgedStep ==
    ASSUME TieredShape, Aged, StepMoves, NEW x \in Reads, NEW y \in Reads,
           ReadMoves(x, y), ReadAged(x), UNCHANGED clock \/ ~ Overdue(x)
    PROVE  ReadAged(y)'
<1>1. CASE y.phase = x.phase /\ y.value = x.value /\ y.startedAt = x.startedAt
  BY <1>1, ReadsStayAged DEF ReadAged, Reading
<1>2. CASE UNCHANGED <<row, supersededAt, clock>> /\ ~ Reading(y)
  BY <1>2 DEF ReadAged, Reading
<1>3. CASE UNCHANGED clock /\ y.phase = "asked" /\ y.startedAt = clock
  <2>1. ReadAged(y)
    BY <1>3, Times DEF ReadAged, TieredShape, TieredTypeOK
  <2>2. QED
    BY <1>3, <2>1, ReadsStayAged
<1>4. CASE /\ UNCHANGED <<row, supersededAt, clock>>
           /\ Reading(x) /\ y.startedAt = x.startedAt
           /\ \/ y.phase = "querying"
              \/ y.phase = "answered" /\ HitShared /\ y.value = l2.value
              \/ y.phase = "read" /\ y.value = row
              \/ x.phase = "read" /\ y.phase = "answered" /\ y.value = x.value
  <2>1. /\ clock \in Nat /\ row \in Nat /\ y.startedAt \in Nat
        /\ y.startedAt <= clock /\ clock <= y.startedAt + LoadMs
    BY <1>4, WritesAssumption DEF TieredShape, TieredTypeOK, Reads, ReadAged
  <2>2. ReadAged(y)
    <3>1. CASE y.phase = "querying"
      BY <1>4, <2>1, <3>1 DEF ReadAged
    <3>2. CASE y.phase = "answered" /\ HitShared /\ y.value = l2.value
      <4>1. PICK e : e = l2
        OBVIOUS
      <4>2. /\ e.expiresAt \in Nat /\ e.expiresAt >= clock + 1
            /\ WasRow(y.value, e.expiresAt - TtlMs - LoadMs)
        BY <2>1, <3>2, <4>1 DEF HitShared, Aged, SharedAged, TieredShape, TieredTypeOK, SharedEntries
      <4>3. /\ y.startedAt + 1 - TtlMs - LoadMs \in Int /\ e.expiresAt - TtlMs - LoadMs \in Int
            /\ y.startedAt + 1 - TtlMs - LoadMs <= e.expiresAt - TtlMs - LoadMs
        BY <2>1, <4>2, Times
      <4>4. WasRow(y.value, y.startedAt + 1 - TtlMs - LoadMs)
        BY <4>2, <4>3, WasRowEarlier DEF Aged
      <4>5. QED
        BY <1>4, <2>1, <3>2, <4>4 DEF ReadAged
    <3>3. CASE y.phase = "read" /\ y.value = row
      BY <1>4, <2>1, <3>3 DEF ReadAged, WasRow
    <3>4. CASE x.phase = "read" /\ y.phase = "answered" /\ y.value = x.value
      <4>1. WasRow(y.value, y.startedAt)
        BY <1>4, <3>4 DEF ReadAged
      <4>2. y.startedAt + 1 - TtlMs - LoadMs \in Int /\ y.startedAt + 1 - TtlMs - LoadMs <= y.startedAt
        BY <2>1, Times
      <4>3. WasRow(y.value, y.startedAt + 1 - TtlMs - LoadMs)
        BY <2>1, <4>1, <4>2, WasRowEarlier DEF Aged
      <4>4. QED
        BY <1>4, <2>1, <3>4, <4>3 DEF ReadAged
    <3>5. QED
      BY <1>4, <3>1, <3>2, <3>3, <3>4
  <2>3. QED
    BY <1>4, <2>2, ReadsStayAged
<1>5. QED
  BY <1>1, <1>2, <1>3, <1>4 DEF ReadMoves

LEMMA LocalAgedStep ==
    ASSUME TieredShape, Aged, StepMoves, NEW q \in Procs
    PROVE  LocalAged(l1[q].entries[Guild])'
<1>0. /\ clock \in Nat /\ l1[q].entries[Guild] \in SharedEntries \cup {None}
      /\ loading[q] \in Reads /\ peeking[q] \in Reads
      /\ LocalAged(l1[q].entries[Guild]) /\ ReadAged(loading[q]) /\ ReadAged(peeking[q])
      /\ EntryMoves(q)
  BY GuildAssumption DEF TieredShape, TieredTypeOK, LocalCaches, Aged, StepMoves, Moves
<1>1. CASE l1'[q].entries[Guild] = None
  BY <1>1 DEF LocalAged
<1>2. CASE l1'[q].entries[Guild] = l1[q].entries[Guild]
  BY <1>0, <1>2, EntriesStayAged DEF LocalAged
<1>3. ASSUME NEW x \in {loading[q], peeking[q]}, x.phase = "answered",
             l1'[q].entries[Guild] = EntryOf(x.value, clock)
      PROVE  LocalAged(l1[q].entries[Guild])'
  <2>1. PICK y \in Reads : y = x /\ ReadAged(y)
    BY <1>0
  <2>2. PICK e : e = [value |-> y.value, expiresAt |-> clock + TtlMs]
    OBVIOUS
  <2>3. /\ y.startedAt \in Nat /\ y.startedAt <= clock /\ clock <= y.startedAt + LoadMs
        /\ WasRow(y.value, y.startedAt + 1 - TtlMs - LoadMs)
    BY <1>3, <2>1 DEF ReadAged, Reading, Reads
  <2>4. y.value \in Nat
    BY <2>3, WritesAssumption DEF WasRow, TieredShape, TieredTypeOK
  <2>5. e \in SharedEntries /\ e.value = y.value /\ e.expiresAt = clock + TtlMs
    BY <1>0, <2>2, <2>4, Times DEF SharedEntries
  <2>6. /\ e.expiresAt + 1 - 2 * (TtlMs + LoadMs) \in Int
        /\ y.startedAt + 1 - TtlMs - LoadMs \in Int
        /\ e.expiresAt + 1 - 2 * (TtlMs + LoadMs) <= y.startedAt + 1 - TtlMs - LoadMs
    BY <1>0, <2>3, <2>5, Times
  <2>7. WasRow(e.value, e.expiresAt + 1 - 2 * (TtlMs + LoadMs))
    BY <2>3, <2>5, <2>6, WasRowEarlier DEF Aged
  <2>8. LocalAged(e)
    BY <1>0, <2>5, <2>7, Times DEF LocalAged
  <2>9. QED
    BY <1>3, <2>1, <2>2, <2>5, <2>8, EntriesStayAged DEF EntryOf
<1>4. QED
  BY <1>0, <1>1, <1>2, <1>3 DEF EntryMoves

LEMMA AgedStep ==
    ASSUME TieredShape, TieredShape', Aged, StepMoves PROVE Aged'
<1>1. ASSUME NEW q \in Procs PROVE ReadAged(loading[q])' /\ ReadAged(peeking[q])'
  <2>1. PICK x \in Reads, y \in Reads : x = loading[q] /\ y = loading'[q]
    BY DEF TieredShape, TieredTypeOK
  <2>2. PICK u \in Reads, w \in Reads : u = peeking[q] /\ w = peeking'[q]
    BY DEF TieredShape, TieredTypeOK
  <2>3. UNCHANGED clock \/ (~ Overdue(loading[q]) /\ ~ Overdue(peeking[q]))
    BY DEF StepMoves, ClockTicks
  <2>4. /\ ReadMoves(loading[q], loading'[q]) /\ ReadMoves(peeking[q], peeking'[q])
        /\ ReadAged(loading[q]) /\ ReadAged(peeking[q])
    BY DEF StepMoves, Moves, Aged
  <2>5. ReadAged(y)'
    BY <2>1, <2>3, <2>4, ReadAgedStep
  <2>6. ReadAged(w)'
    BY <2>2, <2>3, <2>4, ReadAgedStep
  <2>7. QED
    BY <2>1, <2>2, <2>5, <2>6 DEF ReadAged
<1>2. QED
  BY <1>1, VersionsStayDated, SharedAgedStep, LocalAgedStep DEF Aged

-----------------------------------------------------------------------------
(* Without races. *)

LEMMA UnracedSaves ==
    ASSUME TieredShape, TieredShape', Aged, StepMoves, Unraced, ~ raced',
           NEW p \in Procs, Saves(p)
    PROVE  Unraced'
<1>1. /\ TieredTypeOK /\ TieredTypeOK' /\ VersionsDated /\ row \in Nat
  BY WritesAssumption DEF TieredShape, TieredTypeOK, Aged
<1>2. /\ \A q \in Procs : ~ Writing(q)
      /\ \A q \in Procs : ~ Reading(loading[q]) /\ ~ Reading(peeking[q])
  BY DEF Saves, RacesAWrite
<1>3. /\ UNCHANGED <<l1, l2, loading, peeking, clock>> /\ lastWriter' = p
      /\ saving'[p] = "saved" /\ \A q \in Procs : q # p => saving'[q] = saving[q]
  BY <1>1 DEF Saves, TieredTypeOK
<1>4. \A q \in Procs : Writing(q)' => q = p
  BY <1>2, <1>3 DEF Writing
<1>5. \A q \in Procs : /\ ~ Reading(loading[q])' /\ ~ Reading(peeking[q])'
                       /\ ~ Got(loading[q])' /\ ~ Got(peeking[q])'
  BY <1>2, <1>3 DEF Reading, Got
<1>6. Writing(p)'
  BY <1>3 DEF Writing
<1>7. ASSUME NEW q \in Procs, l1'[q].entries[Guild] # None
      PROVE  /\ WasRow(l1[q].entries[Guild].value, l1[q].entries[Guild].expiresAt - TtlMs)'
             /\ q = lastWriter' => saving'[q] = "saved"
  <2>1. PICK e \in SharedEntries : e = l1[q].entries[Guild]
    BY <1>1, <1>3, <1>7, GuildAssumption DEF TieredTypeOK, LocalCaches
  <2>2. e # None /\ l1'[q].entries[Guild] = e
    BY <1>3, <1>7, <2>1
  <2>3. WasRow(e.value, e.expiresAt - TtlMs) /\ e.expiresAt - TtlMs \in Int
    BY <2>1, <2>2, Times DEF Unraced, SharedEntries
  <2>4. WasRow(e.value, e.expiresAt - TtlMs)'
    BY <1>1, <2>3, WasRowStays
  <2>5. QED
    BY <1>3, <2>2, <2>4 DEF WasRow
<1>8. QED
  BY <1>4, <1>5, <1>6, <1>7 DEF Unraced

LEMMA UnracedOther ==
    ASSUME TieredShape, TieredShape', Aged, StepMoves, Unraced, ~ raced',
           \A p \in Procs : ~ Saves(p)
    PROVE  Unraced'
<1>1. /\ TieredTypeOK /\ TieredTypeOK' /\ VersionsDated /\ row \in Nat
      /\ UNCHANGED <<row, supersededAt, lastWriter>>
      /\ clock \in Nat /\ clock' \in Nat
      /\ \A q \in Procs : Moves(q)
  BY WritesAssumption DEF TieredShape, TieredTypeOK, Aged, StepMoves
<1>2. ASSUME NEW q \in Procs PROVE Writing(q)' => Writing(q)
  BY <1>1 DEF Moves, WriteMoves, Writing
<1>3. \A p, q \in Procs : Writing(p)' /\ Writing(q)' => p = q
  BY <1>2 DEF Unraced
<1>4. ASSUME NEW p \in Procs, NEW q \in Procs, Writing(p)'
      PROVE  ~ Reading(loading[q])' /\ ~ Reading(peeking[q])'
  <2>1. Writing(p) /\ ~ Reading(loading[q]) /\ ~ Reading(peeking[q])
    BY <1>2, <1>4 DEF Unraced
  <2>2. ASSUME NEW x, NEW y, ReadMoves(x, y), ~ Reading(x) PROVE ~ Reading(y)
    BY <2>1, <2>2 DEF ReadMoves, Reading, RacesAWrite
  <2>3. QED
    BY <1>1, <2>1, <2>2 DEF Moves, Reading
<1>5. ASSUME NEW q \in Procs
      PROVE  (Got(loading[q]) => loading[q].value = row)'
             /\ (Got(peeking[q]) => peeking[q].value = row)'
  <2>1. ASSUME NEW x, NEW y, ReadMoves(x, y), Got(x) => x.value = row, Got(y),
               Reading(x) => \A p \in Procs : ~ Writing(p)
        PROVE  y.value = row
    <3>1. Reading(x) /\ HitShared => l2.value = row
      BY <2>1 DEF Unraced, HitShared
    <3>2. QED
      BY <2>1, <3>1 DEF ReadMoves, Got, Reading
  <2>2. /\ Reading(loading[q]) => \A p \in Procs : ~ Writing(p)
        /\ Reading(peeking[q]) => \A p \in Procs : ~ Writing(p)
        /\ Got(loading[q]) => loading[q].value = row
        /\ Got(peeking[q]) => peeking[q].value = row
    BY DEF Unraced
  <2>3. ReadMoves(loading[q], loading'[q]) /\ ReadMoves(peeking[q], peeking'[q])
    BY <1>1 DEF Moves
  <2>4. QED
    BY <1>1, <2>1, <2>2, <2>3 DEF Got
<1>6. ASSUME \A p \in Procs : ~ Writing(p)', l2' # None PROVE l2'.value = row'
  <2>1. \A p \in Procs : ~ Writing(p)
    BY <1>1, <1>6 DEF Moves, WriteMoves, Writing
  <2>2. CASE l2' = l2
    BY <1>1, <1>6, <2>1, <2>2 DEF Unraced
  <2>3. ASSUME NEW p \in Procs, loading[p].phase = "read", l2' = Shared(loading[p].value)
        PROVE  l2'.value = row'
    BY <1>1, <2>3 DEF Unraced, Got, Shared, EntryOf
  <2>4. QED
    BY <1>6, <2>2, <2>3 DEF StepMoves
<1>7. ASSUME NEW q \in Procs, l1'[q].entries[Guild] # None
      PROVE  /\ WasRow(l1[q].entries[Guild].value, l1[q].entries[Guild].expiresAt - TtlMs)'
             /\ q = lastWriter' /\ saving'[q] # "saved" => l1'[q].entries[Guild].value = row'
  <2>1. CASE l1'[q].entries[Guild] = l1[q].entries[Guild]
    <3>1. PICK e \in SharedEntries : e = l1[q].entries[Guild]
      BY <1>1, <1>7, <2>1, GuildAssumption DEF TieredTypeOK, LocalCaches
    <3>2. e # None /\ l1'[q].entries[Guild] = e
      BY <1>7, <2>1, <3>1
    <3>3. WasRow(e.value, e.expiresAt - TtlMs) /\ e.expiresAt - TtlMs \in Int
      BY <3>1, <3>2, Times DEF Unraced, SharedEntries
    <3>4. WasRow(e.value, e.expiresAt - TtlMs)'
      BY <1>1, <3>3, WasRowStays
    <3>5. saving'[q] # "saved" => saving[q] # "saved"
      BY <1>1, <1>7 DEF Moves, WriteMoves
    <3>6. q = lastWriter /\ saving[q] # "saved" => e.value = row
      BY <3>1, <3>2 DEF Unraced
    <3>7. QED
      BY <1>1, <3>2, <3>4, <3>5, <3>6 DEF WasRow
  <2>2. ASSUME NEW x \in {loading[q], peeking[q]}, x.phase = "answered", UNCHANGED clock,
               l1'[q].entries[Guild] = EntryOf(x.value, clock)
        PROVE  /\ WasRow(l1[q].entries[Guild].value, l1[q].entries[Guild].expiresAt - TtlMs)'
               /\ l1'[q].entries[Guild].value = row'
    <3>1. x.value = row
      BY <2>2 DEF Unraced, Got
    <3>2. /\ l1'[q].entries[Guild].value = row' /\ clock' \in Nat
          /\ l1'[q].entries[Guild].expiresAt = clock' + TtlMs
      BY <1>1, <2>2, <3>1 DEF EntryOf
    <3>3. PICK e \in SharedEntries : e = l1'[q].entries[Guild]
      BY <1>1, <1>7, GuildAssumption DEF TieredTypeOK, LocalCaches
    <3>4. /\ e.value = row' /\ e.expiresAt = clock' + TtlMs /\ row' \in 0..row'
          /\ e.expiresAt \in Nat
      BY <1>1, <3>2, <3>3 DEF SharedEntries
    <3>5. e.expiresAt - TtlMs = clock'
      <4>1. \A x1, t1, y1 \in Nat : x1 = t1 + y1 => x1 - y1 = t1
        OBVIOUS
      <4>2. clock' \in Nat /\ TtlMs \in Nat
        BY <3>2, TtlAssumption
      <4>3. QED
        BY ONLY <3>4, <4>1, <4>2, Zenon
    <3>6. WasRow(e.value, e.expiresAt - TtlMs)'
      BY <3>2, <3>4, <3>5 DEF WasRow
    <3>7. QED
      BY <3>2, <3>3, <3>6 DEF WasRow
  <2>3. QED
    BY <1>1, <1>7, <2>1, <2>2 DEF Moves, EntryMoves
<1>8. QED
  BY <1>3, <1>4, <1>5, <1>6, <1>7 DEF Unraced

-----------------------------------------------------------------------------
(* The theorems. *)

LEMMA TieredInitInv == TieredInit => TieredInv
<1> SUFFICES ASSUME TieredInit PROVE TieredInv
  OBVIOUS
<1>1. TieredShape
  BY TieredInitShape
<1>2. \A p \in Procs : l1[p].entries[Guild] = None
  BY LocalEmpty DEF TieredInit
<1>3. Aged
  BY <1>2, NotReadingIsRead, WritesAssumption
  DEF TieredInit, Aged, VersionsDated, SharedAged, LocalAged, ReadAged
<1>4. Unraced
  BY <1>2, NotReadingIsRead DEF TieredInit, Unraced, Writing, Got, Reading
<1>5. QED
  BY <1>1, <1>3, <1>4 DEF TieredInv

LEMMA TieredInvStep == TieredInv /\ [TieredNext]_tieredVars => TieredInv'
<1> SUFFICES ASSUME TieredInv, [TieredNext]_tieredVars PROVE TieredInv'
  OBVIOUS
<1>1. TieredShape /\ TieredShape' /\ Aged
  BY TieredShapeStep DEF TieredInv
<1>2. StepMoves
  BY <1>1, EveryStepMoves
<1>3. Aged'
  BY <1>1, <1>2, AgedStep
<1>4. ASSUME ~ raced' PROVE Unraced'
  <2>1. Unraced
    BY <1>2, <1>4 DEF TieredInv, StepMoves
  <2>2. QED
    BY <1>1, <1>2, <1>4, <2>1, UnracedSaves, UnracedOther
<1>5. QED
  BY <1>1, <1>3, <1>4 DEF TieredInv

\* The invariant of the two tiers holds in every reachable state.
THEOREM TieredInvariance == TieredSpec => []TieredInv
BY TieredInitInv, TieredInvStep, PTL DEF TieredSpec

\* No tier of any instance serves a version replaced more than two TTLs and two
\* reads ago, whatever races, is lost or crashes (tiered.cache.ts:12-17).
THEOREM StalenessIsBounded == TieredSpec => []BoundedStaleness
<1>1. TieredInv => BoundedStaleness
  <2> SUFFICES ASSUME TieredInv PROVE BoundedStaleness
    OBVIOUS
  <2>1. TieredTypeOK /\ Aged /\ row \in Nat /\ row <= MaxWrites /\ clock \in Nat
    BY WritesAssumption DEF TieredInv, TieredShape, TieredTypeOK
  <2>2. ASSUME NEW v \in 0..MaxWrites, NEW t \in Int, WasRow(v, t),
               t >= clock + 2 - 2 * (TtlMs + LoadMs)
        PROVE  ~ Stale(v, 2 * (TtlMs + LoadMs) - 1)
    <3>1. v # row => supersededAt[v] \in Nat
      BY <2>1, <2>2 DEF Aged, VersionsDated, WasRow
    <3>2. QED
      BY <2>1, <2>2, <3>1, Times DEF Stale, WasRow
  <2>3. ASSUME NEW p \in Procs, NEW v \in 0..MaxWrites, Serves(p, v)
        PROVE  ~ Stale(v, 2 * (TtlMs + LoadMs) - 1)
    <3>1. PICK e \in SharedEntries : e = l1[p].entries[Guild]
      BY <2>1, <2>3, GuildAssumption DEF Serves, Hit, TieredTypeOK, LocalCaches
    <3>2. /\ e.expiresAt \in Nat /\ e.expiresAt > clock
          /\ WasRow(v, e.expiresAt + 1 - 2 * (TtlMs + LoadMs))
      BY <2>1, <2>3, <3>1 DEF Serves, Hit, Aged, LocalAged, SharedEntries
    <3>3. QED
      BY <2>1, <2>2, <3>2, Times
  <2>4. ASSUME NEW v \in 0..MaxWrites, HitShared, l2.value = v
        PROVE  ~ Stale(v, 2 * (TtlMs + LoadMs) - 1)
    <3>1. /\ l2.expiresAt \in Nat /\ l2.expiresAt > clock
          /\ WasRow(v, l2.expiresAt - TtlMs - LoadMs)
      BY <2>1, <2>4 DEF HitShared, Aged, SharedAged, TieredTypeOK, SharedEntries
    <3>2. QED
      BY <2>1, <2>2, <3>1, Times
  <2>5. QED
    BY <2>1, <2>3, <2>4 DEF BoundedStaleness
<1>2. QED
  BY <1>1, TieredInvariance, PTL

\* While no read overlapped a write and no step was lost, a finished write is
\* seen at once by Redis and its writer, and by the others when their entry
\* expires (tiered.cache.ts:12-14).
THEOREM ExactWhenUnraced == TieredSpec => []ExactWithoutRaces
<1>1. TieredInv => ExactWithoutRaces
  <2> SUFFICES ASSUME TieredInv, ~ raced, \A p \in Procs : ~ Writing(p)
               PROVE  /\ HitShared => l2.value = row
                      /\ \A p \in Procs, v \in 0..MaxWrites :
                            Serves(p, v) => v = row \/ (p # lastWriter /\ ~ Stale(v, TtlMs))
    BY DEF ExactWithoutRaces
  <2>1. /\ TieredTypeOK /\ Aged /\ Unraced /\ row \in Nat /\ row <= MaxWrites /\ clock \in Nat
    BY WritesAssumption DEF TieredInv, TieredShape, TieredTypeOK
  <2>2. HitShared => l2.value = row
    BY <2>1 DEF Unraced, HitShared
  <2>3. ASSUME NEW p \in Procs, NEW v \in 0..MaxWrites, Serves(p, v), v # row
        PROVE  p # lastWriter /\ ~ Stale(v, TtlMs)
    <3>1. PICK e \in SharedEntries : e = l1[p].entries[Guild]
      BY <2>1, <2>3, GuildAssumption DEF Serves, Hit, TieredTypeOK, LocalCaches
    <3>2. /\ e.expiresAt \in Nat /\ e.expiresAt > clock /\ e # None /\ e.value = v
      BY <2>3, <3>1 DEF Serves, Hit, SharedEntries
    <3>3. WasRow(v, e.expiresAt - TtlMs)
          /\ (p = lastWriter /\ saving[p] # "saved" => e.value = row)
      BY <2>1, <3>1, <3>2 DEF Unraced
    <3>4. supersededAt[v] \in Nat
      BY <2>1, <2>3, <3>3 DEF Aged, VersionsDated, WasRow
    <3>5. ~ Stale(v, TtlMs)
      BY <2>1, <2>3, <3>2, <3>3, <3>4, Times DEF Stale, WasRow
    <3>6. QED
      BY <2>3, <3>2, <3>3, <3>5 DEF Writing
  <2>4. QED
    BY <2>2, <2>3
<1>2. QED
  BY <1>1, TieredInvariance, PTL

\* A load or a promotion of a process that was invalidated meanwhile puts
\* nothing into that process's memory (tiered.cache.ts:36-43).
THEOREM OutdatedIsNotStored == TieredSpec => NothingOutdatedIsStored
<1>1. TieredInv /\ [TieredNext]_tieredVars =>
        [\A p \in Procs :
            ( \/ LoadReturns(p) /\ loading[p].outdated
              \/ PeekReturns(p) /\ peeking[p].outdated /\ ~ peeking[p].forgotten )
            => StoresNothing(p)]_tieredVars
  <2> SUFFICES ASSUME TieredInv, TieredNext, NEW p \in Procs,
                      \/ LoadReturns(p) /\ loading[p].outdated
                      \/ PeekReturns(p) /\ peeking[p].outdated /\ ~ peeking[p].forgotten
               PROVE  StoresNothing(p)
    OBVIOUS
  <2>1. /\ TieredShape /\ TieredTypeOK /\ MarkedAt(p)
        /\ l1[p] \in LocalCaches /\ l1[p].generations[Guild] \in Nat
        /\ loading[p] \in Reads /\ peeking[p] \in Reads /\ clock \in Nat
    BY GuildAssumption DEF TieredInv, TieredShape, Marked, TieredTypeOK, LocalCaches
  <2>2. ASSUME NEW x, MarkBehind(l1[p], x), x.outdated, x.value \in Nat
        PROVE  StoreAnswer(l1[p], Guild, x.mark, x.value, clock) = l1[p]
    BY <2>1, <2>2 DEF MarkBehind, StoreAnswer, IsCurrent, ReadMarks
  <2>3. CASE LoadReturns(p) /\ loading[p].outdated
    <3>1. loading[p].phase = "answered" /\ loading'[p].phase = "idle"
      BY <2>3 DEF LoadReturns, NotReading
    <3>2. LoadEnds(p) \/ Restarts(p)
      <4>1. ASSUME NEW q \in Procs,
                   StartsLoad(q) \/ LoadHitsShared(q) \/ LoadMissesShared(q) \/ RowRead(q)
                   \/ RowFails(q) \/ LoadSetsShared(q) \/ LoadSetLost(q) \/ LoadEnds(q)
                   \/ Restarts(q)
            PROVE  LoadEnds(p) \/ Restarts(p)
        BY <2>1, <3>1, <4>1
        DEF StartsLoad, LoadHitsShared, LoadMissesShared, RowRead, RowFails,
            LoadSetsShared, LoadSetLost, LoadEnds, Restarts, TieredTypeOK
      <4>2. ASSUME NEW q \in Procs, DeletesLocal(q) PROVE FALSE
        BY <2>1, <3>1, <4>2 DEF DeletesLocal, TieredTypeOK, Reads
      <4>3. loading' # loading
        BY <3>1
      <4>4. QED
        BY <4>1, <4>2, <4>3, ProcsAssumption
        DEF TieredNext, StartsPeek, PeekAnswered, PeekMisses, Promotes,
            Saves, DeletesShared, DeleteLost, SweepsLocal, ClockTicks
    <3>3. CASE LoadEnds(p)
      <4>1. loading[p].value \in Nat /\ MarkBehind(l1[p], loading[p])
        BY <2>1, <2>3, <3>1 DEF MarkedAt, Got, Reading
      <4>2. l1'[p] = FinishLoad(StoreAnswer(l1[p], Guild, loading[p].mark, loading[p].value, clock), Guild)
        BY <2>1, <3>3 DEF LoadEnds, TieredTypeOK
      <4>3. l1'[p] = FinishLoad(l1[p], Guild)
        BY <2>2, <2>3, <4>1, <4>2
      <4>4. QED
        BY <2>1, <4>3, LocalFinish DEF StoresNothing
    <3>4. CASE Restarts(p)
      BY <2>1, <3>4, LocalEmpty DEF Restarts, StoresNothing, TieredTypeOK
    <3>5. QED
      BY <3>2, <3>3, <3>4
  <2>4. CASE PeekReturns(p) /\ peeking[p].outdated /\ ~ peeking[p].forgotten
    <3>1. peeking[p].phase = "answered" /\ peeking'[p].phase = "idle"
      BY <2>4 DEF PeekReturns, NotReading
    <3>2. Promotes(p) \/ Restarts(p)
      <4>1. ASSUME NEW q \in Procs,
                   StartsPeek(q) \/ PeekAnswered(q) \/ PeekMisses(q) \/ Promotes(q)
                   \/ Restarts(q)
            PROVE  Promotes(p) \/ Restarts(p)
        BY <2>1, <3>1, <4>1
        DEF StartsPeek, PeekAnswered, PeekMisses, Promotes, Restarts, TieredTypeOK
      <4>2. ASSUME NEW q \in Procs, DeletesLocal(q) \/ SweepsLocal(q) PROVE FALSE
        <5>1. CASE DeletesLocal(q)
          BY <2>1, <3>1, <5>1 DEF DeletesLocal, TieredTypeOK, Reads
        <5>2. CASE SweepsLocal(q)
          BY <2>1, <3>1, <5>2 DEF SweepsLocal, TieredTypeOK, Reads
        <5>3. QED
          BY <4>2, <5>1, <5>2
      <4>3. peeking' # peeking
        BY <3>1
      <4>4. QED
        BY <4>1, <4>2, <4>3, ProcsAssumption
        DEF TieredNext, StartsLoad, LoadHitsShared, LoadMissesShared, RowRead, RowFails,
            LoadSetsShared, LoadSetLost, LoadEnds, Saves, DeletesShared, DeleteLost, ClockTicks
    <3>3. CASE Promotes(p)
      <4>1. peeking[p].value \in Nat /\ MarkBehind(l1[p], peeking[p])
        BY <2>1, <2>4, <3>1 DEF MarkedAt, Got, Reading
      <4>2. l1'[p] = StoreAnswer(l1[p], Guild, peeking[p].mark, peeking[p].value, clock)
        BY <2>1, <3>3 DEF Promotes, TieredTypeOK
      <4>3. l1'[p] = l1[p]
        BY <2>2, <2>4, <4>1, <4>2
      <4>4. QED
        BY <4>3 DEF StoresNothing
    <3>4. CASE Restarts(p)
      BY <2>1, <3>4, LocalEmpty DEF Restarts, StoresNothing, TieredTypeOK
    <3>5. QED
      BY <3>2, <3>3, <3>4
  <2>5. QED
    BY <2>3, <2>4
<1>2. QED
  BY <1>1, TieredInvariance, PTL DEF TieredSpec, NothingOutdatedIsStored
=============================================================================
