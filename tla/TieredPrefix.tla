---------------------------- MODULE TieredPrefix ----------------------------
(***************************************************************************)
(* One guild's prefix behind platform/cache/tiered.cache.ts: several       *)
(* instances of the bot, each with its own MemoryCache as L1, one Redis as *)
(* L2, and the database.  L1 guards what it stores with a mark; Redis has  *)
(* no such guard.                                                          *)
(*                                                                         *)
(* A Redis command takes effect at one moment and is answered later; an    *)
(* outage turns a read into a miss and loses a write.  A process runs one  *)
(* load of the key at a time (GuildPrefix, SingleFlight), so a load is     *)
(* named by its process; `get`, which starts no load, is a peek.  What the *)
(* module shares with GuildPrefix has a name of its own, so that the proofs*)
(* of the two can stand side by side over one MemoryCache.                 *)
(***************************************************************************)
EXTENDS MemoryCache

CONSTANTS
    Procs,          \* instances of the bot
    Guild,
    WritingProcs, PeekingProcs,   \* the instances that write the prefix, that use `get`
    LoadMs,         \* the longest a load or a peek takes
    MayFail,        \* whether Redis fails and instances crash
    MaxWrites,      \* bound: writes
    MaxClock        \* bound: the clock

ASSUME GuildAssumption == Guild \in Keys
ASSUME ProcsAssumption == None \notin Procs /\ WritingProcs \cup PeekingProcs \subseteq Procs
ASSUME TimesAssumption == LoadMs \in Nat \ {0} /\ MayFail \in BOOLEAN
ASSUME WritesAssumption == {MaxWrites, MaxClock} \subseteq Nat

VARIABLES
    row,            \* the row's version: how many writes it has seen
    l1,             \* l1[p]: p's MemoryCache
    l2,             \* the entry in Redis, or None
    loading,        \* loading[p]: p's getOrLoad, through both tiers
    peeking,        \* peeking[p]: p's TieredCache.get
    saving,         \* saving[p]: where p is in save-then-invalidate
    supersededAt,   \* history: when each version stopped being the row
    lastWriter,     \* history: the instance that wrote the row last
    raced,          \* history: a read overlapped a write, or a step was lost
    clock

tieredVars == <<row, l1, l2, loading, peeking, saving, supersededAt, lastWriter, raced, clock>>

\* `outdated` and `forgotten` are history: since the read began, its process
\* has invalidated the key, its sweep has forgotten the key's generation.
NotReading ==
    [ phase |-> "idle", mark |-> None, value |-> None, startedAt |-> 0,
      outdated |-> FALSE, forgotten |-> FALSE ]

Begun(p, phase) ==
    [NotReading EXCEPT !.phase = phase, !.mark = MarkLoad(l1[p], Guild), !.startedAt = clock]

TieredInit ==
    /\ row = 0
    /\ l1 = [p \in Procs |-> EmptyCache]
    /\ l2 = None
    /\ loading = [p \in Procs |-> NotReading]
    /\ peeking = [p \in Procs |-> NotReading]
    /\ saving = [p \in Procs |-> "idle"]
    /\ supersededAt = [v \in 0..MaxWrites |-> None]
    /\ lastWriter = None
    /\ raced = FALSE
    /\ clock = 0

-----------------------------------------------------------------------------
(* platform/cache/redis.cache.ts                                           *)

HitShared == l2 # None /\ l2.expiresAt > clock

\* Mutant of Shared: SET without PX.
SharedForEver(v) == [value |-> v, expiresAt |-> MaxClock + 1]

Shared(v) == EntryOf(v, clock)

Reading(x) == x.phase # "idle"
Writing(p) == saving[p] # "idle"

\* A read that begins while a write is under way anywhere.
RacesAWrite == raced \/ \E p \in Procs : Writing(p)

-----------------------------------------------------------------------------
(* getOrLoad: L1, then Redis, then the row.                                *)

StartsLoad(p) ==
    /\ loading[p].phase = "idle"
    /\ ~ Hit(l1[p], Guild, clock)
    /\ l1' = [l1 EXCEPT ![p] = BeginLoad(@, Guild, p)]
    /\ loading' = [loading EXCEPT ![p] = Begun(p, "asked")]
    /\ raced' = RacesAWrite
    /\ UNCHANGED <<row, l2, peeking, saving, supersededAt, lastWriter, clock>>

LoadHitsShared(p) ==
    /\ loading[p].phase = "asked"
    /\ HitShared
    /\ loading' = [loading EXCEPT ![p].phase = "answered", ![p].value = l2.value]
    /\ UNCHANGED <<row, l1, l2, peeking, saving, supersededAt, lastWriter, raced, clock>>

\* A Redis that cannot be read is a miss.
LoadMissesShared(p) ==
    /\ loading[p].phase = "asked"
    /\ ~ HitShared \/ MayFail
    /\ loading' = [loading EXCEPT ![p].phase = "querying"]
    /\ UNCHANGED <<row, l1, l2, peeking, saving, supersededAt, lastWriter, raced, clock>>

RowRead(p) ==
    /\ loading[p].phase = "querying"
    /\ loading' = [loading EXCEPT ![p].phase = "read", ![p].value = row]
    /\ UNCHANGED <<row, l1, l2, peeking, saving, supersededAt, lastWriter, raced, clock>>

RowFails(p) ==
    /\ loading[p].phase = "querying"
    /\ l1' = [l1 EXCEPT ![p] = FinishLoad(@, Guild)]
    /\ loading' = [loading EXCEPT ![p] = NotReading]
    /\ UNCHANGED <<row, l2, peeking, saving, supersededAt, lastWriter, raced, clock>>

LoadSetsShared(p) ==
    /\ loading[p].phase = "read"
    /\ l2' = Shared(loading[p].value)
    /\ loading' = [loading EXCEPT ![p].phase = "answered"]
    /\ UNCHANGED <<row, l1, peeking, saving, supersededAt, lastWriter, raced, clock>>

LoadSetLost(p) ==
    /\ MayFail
    /\ loading[p].phase = "read"
    /\ loading' = [loading EXCEPT ![p].phase = "answered"]
    /\ UNCHANGED <<row, l1, l2, peeking, saving, supersededAt, lastWriter, raced, clock>>

\* The guarded store, and the `finally`.
LoadEnds(p) ==
    /\ loading[p].phase = "answered"
    /\ l1' = [l1 EXCEPT ![p] =
                FinishLoad(StoreAnswer(@, Guild, loading[p].mark, loading[p].value, clock), Guild)]
    /\ loading' = [loading EXCEPT ![p] = NotReading]
    /\ UNCHANGED <<row, l2, peeking, saving, supersededAt, lastWriter, raced, clock>>

-----------------------------------------------------------------------------
(* get: marked, then L1, then Redis, then promoted if the mark still holds *)

StartsPeek(p) ==
    /\ peeking[p].phase = "idle"
    /\ ~ Hit(l1[p], Guild, clock)
    /\ l1' = [l1 EXCEPT ![p] = Evict(@, Guild)]
    /\ peeking' = [peeking EXCEPT ![p] = Begun(p, "asked")]
    /\ raced' = RacesAWrite
    /\ UNCHANGED <<row, l2, loading, saving, supersededAt, lastWriter, clock>>

PeekAnswered(p) ==
    /\ peeking[p].phase = "asked"
    /\ HitShared
    /\ peeking' = [peeking EXCEPT ![p].phase = "answered", ![p].value = l2.value]
    /\ UNCHANGED <<row, l1, l2, loading, saving, supersededAt, lastWriter, raced, clock>>

PeekMisses(p) ==
    /\ peeking[p].phase = "asked"
    /\ ~ HitShared \/ MayFail
    /\ peeking' = [peeking EXCEPT ![p] = NotReading]
    /\ UNCHANGED <<row, l1, l2, loading, saving, supersededAt, lastWriter, raced, clock>>

Promotes(p) ==
    /\ peeking[p].phase = "answered"
    /\ l1' = [l1 EXCEPT ![p] = StoreAnswer(@, Guild, peeking[p].mark, peeking[p].value, clock)]
    /\ peeking' = [peeking EXCEPT ![p] = NotReading]
    /\ UNCHANGED <<row, l2, loading, saving, supersededAt, lastWriter, raced, clock>>

-----------------------------------------------------------------------------
(* Writing: the row, then both tiers.  Promise.all empties L1 at once and  *)
(* sends the DEL.                                                          *)

Saves(p) ==
    /\ saving[p] = "idle"
    /\ row < MaxWrites
    /\ row' = row + 1
    /\ supersededAt' = [supersededAt EXCEPT ![row] = clock]
    /\ lastWriter' = p
    /\ saving' = [saving EXCEPT ![p] = "saved"]
    /\ raced' = (RacesAWrite \/ \E q \in Procs : Reading(loading[q]) \/ Reading(peeking[q]))
    /\ UNCHANGED <<l1, l2, loading, peeking, clock>>

DeletesLocal(p) ==
    /\ saving[p] = "saved"
    /\ l1' = [l1 EXCEPT ![p] = Delete(@, Guild, clock)]
    /\ loading' = [loading EXCEPT ![p].outdated = Reading(loading[p])]
    /\ peeking' = [peeking EXCEPT ![p].outdated = Reading(peeking[p])]
    /\ saving' = [saving EXCEPT ![p] = "deleting"]
    /\ UNCHANGED <<row, l2, supersededAt, lastWriter, raced, clock>>

DeletesShared(p) ==
    /\ saving[p] = "deleting"
    /\ l2' = None
    /\ saving' = [saving EXCEPT ![p] = "idle"]
    /\ UNCHANGED <<row, l1, loading, peeking, supersededAt, lastWriter, raced, clock>>

\* "A failed invalidation is the one failure that is not harmless."
DeleteLost(p) ==
    /\ MayFail
    /\ saving[p] = "deleting"
    /\ saving' = [saving EXCEPT ![p] = "idle"]
    /\ raced' = TRUE
    /\ UNCHANGED <<row, l1, l2, loading, peeking, supersededAt, lastWriter, clock>>

\* A crash forgets L1 and whatever the process was in the middle of.
Restarts(p) ==
    /\ MayFail
    /\ l1' = [l1 EXCEPT ![p] = EmptyCache]
    /\ loading' = [loading EXCEPT ![p] = NotReading]
    /\ peeking' = [peeking EXCEPT ![p] = NotReading]
    /\ saving' = [saving EXCEPT ![p] = "idle"]
    /\ raced' = (raced \/ Writing(p))
    /\ UNCHANGED <<row, l2, supersededAt, lastWriter, clock>>

SweepsLocal(p) ==
    /\ l1' = [l1 EXCEPT ![p] = SweepCache(@, clock)]
    /\ peeking' = [peeking EXCEPT ![p].forgotten =
                        @ \/ (Reading(peeking[p]) /\ Forgettable(l1[p], Guild, clock))]
    /\ UNCHANGED <<row, l2, loading, saving, supersededAt, lastWriter, raced, clock>>

Overdue(x) == Reading(x) /\ clock - x.startedAt >= LoadMs

\* Time does not pass a read that has to have been answered.
ClockTicks ==
    /\ clock < MaxClock
    /\ \A p \in Procs : ~ Overdue(loading[p]) /\ ~ Overdue(peeking[p])
    /\ clock' = clock + 1
    /\ UNCHANGED <<row, l1, l2, loading, peeking, saving, supersededAt, lastWriter, raced>>

TieredNext ==
    \/ \E p \in Procs : StartsLoad(p) \/ LoadHitsShared(p) \/ LoadMissesShared(p)
            \/ RowRead(p) \/ RowFails(p) \/ LoadSetsShared(p) \/ LoadSetLost(p) \/ LoadEnds(p)
    \/ \E p \in PeekingProcs : StartsPeek(p) \/ PeekAnswered(p) \/ PeekMisses(p) \/ Promotes(p)
    \/ \E p \in WritingProcs : Saves(p) \/ DeletesLocal(p) \/ DeletesShared(p) \/ DeleteLost(p)
    \/ \E p \in Procs : Restarts(p) \/ SweepsLocal(p)
    \/ ClockTicks

TieredSpec == TieredInit /\ [][TieredNext]_tieredVars

-----------------------------------------------------------------------------
SharedEntries == [value : Nat, expiresAt : Nat]
ReadMarks == [generation : Nat, clears : Nat]

LocalCaches ==
    [ entries     : [Keys -> SharedEntries \cup {None}],
      inFlight    : [Keys -> Procs \cup {None}],
      generations : [Keys -> Nat],
      bumpedAt    : [Keys -> Nat \cup {None}],
      cleared     : Nat ]

Reads ==
    [ phase : {"idle", "asked", "querying", "read", "answered"},
      mark : ReadMarks \cup {None}, value : Nat \cup {None}, startedAt : Nat,
      outdated : BOOLEAN, forgotten : BOOLEAN ]

TieredTypeOK ==
    /\ row \in 0..MaxWrites /\ clock \in Nat /\ raced \in BOOLEAN
    /\ l1 \in [Procs -> LocalCaches]
    /\ l2 \in SharedEntries \cup {None}
    /\ loading \in [Procs -> Reads] /\ peeking \in [Procs -> Reads]
    /\ saving \in [Procs -> {"idle", "saved", "deleting"}]
    /\ supersededAt \in [0..MaxWrites -> Nat \cup {None}]
    /\ lastWriter \in Procs \cup {None}

\* A version that is no longer the row, and for how long.
Stale(v, age) == v # row /\ clock - supersededAt[v] >= age

Serves(p, v) == Hit(l1[p], Guild, clock) /\ l1[p].entries[Guild].value = v

\* The wrong prefix is never wrong for long: whatever races, is lost or
\* crashes, no tier of any instance serves a version that was replaced more
\* than two TTLs and two reads ago, one for each tier it can be copied through,
\* less the moment of expiry, at which an entry is not served any more
\* (get-guild-prefix.usecase.ts:19-22, tiered.cache.ts:12-17).
BoundedStaleness ==
    /\ TieredTypeOK
    /\ \A v \in 0..MaxWrites :
        (\E p \in Procs : Serves(p, v)) \/ (HitShared /\ l2.value = v)
            => ~ Stale(v, 2 * (TtlMs + LoadMs) - 1)

\* Without a read beside a write, and without a lost step, an announced write
\* is seen at once by the shared tier and by the instance that wrote, and by
\* the others as soon as their own entry expires (tiered.cache.ts:12-14).
ExactWithoutRaces ==
    ~ raced /\ (\A p \in Procs : ~ Writing(p)) =>
        /\ HitShared => l2.value = row
        /\ \A p \in Procs, v \in 0..MaxWrites :
                Serves(p, v) => v = row \/ (p # lastWriter /\ ~ Stale(v, TtlMs))

LoadReturns(p) == loading[p].phase = "answered" /\ loading'[p] = NotReading
PeekReturns(p) == peeking[p].phase = "answered" /\ peeking'[p] = NotReading

StoresNothing(p) == l1'[p].entries[Guild] \in {l1[p].entries[Guild], None}

\* Nothing is put into an instance's L1 that was asked for before that
\* instance's last invalidation: not by a load, whatever the sweep does, and
\* not by a promotion during which the sweep has not forgotten the key's
\* generation (tiered.cache.ts:36-43, memory.cache.ts:219-234).
NothingOutdatedIsStored ==
    [][\A p \in Procs :
        ( \/ LoadReturns(p) /\ loading[p].outdated
          \/ PeekReturns(p) /\ peeking[p].outdated /\ ~ peeking[p].forgotten )
        => StoresNothing(p)]_tieredVars

\* "Ten minutes is far past either, so forgetting a counter that old cannot let
\* a stale answer be written back" (memory.cache.ts:20-22): no promotion is
\* stored after an invalidation, whatever the sweep has forgotten.
ForgettingIsHarmless ==
    [][\A p \in Procs : PeekReturns(p) /\ peeking[p].outdated => StoresNothing(p)]_tieredVars
=============================================================================
