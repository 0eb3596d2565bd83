---------------------------- MODULE MemoryCache ----------------------------
(***************************************************************************)
(* platform/cache/memory.cache.ts: the in-process cache, for one           *)
(* namespace.  A cache is a record with the class's maps as fields, and    *)
(* each method is an operator from a cache to the cache it leaves behind,  *)
(* so that a module can hold one cache (GuildPrefix, WelcomeSettings) or   *)
(* one per process (TieredPrefix).  A method runs to its end without       *)
(* awaiting, which is what makes one operator one step.                    *)
(*                                                                         *)
(* Counters default to 0 in the code (`?? 0`), so a key without a          *)
(* generation is a key whose generation is 0; metrics are left out.        *)
(***************************************************************************)
EXTENDS Integers

CONSTANTS
    Keys,               \* ids cached in the namespace (guilds)
    None,               \* no entry, no load, no bump
    TtlMs,              \* CacheNamespace.ttlMs
    GenerationKeepMs    \* GENERATION_KEEP_MS

ASSUME KeysAssumption == None \notin Keys
ASSUME TtlAssumption == TtlMs \in Nat \ {0}
ASSUME KeepAssumption == GenerationKeepMs \in Nat \ {0}

EmptyCache ==
    [ entries     |-> [k \in Keys |-> None],
      inFlight    |-> [k \in Keys |-> None],
      generations |-> [k \in Keys |-> 0],
      bumpedAt    |-> [k \in Keys |-> None],
      cleared     |-> 0 ]

-----------------------------------------------------------------------------
(* Entries. *)

EntryOf(value, now) == [value |-> value, expiresAt |-> now + TtlMs]

\* An entry read at `now` is a hit: present, and not yet at its expiry.
Hit(c, k, now) == c.entries[k] # None /\ c.entries[k].expiresAt > now

Put(c, k, value, now) == [c EXCEPT !.entries[k] = EntryOf(value, now)]

Evict(c, k) == [c EXCEPT !.entries[k] = None]

-----------------------------------------------------------------------------
(* Invalidation: `delete` bumps the key, `clear` the namespace. *)

Bump(c, k, now) ==
    [c EXCEPT !.generations[k] = @ + 1, !.bumpedAt[k] = now]

\* Mutants of Delete: the entry stays where it is; the running load is forgotten along with the entry.
DeleteKeepsEntry(c, k, now) == Bump(c, k, now)

DeleteWithLoad(c, k, now) == [Bump(Evict(c, k), k, now) EXCEPT !.inFlight[k] = None]

Delete(c, k, now) == Bump(Evict(c, k), k, now)

Clear(c) == [c EXCEPT !.entries = [k \in Keys |-> None], !.cleared = @ + 1]

-----------------------------------------------------------------------------
(* Loads.  A load takes a mark, and its answer is stored only if the mark  *)
(* is still current when it arrives.                                       *)

\* Mutant of MarkLoad: the `?? 0` of a key that was never bumped is missing.
MarkLoadUndefaulted(c, k) ==
    [ generation |-> IF c.bumpedAt[k] = None THEN None ELSE c.generations[k],
      clears     |-> c.cleared ]

MarkLoad(c, k) == [generation |-> c.generations[k], clears |-> c.cleared]

IsCurrent(c, k, mark) ==
    /\ c.generations[k] = mark.generation
    /\ c.cleared = mark.clears

\* Mutant of BeginLoad: the promise is not kept in the in-flight map.
BeginLoadUnshared(c, k, load) == Evict(c, k)

BeginLoad(c, k, load) == [Evict(c, k) EXCEPT !.inFlight[k] = load]

\* Mutant of StoreAnswer: the answer is stored whatever happened meanwhile.
StoreAnswerAlways(c, k, mark, value, now) == Put(c, k, value, now)

\* The guard of the store in getOrLoad's `then`.
StoreAnswer(c, k, mark, value, now) ==
    IF IsCurrent(c, k, mark) THEN Put(c, k, value, now) ELSE c

\* Mutant of FinishLoad: the settled promise stays in the in-flight map.
FinishLoadForgotten(c, k) == c

\* getOrLoad's `finally`: on success and on failure alike.
FinishLoad(c, k) == [c EXCEPT !.inFlight[k] = None]

-----------------------------------------------------------------------------
(* The sweep: expired entries go, and so do generations that no load can   *)
(* still be compared against.                                              *)

Forgettable(c, k, now) ==
    /\ c.bumpedAt[k] # None
    /\ now - c.bumpedAt[k] >= GenerationKeepMs
    /\ c.inFlight[k] = None

SweepCache(c, now) ==
    [c EXCEPT
        !.entries     = [k \in Keys |-> IF Hit(c, k, now) THEN c.entries[k] ELSE None],
        !.generations = [k \in Keys |-> IF Forgettable(c, k, now) THEN 0 ELSE c.generations[k]],
        !.bumpedAt    = [k \in Keys |-> IF Forgettable(c, k, now) THEN None ELSE c.bumpedAt[k]]]

\* stop() drops every map, with loads possibly still running.
StopCache(c) == EmptyCache
=============================================================================
