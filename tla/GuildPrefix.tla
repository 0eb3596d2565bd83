---------------------------- MODULE GuildPrefix ----------------------------
(***************************************************************************)
(* features/guild/prefix over one process's MemoryCache: every message     *)
(* reads its guild's prefix through getOrLoad, `/prefix set` and           *)
(* `/prefix reset` write the row and then invalidate.                      *)
(*                                                                         *)
(* A row is abstracted to its version, the number of writes the database   *)
(* has committed to it: two prefixes are told apart by when they were      *)
(* written, never by their text.  A reader that starts a load is also the  *)
(* name of that load, since it starts no other until this one has settled. *)
(***************************************************************************)
EXTENDS MemoryCache

CONSTANTS
    Readers,        \* messages asking for a prefix
    Writers,        \* /prefix set and /prefix reset commands
    MaxVersion,     \* bound: writes per guild
    MaxClears,      \* bound: clears of the namespace
    MaxNow          \* bound: the clock

ASSUME ReadersAssumption == None \notin Readers
ASSUME BoundsAssumption == {MaxVersion, MaxClears, MaxNow} \subseteq Nat

VARIABLES
    db,             \* db[k]: the version of guild k's row
    cache,          \* the process's MemoryCache
    load,           \* load[r]: the load r started, if it has not finished
    waitingOn,      \* waitingOn[s]: the load whose promise s awaits
    writer,         \* writer[w]: where w is in save-then-invalidate
    lostAck,        \* lostAck[k]: a committed save was reported as failed
    lastAnswer,     \* history: the version last given to a reader of k
    now,
    stopped

vars == <<db, cache, load, waitingOn, writer, lostAck, lastAnswer, now, stopped>>

Idle == [phase |-> "idle", key |-> None, mark |-> None, value |-> None]

Init ==
    /\ db = [k \in Keys |-> 0]
    /\ cache = EmptyCache
    /\ load = [r \in Readers |-> Idle]
    /\ waitingOn = [r \in Readers |-> None]
    /\ writer = [w \in Writers |-> None]
    /\ lostAck = [k \in Keys |-> FALSE]
    /\ lastAnswer = [k \in Keys |-> 0]
    /\ now = 0
    /\ stopped = FALSE

-----------------------------------------------------------------------------
(* Reading: GetGuildPrefixUseCase.execute, through MemoryCache.getOrLoad.  *)

Asks(r) == load[r].phase = "idle" /\ waitingOn[r] = None

ReadHit(r, k) ==
    /\ Asks(r)
    /\ Hit(cache, k, now)
    /\ lastAnswer' = [lastAnswer EXCEPT ![k] = cache.entries[k].value]
    /\ UNCHANGED <<db, cache, load, waitingOn, writer, lostAck, now, stopped>>

\* An expired entry is dropped before the in-flight load is looked for.
ReadJoins(r, k) ==
    /\ Asks(r)
    /\ ~ Hit(cache, k, now)
    /\ cache.inFlight[k] # None
    /\ cache' = Evict(cache, k)
    /\ waitingOn' = [waitingOn EXCEPT ![r] = cache.inFlight[k]]
    /\ UNCHANGED <<db, load, writer, lostAck, lastAnswer, now, stopped>>

ReadStartsLoad(r, k) ==
    /\ Asks(r)
    /\ ~ Hit(cache, k, now)
    /\ cache.inFlight[k] = None
    /\ cache' = BeginLoad(cache, k, r)
    /\ load' = [load EXCEPT ![r] =
                    [phase |-> "querying", key |-> k,
                     mark |-> MarkLoad(cache, k), value |-> None]]
    /\ waitingOn' = [waitingOn EXCEPT ![r] = r]
    /\ UNCHANGED <<db, writer, lostAck, lastAnswer, now, stopped>>

\* The SELECT sees the row as it is at one moment of the query.
LoadReads(r) ==
    /\ load[r].phase = "querying"
    /\ load' = [load EXCEPT ![r].phase = "read", ![r].value = db[load[r].key]]
    /\ UNCHANGED <<db, cache, waitingOn, writer, lostAck, lastAnswer, now, stopped>>

LoadFails(r) ==
    /\ load[r].phase = "querying"
    /\ load' = [load EXCEPT ![r].phase = "failed"]
    /\ UNCHANGED <<db, cache, waitingOn, writer, lostAck, lastAnswer, now, stopped>>

LoadStores(r) ==
    /\ load[r].phase = "read"
    /\ cache' = StoreAnswer(cache, load[r].key, load[r].mark, load[r].value, now)
    /\ load' = [load EXCEPT ![r].phase = "settled"]
    /\ UNCHANGED <<db, waitingOn, writer, lostAck, lastAnswer, now, stopped>>

\* The `finally`, after which every caller of the shared promise resumes.
LoadFinishes(r) ==
    /\ load[r].phase \in {"settled", "failed"}
    /\ cache' = FinishLoad(cache, load[r].key)
    /\ lastAnswer' = IF load[r].phase = "settled"
                     THEN [lastAnswer EXCEPT ![load[r].key] = load[r].value]
                     ELSE lastAnswer
    /\ waitingOn' = [s \in Readers |-> IF waitingOn[s] = r THEN None ELSE waitingOn[s]]
    /\ load' = [load EXCEPT ![r] = Idle]
    /\ UNCHANGED <<db, writer, lostAck, now, stopped>>

-----------------------------------------------------------------------------
(* Writing: SetGuildPrefixUseCase.set and .clear.  A refused prefix        *)
(* returns before the statement and changes nothing.                       *)

SaveCommits(w, k) ==
    /\ writer[w] = None
    /\ db[k] < MaxVersion
    /\ db' = [db EXCEPT ![k] = @ + 1]
    /\ writer' = [writer EXCEPT ![w] = k]
    /\ UNCHANGED <<cache, load, waitingOn, lostAck, lastAnswer, now, stopped>>

\* The connection is lost after the commit: the save throws, and the
\* invalidation after it never runs.
SaveLosesAck(w, k) ==
    /\ writer[w] = None
    /\ db[k] < MaxVersion
    /\ db' = [db EXCEPT ![k] = @ + 1]
    /\ lostAck' = [lostAck EXCEPT ![k] = TRUE]
    /\ UNCHANGED <<cache, load, waitingOn, writer, lastAnswer, now, stopped>>

Invalidates(w) ==
    /\ writer[w] # None
    /\ cache' = Delete(cache, writer[w], now)
    /\ lostAck' = [lostAck EXCEPT ![writer[w]] = FALSE]
    /\ writer' = [writer EXCEPT ![w] = None]
    /\ UNCHANGED <<db, load, waitingOn, lastAnswer, now, stopped>>

-----------------------------------------------------------------------------
(* The cache's own operations, and the clock. *)

ClearsNamespace ==
    /\ cache.cleared < MaxClears
    /\ cache' = Clear(cache)
    /\ lostAck' = [k \in Keys |-> FALSE]
    /\ UNCHANGED <<db, load, waitingOn, writer, lastAnswer, now, stopped>>

Sweeps ==
    /\ ~ stopped
    /\ cache' = SweepCache(cache, now)
    /\ UNCHANGED <<db, load, waitingOn, writer, lostAck, lastAnswer, now, stopped>>

\* Shutdown stops the cache without waiting for the handlers still running.
Stops ==
    /\ ~ stopped
    /\ stopped' = TRUE
    /\ cache' = StopCache(cache)
    /\ UNCHANGED <<db, load, waitingOn, writer, lostAck, lastAnswer, now>>

Tick ==
    /\ now < MaxNow
    /\ now' = now + 1
    /\ UNCHANGED <<db, cache, load, waitingOn, writer, lostAck, lastAnswer, stopped>>

LoadSteps(r) == LoadReads(r) \/ LoadFails(r) \/ LoadStores(r) \/ LoadFinishes(r)

Next ==
    \/ \E r \in Readers, k \in Keys :
            ReadHit(r, k) \/ ReadJoins(r, k) \/ ReadStartsLoad(r, k)
    \/ \E r \in Readers : LoadSteps(r)
    \/ \E w \in Writers, k \in Keys : SaveCommits(w, k) \/ SaveLosesAck(w, k)
    \/ \E w \in Writers : Invalidates(w)
    \/ ClearsNamespace
    \/ Sweeps
    \/ Stops
    \/ Tick

\* A query settles, by its answer or by the database's own timeouts, and a
\* settled promise runs its continuations.  Nothing makes a caller come.
Fairness == \A r \in Readers : WF_vars(LoadSteps(r))

Spec == Init /\ [][Next]_vars

FairSpec == Spec /\ Fairness

-----------------------------------------------------------------------------
Entries == [value : Nat, expiresAt : Nat]
Marks == [generation : Nat, clears : Nat]

LoadStates ==
    [ phase : {"idle", "querying", "read", "settled", "failed"},
      key   : Keys \cup {None},
      mark  : Marks \cup {None},
      value : Nat \cup {None} ]

Caches ==
    [ entries     : [Keys -> Entries \cup {None}],
      inFlight    : [Keys -> Readers \cup {None}],
      generations : [Keys -> Nat],
      bumpedAt    : [Keys -> Nat \cup {None}],
      cleared     : Nat ]

\* Every variable, the cache's five maps and each load among them, keeps the
\* shape the class declares for it.
TypeOK ==
    /\ db \in [Keys -> Nat]
    /\ cache \in Caches
    /\ load \in [Readers -> LoadStates]
    /\ waitingOn \in [Readers -> Readers \cup {None}]
    /\ writer \in [Writers -> Keys \cup {None}]
    /\ lostAck \in [Keys -> BOOLEAN]
    /\ lastAnswer \in [Keys -> Nat]
    /\ now \in Nat
    /\ stopped \in BOOLEAN

Running(r) == load[r].phase # "idle"

\* A committed write the cache has not been told of yet.
Unannounced(k) == lostAck[k] \/ \E w \in Writers : writer[w] = k

\* Once every committed write of a guild has invalidated, the entry, if there
\* is one, is the row: no load that began before an invalidation puts the old
\* prefix back, however its query, the invalidation, the sweep and the
\* forgetting of generations interleave (memory.cache.ts:153-160).
CacheCoherent ==
    ~ stopped =>
        \A k \in Keys :
            ~ Unannounced(k) /\ cache.entries[k] # None
                => cache.entries[k].value = db[k]

\* Concurrent misses on one guild share one database read
\* (get-guild-prefix.usecase.ts:34-35).
SingleFlight ==
    ~ stopped =>
        \A r, s \in Readers :
            Running(r) /\ Running(s) /\ load[r].key = load[s].key => r = s

\* The prefix the process acts on never goes back to an older one: not from
\* a slow load, a joined load or a load whose answer was not stored.
AnswersNeverGoBack ==
    [][~ stopped' => \A k \in Keys : lastAnswer'[k] >= lastAnswer[k]]_vars

\* Every caller of getOrLoad is answered, the ones who joined another
\* caller's load and the ones whose load failed too.
EveryReadSettles ==
    \A r \in Readers : waitingOn[r] # None ~> waitingOn[r] = None
=============================================================================
