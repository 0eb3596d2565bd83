-------------------------- MODULE WelcomeSettings --------------------------
(***************************************************************************)
(* features/guild/welcome over one process's MemoryCache, for one guild:   *)
(* `/welcome message`, `/welcome channel`, the editor's forms and          *)
(* `/welcome reset` change the settings through ConfigureWelcomeUseCase,   *)
(* and every join and every panel reads them.  A change reads the settings *)
(* through the cache, commits the whole row and then writes the row        *)
(* through to the cache; unlike GuildPrefix nothing bumps the key.         *)
(*                                                                         *)
(* The save goes to the server once per attempt.  When the connection of   *)
(* an attempt breaks, the server may have run it, may run it at any later  *)
(* moment -- after the retry was acknowledged, after the change of someone *)
(* else -- or never: the attempt becomes an orphan, and an orphan may      *)
(* land.  One that ran before the break is one that landed before anything *)
(* else happened, since the client cannot tell the two apart.              *)
(*                                                                         *)
(* A message and a channel are members of small sets, None the empty one.  *)
(* A message the domain refuses returns before anything is read, and       *)
(* changes nothing.                                                        *)
(***************************************************************************)
EXTENDS MemoryCache

CONSTANTS
    Guild,
    Ops,            \* the commands, clicks and joins; each runs once
    Messages, Channels,
    MaxAttempts,    \* RetryLimits.maxAttempts
    MaxNow          \* bound: the clock

ASSUME GuildAssumption == Guild \in Keys
ASSUME SettingsAssumption == None \notin Messages \cup Channels
ASSUME OpsAssumption == None \notin Ops
ASSUME BoundsAssumption == MaxAttempts \in Nat \ {0} /\ MaxNow \in Nat

VARIABLES
    row,            \* the guild's row of welcome_settings, None before the first
    cache,
    op,             \* op[o]: where o is, and the settings it carries
    load,           \* load[o]: the load o started, if it has not finished
    orphans,        \* <<o, n>>: the n-th attempt of o's save, whose connection broke
    saved,          \* history: every row that was ever committed
    greeted,        \* history: the settings greetings were composed from
    intended,       \* history: the changes, applied one after the other
    overlapped,     \* history: a row was committed beside another operation
    lostAck,        \* history: a committed change was reported as failed
    overtaken,      \* history: the orphans a later commit has left behind
    straggled,      \* history: one of them landed
    now

history == <<saved, greeted, intended, overlapped, lostAck, overtaken, straggled>>
vars == <<row, cache, op, load, orphans, history, now>>

-----------------------------------------------------------------------------
(* domain/welcome.rules.ts                                                 *)

\* Mutant of IsReady: a channel is enough.
HasChannel(s) == s.channel # None

IsReady(s) == s.message # None /\ s.channel # None

EmptySettings == [message |-> None, channel |-> None, enabled |-> FALSE]

Settled(s) == [s EXCEPT !.enabled = IsReady(s)]

Kinds == {"message", "channel", "reset", "join", "view"}
ChangeKinds == {"message", "channel", "reset"}

\* What each change makes of the settings it read; reset reads none.
Change(kind, to, s) ==
    CASE kind = "message" -> Settled([s EXCEPT !.message = to])
      [] kind = "channel" -> Settled([s EXCEPT !.channel = to])
      [] OTHER            -> EmptySettings

Idle == [phase |-> "idle", mark |-> None, value |-> None]

Begun(o, kind, to) == [phase |-> "new", kind |-> kind, to |-> to, load |-> None,
                       value |-> EmptySettings, attempt |-> 1, ran |-> FALSE]

Init ==
    /\ row = None
    /\ cache = EmptyCache
    /\ op = [o \in Ops |-> Begun(o, "view", None)]
    /\ load = [o \in Ops |-> Idle]
    /\ orphans = {}
    /\ saved = {EmptySettings}
    /\ greeted = {}
    /\ intended = EmptySettings
    /\ overlapped = FALSE
    /\ lostAck = FALSE
    /\ overtaken = {}
    /\ straggled = FALSE
    /\ now = 0

-----------------------------------------------------------------------------
(* An operation begins: reset goes straight to its write, everything else  *)
(* asks `current` first.                                                   *)

InProgress(o) == op[o].phase \in {"waiting", "saving", "caching"}

\* The operation once it has the settings: a change computes what to store, a
\* join composes its greeting, a view renders.
Resumed(r, v) ==
    IF r.kind \in ChangeKinds
    THEN [r EXCEPT !.phase = "saving", !.load = None, !.value = Change(r.kind, r.to, v)]
    ELSE [r EXCEPT !.phase = "done", !.load = None, !.value = v]

\* A join posts what ComposeGreetingUseCase composes, as `/welcome test` does.
Posts(rs) == \E r \in rs : r.kind = "join"

\* ComposeGreetingUseCase refuses settings that greet nobody.
GreetedBy(rs, v) ==
    IF Posts(rs) /\ v.enabled /\ v.channel # None THEN {v} ELSE {}

Begins(o, kind, to) ==
    /\ op[o].phase = "new"
    /\ to \in CASE kind = "message" -> Messages
                [] kind = "channel" -> Channels
                [] OTHER            -> {None}
    /\ overlapped' = (overlapped \/ (kind \in ChangeKinds /\ \E p \in Ops : op[p].ran))
    /\ UNCHANGED <<row, orphans, saved, intended, lostAck, overtaken, straggled, now>>

BeginsReset(o) ==
    /\ Begins(o, "reset", None)
    /\ op' = [op EXCEPT ![o] = Resumed(Begun(o, "reset", None), EmptySettings)]
    /\ UNCHANGED <<cache, load, greeted>>

ReadsHit(o, kind, to) ==
    /\ Begins(o, kind, to)
    /\ Hit(cache, Guild, now)
    /\ LET v == cache.entries[Guild].value
       IN  /\ op' = [op EXCEPT ![o] = Resumed(Begun(o, kind, to), v)]
           /\ greeted' = greeted \cup GreetedBy({Begun(o, kind, to)}, v)
    /\ UNCHANGED <<cache, load>>

JoinsLoad(o, kind, to) ==
    /\ Begins(o, kind, to)
    /\ ~ Hit(cache, Guild, now)
    /\ cache.inFlight[Guild] # None
    /\ cache' = Evict(cache, Guild)
    /\ op' = [op EXCEPT ![o] = [Begun(o, kind, to) EXCEPT
                                    !.phase = "waiting", !.load = cache.inFlight[Guild]]]
    /\ UNCHANGED <<load, greeted>>

StartsLoad(o, kind, to) ==
    /\ Begins(o, kind, to)
    /\ ~ Hit(cache, Guild, now)
    /\ cache.inFlight[Guild] = None
    /\ cache' = BeginLoad(cache, Guild, o)
    /\ load' = [load EXCEPT ![o] =
                    [phase |-> "querying", mark |-> MarkLoad(cache, Guild), value |-> None]]
    /\ op' = [op EXCEPT ![o] = [Begun(o, kind, to) EXCEPT !.phase = "waiting", !.load = o]]
    /\ UNCHANGED greeted

-----------------------------------------------------------------------------
(* The load of `current`: MemoryCache.getOrLoad around findSettings.       *)

Found(r) == IF r = None THEN EmptySettings ELSE r

LoadReads(o) ==
    /\ load[o].phase = "querying"
    /\ load' = [load EXCEPT ![o].phase = "read", ![o].value = Found(row)]
    /\ UNCHANGED <<row, cache, op, orphans, history, now>>

LoadFails(o) ==
    /\ load[o].phase = "querying"
    /\ load' = [load EXCEPT ![o].phase = "failed"]
    /\ UNCHANGED <<row, cache, op, orphans, history, now>>

LoadStores(o) ==
    /\ load[o].phase = "read"
    /\ cache' = StoreAnswer(cache, Guild, load[o].mark, load[o].value, now)
    /\ load' = [load EXCEPT ![o].phase = "settled"]
    /\ UNCHANGED <<row, op, orphans, history, now>>

\* Everyone who awaited the promise resumes, or fails with it.
LoadFinishes(o) ==
    /\ load[o].phase \in {"settled", "failed"}
    /\ cache' = FinishLoad(cache, Guild)
    /\ load' = [load EXCEPT ![o] = Idle]
    /\ LET waiters == {p \in Ops : op[p].load = o}
           v       == load[o].value
       IN  IF load[o].phase = "settled"
           THEN /\ op' = [p \in Ops |-> IF p \in waiters THEN Resumed(op[p], v) ELSE op[p]]
                /\ greeted' = greeted \cup GreetedBy({op[p] : p \in waiters}, v)
           ELSE /\ op' = [p \in Ops |-> IF p \in waiters
                            THEN [op[p] EXCEPT !.phase = "failed", !.load = None] ELSE op[p]]
                /\ UNCHANGED greeted
    /\ UNCHANGED <<row, orphans, saved, intended, overlapped, lostAck, overtaken, straggled, now>>

-----------------------------------------------------------------------------
(* store(): save the row, then write it through.  The driver reports a     *)
(* failed attempt as a broken connection, or as something else.            *)

\* decideRetry, of a statement that is not a read: the deadline may pass at
\* any attempt.  The retry of a read is a read that takes longer.
RetriesWrite(failure, attempt) == failure = "connection" /\ attempt < MaxAttempts

\* The upsert of o runs on the server: the whole row, whatever it is now.  A
\* change that is over was intended once, and is not intended again.  The
\* orphans `left` that are not its own are behind it from now on.
Executes(o, left) ==
    /\ row' = op[o].value
    /\ saved' = saved \cup {op[o].value}
    /\ intended' = IF op[o].phase = "saving" THEN Change(op[o].kind, op[o].to, intended)
                   ELSE intended
    /\ overlapped' = (overlapped \/ \E p \in Ops \ {o} : InProgress(p))
    /\ orphans' = left
    /\ overtaken' = {x \in left : x[1] # o \/ x \in overtaken}
    /\ UNCHANGED <<cache, load, greeted, now>>

\* The attempt o is at, once its connection broke.
Orphan(o) == <<o, op[o].attempt>>

SaveCommits(o) ==
    /\ op[o].phase = "saving"
    /\ Executes(o, orphans)
    /\ op' = [op EXCEPT ![o].phase = "caching", ![o].attempt = 1, ![o].ran = TRUE]
    /\ UNCHANGED <<lostAck, straggled>>

\* Refused by the server, or broken at the last attempt or past the deadline:
\* the change is reported as failed and nothing is written through.
SaveFails(o) ==
    /\ op[o].phase = "saving"
    /\ op' = [op EXCEPT ![o].phase = "failed", ![o].attempt = 1, ![o].ran = FALSE]
    /\ orphans' \in {orphans, orphans \cup {Orphan(o)}}
    /\ lostAck' = (lostAck \/ op[o].ran)
    /\ UNCHANGED <<row, cache, load, saved, greeted, intended, overlapped, overtaken, straggled, now>>

SaveRetries(o) ==
    /\ op[o].phase = "saving"
    /\ RetriesWrite("connection", op[o].attempt)
    /\ op' = [op EXCEPT ![o].attempt = @ + 1]
    /\ orphans' = orphans \cup {Orphan(o)}
    /\ UNCHANGED <<row, cache, load, history, now>>

\* The server runs an attempt whose connection broke, wherever o is by now.
Lands(o, n) ==
    /\ <<o, n>> \in orphans
    /\ Executes(o, orphans \ {<<o, n>>})
    /\ op' = [op EXCEPT ![o].ran = (@ \/ op[o].phase = "saving")]
    /\ lostAck' = (lostAck \/ op[o].phase = "failed")
    /\ straggled' = (straggled \/ <<o, n>> \in overtaken)

\* Mutant of Cached: an entry that is already there is left alone.
CachedIfMissing(c, s) == IF Hit(c, Guild, now) THEN c ELSE Put(c, Guild, s, now)

Cached(c, s) == Put(c, Guild, s, now)

WritesThrough(o) ==
    /\ op[o].phase = "caching"
    /\ cache' = Cached(cache, op[o].value)
    /\ op' = [op EXCEPT ![o].phase = "done", ![o].ran = FALSE]
    /\ UNCHANGED <<row, load, orphans, history, now>>

-----------------------------------------------------------------------------
Sweeps ==
    /\ cache' = SweepCache(cache, now)
    /\ UNCHANGED <<row, op, load, orphans, history, now>>

Tick ==
    /\ now < MaxNow
    /\ now' = now + 1
    /\ UNCHANGED <<row, cache, op, load, orphans, history>>

Next ==
    \/ \E o \in Ops : BeginsReset(o)
    \/ \E o \in Ops, kind \in Kinds \ {"reset"}, to \in Messages \cup Channels \cup {None} :
            ReadsHit(o, kind, to) \/ JoinsLoad(o, kind, to) \/ StartsLoad(o, kind, to)
    \/ \E o \in Ops : LoadReads(o) \/ LoadFails(o) \/ LoadStores(o) \/ LoadFinishes(o)
    \/ \E o \in Ops : SaveCommits(o) \/ SaveFails(o) \/ SaveRetries(o) \/ WritesThrough(o)
    \/ \E o \in Ops, n \in 1..MaxAttempts : Lands(o, n)
    \/ Sweeps
    \/ Tick

Spec == Init /\ [][Next]_vars

-----------------------------------------------------------------------------
Settings == [message : Messages \cup {None}, channel : Channels \cup {None}, enabled : BOOLEAN]

ASSUME NoneAssumption == None \notin Settings

Marks == [generation : Nat, clears : Nat]

Caches == [ entries     : [Keys -> [value : Settings, expiresAt : Nat] \cup {None}],
            inFlight    : [Keys -> Ops \cup {None}],
            generations : [Keys -> Nat],
            bumpedAt    : [Keys -> Nat \cup {None}],
            cleared     : Nat ]

OpStates == [ phase : {"new", "waiting", "saving", "caching", "done", "failed"},
              kind  : Kinds, to : Messages \cup Channels \cup {None},
              load  : Ops \cup {None}, value : Settings,
              attempt : 1..MaxAttempts, ran : BOOLEAN ]

LoadStates == [ phase : {"idle", "querying", "read", "settled", "failed"},
                mark  : Marks \cup {None}, value : Settings \cup {None} ]

TypeOK ==
    /\ row \in Settings \cup {None} /\ intended \in Settings
    /\ saved \subseteq Settings /\ greeted \subseteq Settings
    /\ cache \in Caches
    /\ op \in [Ops -> OpStates] /\ load \in [Ops -> LoadStates]
    /\ orphans \subseteq Ops \X (1..MaxAttempts) /\ overtaken \subseteq Ops \X (1..MaxAttempts)
    /\ overlapped \in BOOLEAN /\ lostAck \in BOOLEAN /\ straggled \in BOOLEAN
    /\ now \in Nat

\* A member is greeted with a message and in a channel that one committed row
\* held together: never with half of two configurations, never with a change
\* whose save failed, and never by a guild that is missing either half
\* (welcome.rules.ts:72-82, configure-welcome.usecase.ts:96-99).
GreetsAsSaved ==
    /\ TypeOK
    /\ \A s \in greeted : s \in saved /\ s.message # None /\ s.channel # None

\* No accepted change is lost and the panel is rendered from the row, as long
\* as no row is committed beside another operation, no change begins between a
\* commit and its write-through, no committed change is reported as failed,
\* and no broken attempt lands after the commit of someone else: each change
\* kept what the ones before it set, a reset forgot both halves, an entry is
\* the row, and a broken attempt that lands before its retry, after it, or
\* after the whole operation does no harm
\* (configure-welcome.usecase.ts:40-42, 79-81, 113-124, retry.policy.ts:153-158).
ChangesKept ==
    ~ overlapped /\ ~ lostAck /\ ~ straggled =>
        /\ Found(row) = intended
        /\ (\A o \in Ops : ~ op[o].ran) /\ cache.entries[Guild] # None
                => cache.entries[Guild].value = Found(row)

\* What retry.policy.ts:14-17 and 154 say, "Nothing was executed, so this is
\* safe even for a mutation", would make of it, with no exception for a broken
\* attempt that lands late.  Operations that come one after the other, each
\* acknowledged, still violate it: the late attempt of the first undoes the
\* second (MC_WelcomeLate.cfg).
RetriesAreHarmless == ~ overlapped /\ ~ lostAck => Found(row) = intended
=============================================================================
