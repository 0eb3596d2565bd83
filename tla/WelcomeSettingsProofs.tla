------------------------ MODULE WelcomeSettingsProofs ------------------------
(***************************************************************************)
(* What WelcomeSettings promises for any number of operations, messages,   *)
(* channels and attempts, any TTL and any clock: a greeting is made of one *)
(* committed row, and no change is lost unless a commit falls beside       *)
(* another operation, a committed change is reported as failed, or a       *)
(* broken attempt lands after the commit of someone else.                  *)
(***************************************************************************)
EXTENDS WelcomeSettings, TLAPS

Loading(o) == load[o].phase # "idle"
Answered(o) == load[o].phase \in {"read", "settled"}

\* The in-flight map holds the load that runs, its owner waits for it, and so
\* does everyone else who waits.
OneLoad ==
    /\ \A o \in Ops : Loading(o) => cache.inFlight[Guild] = o /\ op[o].phase = "waiting"
    /\ cache.inFlight[Guild] # None => Loading(cache.inFlight[Guild])
    /\ \A o \in Ops :
        IF op[o].phase = "waiting" THEN op[o].load = cache.inFlight[Guild] /\ op[o].load # None
        ELSE op[o].load = None

\* What a change is to, and one that is under way.
Fits(kind, to) ==
    (kind = "message" => to \in Messages) /\ (kind = "channel" => to \in Channels)

GoodOp(r) ==
    /\ Fits(r.kind, r.to)
    /\ r.phase \in {"saving", "caching"} => r.kind \in ChangeKinds
    /\ r.ran => r.phase \in {"saving", "caching"}
    /\ r.phase = "caching" => r.ran

\* Settings that are enabled can greet someone.
Usable(s) == s.enabled => IsReady(s)

\* Whatever may still be read, stored or greeted with was committed.
Committed ==
    /\ \A s \in saved : Usable(s)
    /\ Found(row) \in saved /\ EmptySettings \in saved
    /\ cache.entries[Guild] # None => cache.entries[Guild].value \in saved
    /\ \A o \in Ops :
        /\ Answered(o) => load[o].value \in saved
        /\ op[o].phase = "saving" => Usable(op[o].value)
        /\ op[o].phase = "caching" => op[o].value \in saved

\* An attempt that may still land carries a change that has been computed.
GoodOrphan(r) ==
    /\ r.phase \in {"saving", "caching", "done", "failed"}
    /\ r.kind \in ChangeKinds /\ Usable(r.value)

Calm == ~ overlapped /\ ~ lostAck /\ ~ straggled

\* No change is in progress beside one that is committed and not yet written
\* through.
Alone ==
    \A o, p \in Ops : op[o].ran /\ InProgress(p) /\ o # p => op[p].kind \notin ChangeKinds

\* The row as of the last change, what is in progress knows it, and so does an
\* attempt that may still land and that no other commit has overtaken.
UpToDate ==
    /\ Found(row) = intended
    /\ \A o \in Ops :
        /\ Answered(o) => load[o].value = intended
        /\ op[o].phase = "saving" => op[o].value = Change(op[o].kind, op[o].to, intended)
        /\ op[o].phase = "caching" => op[o].value = intended
    /\ \A x \in orphans \ overtaken : op[x[1]].phase = "done" => op[x[1]].value = intended
    /\ (\A o \in Ops : ~ op[o].ran) /\ cache.entries[Guild] # None
            => cache.entries[Guild].value = intended

IInv ==
    /\ TypeOK
    /\ OneLoad
    /\ \A o \in Ops : GoodOp(op[o])
    /\ \A x \in orphans : GoodOrphan(op[x[1]])
    /\ Committed
    /\ GreetsAsSaved
    /\ Calm => Alone /\ UpToDate

-----------------------------------------------------------------------------
(* Settings, and the cache *)

LEMMA NoneIs ==
    /\ None \notin Messages /\ None \notin Channels /\ None \notin Ops /\ None \notin Settings
    /\ Guild \in Keys
BY SettingsAssumption, OpsAssumption, NoneAssumption, GuildAssumption

LEMMA EmptyIs == EmptySettings \in Settings /\ Usable(EmptySettings) /\ ~ EmptySettings.enabled
BY DEF EmptySettings, Settings, Usable

LEMMA Attempts ==
    1 \in 1..MaxAttempts /\ \A n \in 1..MaxAttempts : n < MaxAttempts => n + 1 \in 1..MaxAttempts
BY BoundsAssumption

LEMMA SettledIs ==
    ASSUME NEW s \in Settings
    PROVE  /\ Settled(s) \in Settings /\ Usable(Settled(s))
           /\ Settled(s).message = s.message /\ Settled(s).channel = s.channel
<1>1. IsReady(s) \in BOOLEAN
  BY Zenon DEF IsReady
<1>2. /\ Settled(s) \in Settings /\ Settled(s).enabled = IsReady(s)
      /\ Settled(s).message = s.message /\ Settled(s).channel = s.channel
  BY <1>1 DEF Settled, Settings
<1>3. QED
  BY <1>2 DEF Usable, IsReady

\* A change twice is the change once.
LEMMA Changes ==
    ASSUME NEW kind \in ChangeKinds, NEW to, Fits(kind, to), NEW s \in Settings
    PROVE  /\ Change(kind, to, s) \in Settings /\ Usable(Change(kind, to, s))
           /\ Change(kind, to, Change(kind, to, s)) = Change(kind, to, s)
<1>1. CASE kind = "message"
  <2> DEFINE t == [s EXCEPT !.message = to]
  <2>1. t \in Settings
    BY <1>1 DEF Settings, Fits
  <2>2. t.message = to /\ t.channel = s.channel
    BY DEF Settings
  <2>3. Change(kind, to, s) = Settled(t)
    BY <1>1 DEF Change
  <2> DEFINE c == Settled(t)
  <2>4. c \in Settings /\ Usable(c) /\ c.message = to /\ c.channel = s.channel
    BY <2>1, <2>2, SettledIs
  <2> HIDE DEF t, c
  <2>5. [c EXCEPT !.message = to] = c
    BY <2>4 DEF Settings
  <2>6. Settled(c) = c
    BY <2>1, <2>4 DEF c, Settled, IsReady, Settings
  <2>7. Change(kind, to, c) = Settled([c EXCEPT !.message = to])
    BY <1>1 DEF Change
  <2>8. QED
    BY <2>3, <2>4, <2>5, <2>6, <2>7 DEF c
<1>2. CASE kind = "channel"
  <2> DEFINE t == [s EXCEPT !.channel = to]
  <2>1. t \in Settings
    BY <1>2 DEF Settings, Fits
  <2>2. t.channel = to /\ t.message = s.message
    BY DEF Settings
  <2>3. Change(kind, to, s) = Settled(t)
    BY <1>2 DEF Change
  <2> DEFINE c == Settled(t)
  <2>4. c \in Settings /\ Usable(c) /\ c.channel = to /\ c.message = s.message
    BY <2>1, <2>2, SettledIs
  <2> HIDE DEF t, c
  <2>5. [c EXCEPT !.channel = to] = c
    BY <2>4 DEF Settings
  <2>6. Settled(c) = c
    BY <2>1, <2>4 DEF c, Settled, IsReady, Settings
  <2>7. Change(kind, to, c) = Settled([c EXCEPT !.channel = to])
    BY <1>2 DEF Change
  <2>8. QED
    BY <2>3, <2>4, <2>5, <2>6, <2>7 DEF c
<1>3. CASE kind = "reset"
  BY <1>3, EmptyIs DEF Change
<1>4. QED
  BY <1>1, <1>2, <1>3 DEF ChangeKinds

LEMMA SweptCache ==
    ASSUME NEW c \in Caches, NEW n \in Nat
    PROVE  /\ SweepCache(c, n) \in Caches
           /\ SweepCache(c, n).entries[Guild] \in {c.entries[Guild], None}
           /\ SweepCache(c, n).inFlight[Guild] = c.inFlight[Guild]
<1>1. SweepCache(c, n) \in Caches
  BY DEF SweepCache, Caches
<1>2. /\ SweepCache(c, n).entries[Guild] \in {c.entries[Guild], None}
      /\ SweepCache(c, n).inFlight[Guild] = c.inFlight[Guild]
  BY NoneIs DEF SweepCache, Caches
<1>3. QED
  BY <1>1, <1>2

LEMMA PutCache ==
    ASSUME NEW c \in Caches, NEW v \in Settings, NEW n \in Nat
    PROVE  /\ Put(c, Guild, v, n) \in Caches
           /\ Put(c, Guild, v, n).entries[Guild].value = v
           /\ Put(c, Guild, v, n).inFlight[Guild] = c.inFlight[Guild]
<1>1. EntryOf(v, n) \in [value : Settings, expiresAt : Nat] /\ EntryOf(v, n).value = v
  BY TtlAssumption DEF EntryOf
<1>2. QED
  BY <1>1, NoneIs DEF Put, Caches

LEMMA CacheSteps ==
    ASSUME NEW c \in Caches, NEW o \in Ops
    PROVE  /\ Evict(c, Guild) \in Caches
           /\ Evict(c, Guild).entries[Guild] = None
           /\ Evict(c, Guild).inFlight[Guild] = c.inFlight[Guild]
           /\ BeginLoad(c, Guild, o) \in Caches
           /\ BeginLoad(c, Guild, o).entries[Guild] = None
           /\ BeginLoad(c, Guild, o).inFlight[Guild] = o
           /\ FinishLoad(c, Guild) \in Caches
           /\ FinishLoad(c, Guild).entries[Guild] = c.entries[Guild]
           /\ FinishLoad(c, Guild).inFlight[Guild] = None
           /\ MarkLoad(c, Guild) \in Marks
<1>1. /\ Evict(c, Guild) \in Caches
      /\ Evict(c, Guild).entries[Guild] = None
      /\ Evict(c, Guild).inFlight[Guild] = c.inFlight[Guild]
  BY NoneIs DEF Evict, Caches
<1>2. /\ BeginLoad(c, Guild, o) \in Caches
      /\ BeginLoad(c, Guild, o).entries[Guild] = None
      /\ BeginLoad(c, Guild, o).inFlight[Guild] = o
  BY <1>1, NoneIs DEF BeginLoad, Caches
<1>3. /\ FinishLoad(c, Guild) \in Caches
      /\ FinishLoad(c, Guild).entries[Guild] = c.entries[Guild]
      /\ FinishLoad(c, Guild).inFlight[Guild] = None
  BY NoneIs DEF FinishLoad, Caches
<1>4. MarkLoad(c, Guild) \in Marks
  BY NoneIs DEF MarkLoad, Marks, Caches
<1>5. QED
  BY <1>1, <1>2, <1>3, <1>4

-----------------------------------------------------------------------------
(* An operation moves on, and the others stay. *)

LEMMA Before ==
    ASSUME IInv
    PROVE  /\ cache \in Caches /\ now \in Nat
           /\ op \in [Ops -> OpStates] /\ load \in [Ops -> LoadStates]
           /\ saved \subseteq Settings /\ intended \in Settings
           /\ row \in Settings \cup {None} /\ Found(row) \in Settings
           /\ orphans \subseteq Ops \X (1..MaxAttempts)
           /\ overtaken \subseteq Ops \X (1..MaxAttempts)
           /\ overlapped \in BOOLEAN /\ lostAck \in BOOLEAN /\ straggled \in BOOLEAN
           /\ cache.inFlight[Guild] \in Ops \cup {None}
           /\ \A o \in Ops : o # None /\ op[o] \in OpStates /\ load[o] \in LoadStates
           /\ cache.entries[Guild] # None => cache.entries[Guild].value \in Settings
BY NoneIs, EmptyIs DEF IInv, TypeOK, Caches, Found

LEMMA OneOp ==
    ASSUME IInv, NEW o \in Ops, NEW u \in OpStates, op' = [op EXCEPT ![o] = u]
    PROVE  /\ op' \in [Ops -> OpStates] /\ op'[o] = u
           /\ \A p \in Ops \ {o} : op'[p] = op[p]
BY Before

LEMMA OneOfLoads ==
    ASSUME IInv, NEW o \in Ops, NEW u \in LoadStates, load' = [load EXCEPT ![o] = u]
    PROVE  /\ load' \in [Ops -> LoadStates] /\ load'[o] = u
           /\ \A p \in Ops \ {o} : load'[p] = load[p]
BY Before

\* An operation that begins is not there yet, and a change that begins beside
\* one that is not written through overlaps it.
LEMMA Beginning ==
    ASSUME IInv, NEW o \in Ops, NEW kind \in Kinds, NEW to \in Messages \cup Channels \cup {None},
           Begins(o, kind, to)
    PROVE  /\ op[o].phase = "new" /\ ~ op[o].ran /\ op[o].load = None /\ ~ Loading(o)
           /\ UNCHANGED <<row, orphans, saved, intended, lostAck, overtaken, straggled, now>>
           /\ overlapped' \in BOOLEAN
           /\ Calm' => Calm /\ (kind \in ChangeKinds => \A p \in Ops : ~ op[p].ran)
           /\ \A x \in orphans : x[1] \in Ops \ {o}
           /\ Fits(kind, to)
           /\ Begun(o, kind, to) \in OpStates
<1>1. /\ op[o].phase = "new"
      /\ UNCHANGED <<row, orphans, saved, intended, lostAck, overtaken, straggled, now>>
  BY DEF Begins
<1>2. ~ op[o].ran /\ op[o].load = None /\ ~ Loading(o)
  BY <1>1 DEF IInv, GoodOp, OneLoad
<1>3. overlapped' = (overlapped \/ (kind \in ChangeKinds /\ \E p \in Ops : op[p].ran))
  BY DEF Begins
<1>4. overlapped' \in BOOLEAN
  BY <1>3, Before
<1>5. Calm' => Calm /\ (kind \in ChangeKinds => \A p \in Ops : ~ op[p].ran)
  BY <1>1, <1>3 DEF Calm
<1>6. \A x \in orphans : x[1] \in Ops \ {o}
  BY <1>1, Before DEF IInv, GoodOrphan
<1>7. Fits(kind, to)
  BY DEF Begins, Fits
<1>8. Begun(o, kind, to) \in OpStates
  BY EmptyIs, BoundsAssumption DEF Begun, OpStates
<1>9. QED
  BY <1>1, <1>2, <1>4, <1>5, <1>6, <1>7, <1>8

\* An operation that has the settings goes on to its save, or is done.
LEMMA Resuming ==
    ASSUME NEW r \in OpStates, NEW v \in Settings, Usable(v), Fits(r.kind, r.to), ~ r.ran
    PROVE  LET u == Resumed(r, v)
           IN  /\ u \in OpStates /\ u.load = None /\ u.kind = r.kind /\ u.to = r.to
               /\ GoodOp(u) /\ ~ u.ran
               /\ IF r.kind \in ChangeKinds
                  THEN u.phase = "saving" /\ Usable(u.value) /\ u.value = Change(r.kind, r.to, v)
                  ELSE u.phase = "done"
<1>1. CASE r.kind \in ChangeKinds
  <2>1. Change(r.kind, r.to, v) \in Settings /\ Usable(Change(r.kind, r.to, v))
    BY <1>1, Changes
  <2>2. QED
    BY <1>1, <2>1 DEF Resumed, OpStates, GoodOp
<1>2. CASE r.kind \notin ChangeKinds
  BY <1>2 DEF Resumed, OpStates, GoodOp
<1>3. QED
  BY <1>1, <1>2

-----------------------------------------------------------------------------
(* The actions *)

\* What an operation that begins may leave behind.
BeginsAs(o, kind, to, u) ==
    /\ op' = [op EXCEPT ![o] = u] /\ u \in OpStates
    /\ u.kind = kind /\ u.to = to /\ ~ u.ran
    /\ u.phase \in {"waiting", "saving", "done"}
    /\ u.phase = "saving" => kind \in ChangeKinds /\ Usable(u.value)
    /\ u.phase = "saving" /\ Calm' => u.value = Change(kind, to, intended)
    /\ cache' \in Caches /\ cache'.entries[Guild] \in {cache.entries[Guild], None}
    /\ load' \in [Ops -> LoadStates]
    /\ \A p \in Ops : Answered(p)' => Answered(p) /\ load'[p] = load[p]
    /\ \A s \in greeted' \ greeted : s \in saved /\ s.message # None /\ s.channel # None

LEMMA Began ==
    ASSUME IInv, NEW o \in Ops, NEW kind \in Kinds, NEW to \in Messages \cup Channels \cup {None},
           NEW u, Begins(o, kind, to), BeginsAs(o, kind, to, u), OneLoad'
    PROVE  IInv'
<1>1. /\ op' \in [Ops -> OpStates] /\ op'[o] = u
      /\ \A p \in Ops \ {o} : op'[p] = op[p]
  BY OneOp DEF BeginsAs
<1>2. /\ op[o].phase = "new" /\ ~ op[o].ran
      /\ UNCHANGED <<row, orphans, saved, intended, lostAck, overtaken, straggled, now>>
      /\ overlapped' \in BOOLEAN /\ Fits(kind, to)
      /\ \A x \in orphans : x[1] \in Ops \ {o}
  BY Beginning
<1>3. TypeOK'
  <2>1. \A s \in greeted' \ greeted : s \in saved
    BY DEF BeginsAs
  <2>2. greeted' \subseteq Settings
    BY <2>1 DEF IInv, TypeOK
  <2>3. QED
    BY <1>1, <1>2, <2>2 DEF IInv, TypeOK, BeginsAs
<1>4. \A p \in Ops : GoodOp(op[p])'
  BY <1>1, <1>2 DEF IInv, GoodOp, BeginsAs
<1>5. \A x \in orphans' : GoodOrphan(op[x[1]])'
  BY <1>1, <1>2 DEF IInv
<1>6. Committed'
  BY <1>1, <1>2 DEF IInv, Committed, BeginsAs
<1>7. GreetsAsSaved'
  BY <1>2, <1>3 DEF IInv, GreetsAsSaved, BeginsAs
<1>8. ASSUME Calm'
      PROVE  Alone' /\ UpToDate'
  <2>1. Alone /\ UpToDate
    BY <1>8, Beginning DEF IInv
  <2>2. kind \in ChangeKinds => \A p \in Ops : ~ op[p].ran
    BY <1>8, Beginning
  <2>3. Alone'
    BY <1>1, <2>1, <2>2 DEF Alone, InProgress, BeginsAs
  <2>4. \A p \in Ops : op'[p].ran => op[p].ran
    BY <1>1 DEF BeginsAs
  <2>5. (\A p \in Ops : ~ op'[p].ran) => \A p \in Ops : ~ op[p].ran
    BY <1>1, <1>2
  <2>6. \A x \in orphans : op'[x[1]] = op[x[1]]
    BY <1>1, <1>2
  <2>7. UpToDate'
    BY <1>1, <1>2, <1>8, <2>1, <2>5, <2>6 DEF UpToDate, BeginsAs
  <2>8. QED
    BY <2>3, <2>7
<1>9. QED
  BY <1>3, <1>4, <1>5, <1>6, <1>7, <1>8 DEF IInv

LEMMA Resetting ==
    ASSUME IInv, NEW o \in Ops, BeginsReset(o)
    PROVE  IInv'
<1> DEFINE r == Begun(o, "reset", None)
           u == Resumed(r, EmptySettings)
<1>1. Begins(o, "reset", None) /\ "reset" \in Kinds /\ None \in Messages \cup Channels \cup {None}
  BY DEF BeginsReset, Kinds
<1>2. r \in OpStates /\ op[o].phase = "new" /\ ~ Loading(o)
  BY <1>1, Beginning
<1>3. r.kind = "reset" /\ r.to = None /\ ~ r.ran
  BY DEF Begun
<1> HIDE DEF r
<1>4. /\ u \in OpStates /\ u.load = None /\ u.kind = "reset" /\ u.to = None /\ ~ u.ran
      /\ u.phase = "saving" /\ Usable(u.value) /\ u.value = Change("reset", None, EmptySettings)
  BY <1>2, <1>3, Resuming, EmptyIs DEF Fits, ChangeKinds
<1>5. Change("reset", None, EmptySettings) = Change("reset", None, intended)
  BY DEF Change
<1>6. op' = [op EXCEPT ![o] = u] /\ UNCHANGED <<cache, load, greeted>>
  BY DEF BeginsReset, r
<1> HIDE DEF u
<1>7. BeginsAs(o, "reset", None, u)
  BY <1>4, <1>5, <1>6, Before DEF BeginsAs, Answered, ChangeKinds
<1>8. OneLoad'
  BY <1>2, <1>4, <1>6, OneOp DEF IInv, OneLoad, Loading
<1>9. QED
  BY <1>1, <1>7, <1>8, Began

LEMMA Hitting ==
    ASSUME IInv, NEW o \in Ops, NEW kind \in Kinds, NEW to \in Messages \cup Channels \cup {None},
           ReadsHit(o, kind, to)
    PROVE  IInv'
<1> DEFINE r == Begun(o, kind, to)
           v == cache.entries[Guild].value
           u == Resumed(r, v)
<1>1. Begins(o, kind, to) /\ cache.entries[Guild] # None
  BY DEF ReadsHit, Hit
<1>2. r \in OpStates /\ op[o].phase = "new" /\ ~ Loading(o) /\ Fits(kind, to)
  BY <1>1, Beginning
<1>3. r.kind = kind /\ r.to = to /\ ~ r.ran
  BY DEF Begun
<1>4. v \in saved /\ v \in Settings /\ Usable(v)
  BY <1>1, Before DEF IInv, Committed
<1>5. op' = [op EXCEPT ![o] = u] /\ UNCHANGED <<cache, load>> /\ greeted' = greeted \cup GreetedBy({r}, v)
  BY DEF ReadsHit
<1> HIDE DEF r, v
<1>6. /\ u \in OpStates /\ u.load = None /\ u.kind = kind /\ u.to = to /\ ~ u.ran
      /\ IF kind \in ChangeKinds
         THEN u.phase = "saving" /\ Usable(u.value) /\ u.value = Change(kind, to, v)
         ELSE u.phase = "done"
  BY <1>2, <1>3, <1>4, Resuming
<1> HIDE DEF u
<1>7. ASSUME Calm', kind \in ChangeKinds
      PROVE  v = intended
  <2>1. UpToDate /\ \A p \in Ops : ~ op[p].ran
    BY <1>1, <1>7, Beginning DEF IInv
  <2>2. QED
    BY <1>1, <2>1 DEF UpToDate, v
<1>8. \A s \in greeted' \ greeted : s \in saved /\ s.message # None /\ s.channel # None
  BY <1>4, <1>5 DEF GreetedBy, Usable, IsReady
<1>9. BeginsAs(o, kind, to, u)
  BY <1>5, <1>6, <1>7, <1>8, Before DEF BeginsAs, Answered
<1>10. OneLoad'
  BY <1>2, <1>5, <1>6, OneOp DEF IInv, OneLoad, Loading
<1>11. QED
  BY <1>1, <1>9, <1>10, Began

\* An operation that has to wait.
LEMMA WaitsAs ==
    ASSUME NEW o \in Ops, NEW kind, NEW to, NEW p \in Ops, Begun(o, kind, to) \in OpStates
    PROVE  LET u == [Begun(o, kind, to) EXCEPT !.phase = "waiting", !.load = p]
           IN  /\ u \in OpStates /\ u.phase = "waiting" /\ u.load = p
               /\ u.kind = kind /\ u.to = to /\ ~ u.ran
BY DEF Begun, OpStates

LEMMA Joining ==
    ASSUME IInv, NEW o \in Ops, NEW kind \in Kinds, NEW to \in Messages \cup Channels \cup {None},
           JoinsLoad(o, kind, to)
    PROVE  IInv'
<1> DEFINE p == cache.inFlight[Guild]
           u == [Begun(o, kind, to) EXCEPT !.phase = "waiting", !.load = p]
<1>1. Begins(o, kind, to) /\ p \in Ops
  BY Before DEF JoinsLoad
<1>2. op[o].phase = "new" /\ ~ Loading(o) /\ Begun(o, kind, to) \in OpStates
  BY <1>1, Beginning
<1>3. op' = [op EXCEPT ![o] = u] /\ UNCHANGED <<load, greeted>> /\ cache' = Evict(cache, Guild)
  BY DEF JoinsLoad
<1>4. /\ u \in OpStates /\ u.phase = "waiting" /\ u.load = p
      /\ u.kind = kind /\ u.to = to /\ ~ u.ran
  BY <1>1, <1>2, WaitsAs
<1>5. cache' \in Caches /\ cache'.entries[Guild] = None /\ cache'.inFlight[Guild] = p
  BY <1>3, EmptyIs, Before, CacheSteps
<1> HIDE DEF u
<1>6. BeginsAs(o, kind, to, u)
  BY <1>3, <1>4, <1>5, Before DEF BeginsAs, Answered
<1>7. OneLoad'
  <2>1. /\ op'[o] = u /\ \A q \in Ops \ {o} : op'[q] = op[q]
    BY <1>3, <1>4, OneOp
  <2>2. QED
    BY <1>1, <1>2, <1>3, <1>4, <1>5, <2>1, NoneIs DEF IInv, OneLoad, Loading
<1>8. QED
  BY <1>1, <1>6, <1>7, Began

LEMMA Starting ==
    ASSUME IInv, NEW o \in Ops, NEW kind \in Kinds, NEW to \in Messages \cup Channels \cup {None},
           StartsLoad(o, kind, to)
    PROVE  IInv'
<1> DEFINE u == [Begun(o, kind, to) EXCEPT !.phase = "waiting", !.load = o]
           l == [phase |-> "querying", mark |-> MarkLoad(cache, Guild), value |-> None]
<1>1. Begins(o, kind, to) /\ cache.inFlight[Guild] = None
  BY DEF StartsLoad
<1>2. op[o].phase = "new" /\ Begun(o, kind, to) \in OpStates
  BY <1>1, Beginning
<1>3. /\ op' = [op EXCEPT ![o] = u] /\ load' = [load EXCEPT ![o] = l] /\ UNCHANGED greeted
      /\ cache' = BeginLoad(cache, Guild, o)
  BY DEF StartsLoad
<1>4. /\ u \in OpStates /\ u.phase = "waiting" /\ u.load = o
      /\ u.kind = kind /\ u.to = to /\ ~ u.ran
  BY <1>2, WaitsAs
<1>5. /\ cache' \in Caches /\ cache'.entries[Guild] = None /\ cache'.inFlight[Guild] = o
      /\ MarkLoad(cache, Guild) \in Marks
  BY <1>3, EmptyIs, Before, CacheSteps
<1>6. l \in LoadStates /\ l.phase = "querying"
  BY <1>5 DEF LoadStates
<1> HIDE DEF u, l
<1>7. /\ load' \in [Ops -> LoadStates] /\ load'[o] = l
      /\ \A q \in Ops \ {o} : load'[q] = load[q]
  BY <1>3, <1>6, OneOfLoads
<1>8. BeginsAs(o, kind, to, u)
  BY <1>3, <1>4, <1>5, <1>6, <1>7, Before DEF BeginsAs, Answered
<1>9. OneLoad'
  <2>1. /\ op'[o] = u /\ \A q \in Ops \ {o} : op'[q] = op[q]
    BY <1>3, <1>4, OneOp
  <2>2. \A q \in Ops : ~ Loading(q) /\ op[q].phase # "waiting"
    BY <1>1, NoneIs DEF IInv, OneLoad
  <2>3. QED
    BY <1>4, <1>5, <1>6, <1>7, <2>1, <2>2, NoneIs DEF IInv, OneLoad, Loading
<1>10. QED
  BY <1>1, <1>8, <1>9, Began

-----------------------------------------------------------------------------
(* The load *)

\* A load that goes on changes no operation.
LoadsAs(o, l) ==
    /\ load' = [load EXCEPT ![o] = l] /\ l \in LoadStates /\ l.phase # "idle"
    /\ l.phase \in {"read", "settled"} => l.value \in saved /\ (Calm => l.value = intended)
    /\ UNCHANGED <<row, op, orphans, history, now>>
    /\ cache' \in Caches /\ cache'.inFlight[Guild] = cache.inFlight[Guild]
    /\ \/ cache'.entries[Guild] = cache.entries[Guild]
       \/ cache'.entries[Guild].value \in saved /\ (Calm => cache'.entries[Guild].value = intended)

LEMMA Loaded ==
    ASSUME IInv, NEW o \in Ops, NEW l, Loading(o), LoadsAs(o, l)
    PROVE  IInv'
<1>1. /\ load' \in [Ops -> LoadStates] /\ load'[o] = l
      /\ \A p \in Ops \ {o} : load'[p] = load[p]
  BY OneOfLoads DEF LoadsAs
<1>2. UNCHANGED <<row, op, orphans, saved, greeted, intended, overlapped, lostAck, overtaken,
                  straggled, now>>
  BY DEF LoadsAs, history
<1>3. TypeOK'
  BY <1>1, <1>2 DEF IInv, TypeOK, LoadsAs
<1>4. OneLoad'
  BY <1>1, <1>2, NoneIs DEF IInv, OneLoad, Loading, LoadsAs
<1>5. /\ \A p \in Ops : GoodOp(op[p])'
      /\ \A x \in orphans' : GoodOrphan(op[x[1]])'
  BY <1>2 DEF IInv
<1>6. Committed'
  BY <1>1, <1>2 DEF IInv, Committed, Answered, LoadsAs
<1>7. (Calm => Alone /\ UpToDate)'
  BY <1>1, <1>2 DEF IInv, Calm, Alone, InProgress, UpToDate, Answered, LoadsAs
<1>8. GreetsAsSaved'
  BY <1>2, <1>3 DEF IInv, GreetsAsSaved
<1>9. QED
  BY <1>3, <1>4, <1>5, <1>6, <1>7, <1>8 DEF IInv

LEMMA Reading ==
    ASSUME IInv, NEW o \in Ops, LoadReads(o)
    PROVE  IInv'
<1> DEFINE l == [load[o] EXCEPT !.phase = "read", !.value = Found(row)]
<1>1. load[o] \in LoadStates /\ Found(row) \in Settings
  BY Before
<1>2. l \in LoadStates /\ l.phase = "read" /\ l.value = Found(row)
  BY <1>1 DEF LoadStates
<1>3. /\ load' = [load EXCEPT ![o] = l] /\ Loading(o)
      /\ UNCHANGED <<row, cache, op, orphans, history, now>>
  BY Before DEF LoadReads, Loading
<1> HIDE DEF l
<1>4. LoadsAs(o, l)
  BY <1>2, <1>3, Before DEF LoadsAs, IInv, Committed, UpToDate
<1>5. QED
  BY <1>3, <1>4, Loaded

LEMMA Failing ==
    ASSUME IInv, NEW o \in Ops, LoadFails(o)
    PROVE  IInv'
<1> DEFINE l == [load[o] EXCEPT !.phase = "failed"]
<1>1. l \in LoadStates /\ l.phase = "failed"
  BY Before DEF LoadStates
<1>2. /\ load' = [load EXCEPT ![o] = l] /\ Loading(o)
      /\ UNCHANGED <<row, cache, op, orphans, history, now>>
  BY Before DEF LoadFails, Loading
<1> HIDE DEF l
<1>3. LoadsAs(o, l)
  BY <1>1, <1>2, Before DEF LoadsAs
<1>4. QED
  BY <1>2, <1>3, Loaded

LEMMA Storing ==
    ASSUME IInv, NEW o \in Ops, LoadStores(o)
    PROVE  IInv'
<1> DEFINE l == [load[o] EXCEPT !.phase = "settled"]
           v == load[o].value
<1>1. load[o] \in LoadStates /\ Answered(o)
  BY Before DEF LoadStores, Answered
<1>2. l \in LoadStates /\ l.phase = "settled" /\ l.value = v
  BY <1>1 DEF LoadStates
<1>3. /\ load' = [load EXCEPT ![o] = l] /\ Loading(o)
      /\ UNCHANGED <<row, op, orphans, history, now>>
      /\ cache' \in {Put(cache, Guild, v, now), cache}
  BY Before DEF LoadStores, Loading, StoreAnswer
<1>4. v \in saved /\ v \in Settings /\ (Calm => v = intended)
  BY <1>1, Before DEF IInv, Committed, UpToDate
<1> HIDE DEF l, v
<1>5. /\ Put(cache, Guild, v, now) \in Caches
      /\ Put(cache, Guild, v, now).entries[Guild].value = v
      /\ Put(cache, Guild, v, now).inFlight[Guild] = cache.inFlight[Guild]
  BY <1>4, Before, PutCache
<1>6. LoadsAs(o, l)
  BY <1>2, <1>3, <1>4, <1>5, Before DEF LoadsAs
<1>7. QED
  BY <1>3, <1>6, Loaded

\* Whoever awaited the load goes on, or fails.
LEMMA Finishing ==
    ASSUME IInv, NEW o \in Ops, LoadFinishes(o)
    PROVE  IInv'
<1> DEFINE v == load[o].value
           went(p) == IF load[o].phase = "settled" THEN Resumed(op[p], v)
                      ELSE [op[p] EXCEPT !.phase = "failed", !.load = None]
           waits(p) == op[p].load = o
<1>1. /\ load[o].phase \in {"settled", "failed"} /\ Loading(o)
      /\ cache' = FinishLoad(cache, Guild) /\ load' = [load EXCEPT ![o] = Idle]
      /\ UNCHANGED <<row, orphans, saved, intended, overlapped, lostAck, overtaken, straggled, now>>
  BY DEF LoadFinishes, Loading
<1>2. op' = [p \in Ops |-> IF waits(p) THEN went(p) ELSE op[p]]
  BY <1>1 DEF LoadFinishes
<1>3. greeted' \in {greeted, greeted \cup GreetedBy({op[p] : p \in {q \in Ops : waits(q)}}, v)}
      /\ (load[o].phase # "settled" => greeted' = greeted)
  BY <1>1 DEF LoadFinishes
<1>4. Idle \in LoadStates /\ Idle.phase = "idle"
  BY DEF Idle, LoadStates
<1>5. /\ load' \in [Ops -> LoadStates] /\ load'[o].phase = "idle"
      /\ \A p \in Ops \ {o} : load'[p] = load[p]
  BY <1>1, <1>4, OneOfLoads
<1>6. /\ cache' \in Caches /\ cache'.inFlight[Guild] = None
      /\ cache'.entries[Guild] = cache.entries[Guild]
  BY <1>1, EmptyIs, Before, CacheSteps
<1>7. load[o].phase = "settled" =>
          v \in saved /\ v \in Settings /\ Usable(v) /\ (Calm => v = intended)
  BY Before DEF IInv, Committed, UpToDate, Answered
<1>8. \A p \in Ops : IF waits(p) THEN op[p].phase = "waiting" ELSE op[p].phase # "waiting"
  BY <1>1, NoneIs DEF IInv, OneLoad
<1> HIDE DEF v, waits
<1>9. ASSUME NEW p \in Ops, waits(p)
      PROVE  LET u == op'[p]
             IN  /\ u \in OpStates /\ u.load = None /\ u.kind = op[p].kind /\ u.to = op[p].to
                 /\ GoodOp(u) /\ ~ u.ran
                 /\ u.phase \in {"saving", "done", "failed"}
                 /\ u.phase = "saving" => load[o].phase = "settled" /\ Usable(u.value)
                                          /\ u.value = Change(u.kind, u.to, v)
  <2>1. op[p] \in OpStates /\ Fits(op[p].kind, op[p].to) /\ ~ op[p].ran
    BY <1>8, <1>9, Before DEF IInv, GoodOp
  <2>2. CASE load[o].phase = "settled"
    <3>1. op'[p] = Resumed(op[p], v)
      BY <1>2, <1>9, <2>2
    <3>2. v \in Settings /\ Usable(v)
      BY <1>7, <2>2
    <3>3. QED
      BY <2>1, <2>2, <3>1, <3>2, Resuming
  <2>3. CASE load[o].phase # "settled"
    <3>1. op'[p] = [op[p] EXCEPT !.phase = "failed", !.load = None]
      BY <1>2, <1>9, <2>3
    <3>2. QED
      BY <2>1, <3>1 DEF OpStates, GoodOp
  <2>4. QED
    BY <2>2, <2>3
<1>10. \A p \in Ops : ~ waits(p) => op'[p] = op[p]
  BY <1>2
<1>11. op' \in [Ops -> OpStates]
  <2>1. \A p \in Ops : op'[p] \in OpStates
    BY <1>9, <1>10, Before
  <2>2. QED
    BY <1>2, <2>1
<1> HIDE DEF went
<1>12. \A s \in greeted' \ greeted : s \in saved /\ s.message # None /\ s.channel # None
  <2>1. ASSUME NEW rs, NEW s \in GreetedBy(rs, v)
        PROVE  s = v /\ v.enabled
    BY DEF GreetedBy
  <2>2. ASSUME NEW s \in greeted' \ greeted
        PROVE  s = v /\ v.enabled /\ load[o].phase = "settled"
    <3>1. load[o].phase = "settled" /\ s \in GreetedBy({op[p] : p \in {q \in Ops : waits(q)}}, v)
      BY <1>3
    <3>2. QED
      BY <2>1, <3>1
  <2>3. QED
    BY <1>7, <2>2 DEF Usable, IsReady
<1>13. TypeOK' /\ GreetsAsSaved'
  BY <1>1, <1>5, <1>6, <1>11, <1>12 DEF IInv, TypeOK, GreetsAsSaved
<1>14. OneLoad'
  <2>1. \A p \in Ops : ~ Loading(p)'
    BY <1>1, <1>5, NoneIs DEF IInv, OneLoad, Loading
  <2>2. \A p \in Ops : op'[p].phase # "waiting" /\ op'[p].load = None
    BY <1>8, <1>9, <1>10 DEF IInv, OneLoad
  <2>3. QED
    BY <1>6, <2>1, <2>2 DEF OneLoad
<1>15. \A p \in Ops : GoodOp(op[p])'
  BY <1>9, <1>10 DEF IInv
<1>16. \A p \in Ops : (Answered(p)' => Answered(p) /\ load'[p] = load[p])
  BY <1>5 DEF Answered
<1>17. \A x \in orphans : x[1] \in Ops /\ op'[x[1]] = op[x[1]]
  BY <1>8, <1>10, Before DEF IInv, GoodOrphan
<1>18. Committed'
  BY <1>1, <1>6, <1>9, <1>10, <1>16 DEF IInv, Committed
<1>19. ASSUME Calm'
       PROVE  Alone' /\ UpToDate'
  <2>1. Calm /\ Alone /\ UpToDate
    BY <1>1, <1>19 DEF IInv, Calm
  <2>2. \A p \in Ops : (InProgress(p)' => InProgress(p)) /\ op'[p].kind = op[p].kind
    BY <1>8, <1>9, <1>10 DEF InProgress
  <2>3. \A p \in Ops : op[p].ran \/ op'[p].ran => op'[p] = op[p]
    BY <1>8, <1>9, <1>10 DEF IInv, GoodOp
  <2>4. Alone'
    BY <2>1, <2>2, <2>3 DEF Alone
  <2>5. \A p \in Ops : op'[p].phase = "saving" => op'[p].value = Change(op'[p].kind, op'[p].to, intended)
    BY <1>7, <1>9, <1>10, <2>1 DEF UpToDate
  <2>6. \A p \in Ops : op'[p].phase = "caching" => op'[p] = op[p]
    BY <1>9, <1>10
  <2>7. UpToDate'
    BY <1>1, <1>6, <1>16, <1>17, <2>1, <2>3, <2>5, <2>6 DEF UpToDate
  <2>8. QED
    BY <2>4, <2>7
<1>20. \A x \in orphans' : GoodOrphan(op[x[1]])'
  BY <1>1, <1>17 DEF IInv
<1>21. QED
  BY <1>13, <1>14, <1>15, <1>18, <1>19, <1>20 DEF IInv

-----------------------------------------------------------------------------
(* The write *)

\* The operation that writes, or one of whose attempts lands, as the step
\* leaves it.
WritesAs(o, u) ==
    /\ op' = [op EXCEPT ![o] = u] /\ u \in OpStates
    /\ u.kind = op[o].kind /\ u.to = op[o].to /\ u.value = op[o].value /\ u.load = op[o].load
    /\ u.phase \in {op[o].phase, "caching", "done", "failed"}
    /\ GoodOp(u) /\ GoodOrphan(op[o])
    /\ UNCHANGED <<load, greeted, now>>
    /\ cache' \in Caches /\ cache'.inFlight[Guild] = cache.inFlight[Guild]
    /\ \A x \in orphans' : x \in orphans \/ x = Orphan(o)
    /\ lostAck' \in BOOLEAN /\ (lostAck => lostAck')
    /\ straggled' \in BOOLEAN /\ (straggled => straggled')

\* A change that is being saved may leave an orphan.
LEMMA Orphaning ==
    ASSUME IInv, NEW o \in Ops, op[o].phase \in {"saving", "caching"}
    PROVE  GoodOrphan(op[o]) /\ Fits(op[o].kind, op[o].to)
BY DEF IInv, Committed, GoodOp, GoodOrphan

LEMMA Pairs ==
    ASSUME IInv, NEW o \in Ops
    PROVE  /\ Orphan(o) \in Ops \X (1..MaxAttempts) /\ Orphan(o)[1] = o
           /\ \A x \in orphans : x \in Ops \X (1..MaxAttempts) /\ x[1] \in Ops
<1>1. op[o].attempt \in 1..MaxAttempts
  BY Before DEF OpStates
<1>2. QED
  BY <1>1, Before DEF Orphan

LEMMA Writing ==
    ASSUME IInv, NEW o \in Ops, NEW u, WritesAs(o, u)
    PROVE  /\ op' \in [Ops -> OpStates] /\ op'[o] = u
           /\ \A p \in Ops \ {o} : op'[p] = op[p]
           /\ \A p \in Ops : Answered(p)' => Answered(p) /\ load'[p] = load[p] /\ p # o
           /\ OneLoad' /\ \A p \in Ops : GoodOp(op[p])'
           /\ orphans' \subseteq Ops \X (1..MaxAttempts)
           /\ \A x \in orphans' : GoodOrphan(op[x[1]])'
<1>1. /\ op' \in [Ops -> OpStates] /\ op'[o] = u
      /\ \A p \in Ops \ {o} : op'[p] = op[p]
  BY OneOp DEF WritesAs
<1>2. op[o].phase \in {"saving", "caching", "done", "failed"}
  BY DEF WritesAs, GoodOrphan
<1>3. \A p \in Ops : Answered(p)' => Answered(p) /\ load'[p] = load[p] /\ p # o
  BY <1>2 DEF WritesAs, Answered, IInv, OneLoad, Loading
<1>4. OneLoad'
  BY <1>1, <1>2 DEF IInv, OneLoad, Loading, WritesAs
<1>5. \A p \in Ops : GoodOp(op[p])'
  BY <1>1 DEF IInv, WritesAs
<1>6. GoodOrphan(u)
  BY <1>2 DEF WritesAs, GoodOrphan
<1>7. \A x \in orphans' : x \in Ops \X (1..MaxAttempts) /\ GoodOrphan(op[x[1]])'
  <2>1. ASSUME NEW x \in orphans'
        PROVE  x \in Ops \X (1..MaxAttempts) /\ GoodOrphan(op'[x[1]])
    <3>1. x \in Ops \X (1..MaxAttempts) /\ x[1] \in Ops /\ (x \in orphans \/ x[1] = o)
      BY Pairs DEF WritesAs
    <3>2. CASE x[1] = o
      BY <1>1, <1>6, <3>1, <3>2
    <3>3. CASE x[1] # o
      BY <1>1, <3>1, <3>3 DEF IInv
    <3>4. QED
      BY <3>1, <3>2, <3>3
  <2>2. QED
    BY <2>1
<1>8. QED
  BY <1>1, <1>3, <1>4, <1>5, <1>7

\* The upsert ran: the row is the value, and so is what was intended, since a
\* change that runs again changes nothing more and one that is over was the
\* last.
LEMMA Executing ==
    ASSUME IInv, NEW o \in Ops, NEW u, NEW left, left \subseteq orphans,
           Executes(o, left), WritesAs(o, u),
           op[o].phase \in {"saving", "caching"} => u.ran,
           op[o].phase # "saving" => u.phase = op[o].phase,
           Calm' => op[o].phase # "failed" /\ (op[o].phase = "done" => op[o].value = intended)
    PROVE  IInv'
<1> DEFINE v == op[o].value
<1>1. /\ row' = v /\ saved' = saved \cup {v} /\ orphans' = left
      /\ intended' = IF op[o].phase = "saving" THEN Change(op[o].kind, op[o].to, intended)
                     ELSE intended
      /\ overlapped' = (overlapped \/ \E p \in Ops \ {o} : InProgress(p))
      /\ overtaken' = {x \in left : x[1] # o \/ x \in overtaken}
      /\ UNCHANGED <<cache, load, greeted, now>>
  BY DEF Executes
<1>2. /\ op' \in [Ops -> OpStates] /\ op'[o] = u
      /\ \A p \in Ops \ {o} : op'[p] = op[p]
      /\ \A p \in Ops : Answered(p)' => Answered(p) /\ load'[p] = load[p] /\ p # o
      /\ OneLoad' /\ \A p \in Ops : GoodOp(op[p])'
      /\ orphans' \subseteq Ops \X (1..MaxAttempts)
      /\ \A x \in orphans' : GoodOrphan(op[x[1]])'
  BY Writing
<1>3. /\ u.kind = op[o].kind /\ u.to = op[o].to /\ u.value = v
      /\ op[o].kind \in ChangeKinds /\ Usable(v) /\ v \in Settings
      /\ op[o].phase \in {"saving", "caching", "done", "failed"}
      /\ u.phase \in {op[o].phase, "caching", "done", "failed"}
  BY Before DEF WritesAs, GoodOrphan, OpStates
<1>4. /\ cache' \in Caches /\ lostAck' \in BOOLEAN /\ straggled' \in BOOLEAN
      /\ (lostAck => lostAck') /\ (straggled => straggled') /\ overlapped' \in BOOLEAN
  BY <1>1, Before DEF WritesAs
<1>5. op[o].phase = "saving" => Fits(op[o].kind, op[o].to)
  BY DEF IInv, GoodOp
<1>6. /\ intended' \in Settings
      /\ op[o].phase = "saving" => Change(op[o].kind, op[o].to, intended') = intended'
  BY <1>1, <1>3, <1>5, Before, Changes
<1>7. row' # None /\ Found(row)' = v
  BY <1>1, <1>3, NoneIs DEF Found
<1> HIDE DEF v
<1>8. TypeOK' /\ GreetsAsSaved'
  BY <1>1, <1>2, <1>3, <1>4, <1>6 DEF IInv, TypeOK, GreetsAsSaved
<1>9. Committed'
  <2>1. ASSUME NEW p \in Ops
        PROVE  /\ op'[p].phase = "saving" => Usable(op'[p].value)
               /\ op'[p].phase = "caching" => op'[p].value \in saved'
    BY <1>1, <1>2, <1>3 DEF IInv, Committed
  <2>2. QED
    BY <1>1, <1>2, <1>3, <1>7, <2>1 DEF IInv, Committed
<1>10. ASSUME Calm'
       PROVE  Alone' /\ UpToDate'
  <2>1. Calm /\ UpToDate /\ \A p \in Ops \ {o} : ~ InProgress(p)
    BY <1>1, <1>4, <1>10, Before DEF Calm, IInv
  <2>2. \A p \in Ops \ {o} : ~ Answered(p) /\ ~ op[p].ran /\ ~ op'[p].ran
    BY <1>2, <2>1 DEF InProgress, IInv, OneLoad, Loading, Answered, GoodOp
  <2>3. v = intended'
    BY <1>1, <1>3, <1>10, <2>1 DEF UpToDate, v
  <2>4. Alone'
    BY <1>2, <2>1, <2>2 DEF Alone, InProgress
  <2>5. \A p \in Ops : ~ Answered(p)'
    BY <1>2, <2>2
  <2>6. ASSUME NEW p \in Ops
        PROVE  /\ op'[p].phase = "saving"
                    => op'[p].value = Change(op'[p].kind, op'[p].to, intended')
               /\ op'[p].phase = "caching" => op'[p].value = intended'
    <3>1. CASE p = o
      BY <1>2, <1>3, <1>6, <2>3, <3>1
    <3>2. CASE p # o
      BY <1>2, <2>1, <3>2 DEF InProgress
    <3>3. QED
      BY <3>1, <3>2
  <2>7. \A x \in orphans' \ overtaken' : op'[x[1]].value = intended'
    BY <1>1, <1>2, <1>3, <2>3
  <2>8. ASSUME \A p \in Ops : ~ op'[p].ran, cache'.entries[Guild] # None
        PROVE  cache'.entries[Guild].value = intended'
    <3>1. op[o].phase = "done" /\ ~ op[o].ran
      BY <1>2, <1>3, <1>10, <2>8 DEF IInv, GoodOp
    <3>2. (\A p \in Ops : ~ op[p].ran) /\ intended' = intended
      BY <1>1, <2>2, <3>1
    <3>3. QED
      BY <1>1, <2>1, <2>8, <3>2 DEF UpToDate
  <2>9. QED
    BY <1>7, <2>3, <2>4, <2>5, <2>6, <2>7, <2>8 DEF UpToDate
<1>11. QED
  BY <1>2, <1>8, <1>9, <1>10 DEF IInv

\* Nothing ran on the server.
LEMMA Moving ==
    ASSUME IInv, NEW o \in Ops, NEW u, WritesAs(o, u),
           UNCHANGED <<row, saved, intended, overlapped, overtaken, straggled>>,
           \/ /\ cache'.entries[Guild] = cache.entries[Guild]
              /\ Calm' => u.ran = op[o].ran
           \/ op[o].phase = "caching" /\ cache'.entries[Guild].value = op[o].value,
           u.ran => op[o].ran,
           u.phase \in {op[o].phase, "done", "failed"}, op[o].phase # "done",
           u.phase = "done" => op[o].phase = "caching"
    PROVE  IInv'
<1>1. /\ op' \in [Ops -> OpStates] /\ op'[o] = u
      /\ \A p \in Ops \ {o} : op'[p] = op[p]
      /\ \A p \in Ops : Answered(p)' => Answered(p) /\ load'[p] = load[p] /\ p # o
      /\ OneLoad' /\ \A p \in Ops : GoodOp(op[p])'
      /\ orphans' \subseteq Ops \X (1..MaxAttempts)
      /\ \A x \in orphans' : GoodOrphan(op[x[1]])'
  BY Writing
<1>2. /\ UNCHANGED <<greeted, now, load>> /\ lostAck' \in BOOLEAN /\ (lostAck => lostAck')
      /\ u.kind = op[o].kind /\ u.to = op[o].to /\ u.value = op[o].value
      /\ cache' \in Caches
      /\ op[o].phase \in {"saving", "caching", "done", "failed"}
      /\ \A x \in orphans' : x \in orphans \/ x = Orphan(o)
  BY DEF WritesAs, GoodOrphan
<1>3. TypeOK' /\ GreetsAsSaved'
  BY <1>1, <1>2 DEF IInv, TypeOK, GreetsAsSaved
<1>4. \A p \in Ops : /\ op'[p].phase \in {op[p].phase, "done", "failed"}
                     /\ op'[p].kind = op[p].kind /\ op'[p].to = op[p].to /\ op'[p].value = op[p].value
                     /\ op'[p].ran => op[p].ran
  BY <1>1, <1>2
<1>5. Committed'
  <2>1. cache'.entries[Guild] = cache.entries[Guild] \/ cache'.entries[Guild].value \in saved
    BY DEF IInv, Committed
  <2>2. \A p \in Ops : /\ Answered(p)' => load'[p].value \in saved
                       /\ op'[p].phase = "saving" => Usable(op'[p].value)
                       /\ op'[p].phase = "caching" => op'[p].value \in saved
    BY <1>1, <1>4 DEF IInv, Committed
  <2>3. QED
    BY <2>1, <2>2 DEF IInv, Committed
<1>6. ASSUME Calm'
      PROVE  Alone' /\ UpToDate'
  <2>1. Alone /\ UpToDate
    BY <1>2, <1>6, Before DEF IInv, Calm
  <2>2. Alone'
    BY <1>4, <2>1 DEF Alone, InProgress
  <2>3. \A p \in Ops : /\ Answered(p)' => load'[p].value = intended
                       /\ op'[p].phase = "saving"
                            => op'[p].value = Change(op'[p].kind, op'[p].to, intended)
                       /\ op'[p].phase = "caching" => op'[p].value = intended
    BY <1>1, <1>4, <2>1 DEF UpToDate
  <2>4. ASSUME NEW x \in orphans' \ overtaken, op'[x[1]].phase = "done"
        PROVE  op'[x[1]].value = intended
    <3>1. CASE x[1] = o
      BY <1>1, <1>2, <2>1, <2>4, <3>1 DEF UpToDate
    <3>2. CASE x[1] # o
      <4>1. x \in orphans \ overtaken /\ x[1] \in Ops
        BY <1>2, <2>4, <3>2, Pairs
      <4>2. QED
        BY <1>1, <2>1, <2>4, <3>2, <4>1 DEF UpToDate
    <3>3. QED
      BY <3>1, <3>2
  <2>5. ASSUME \A p \in Ops : ~ op'[p].ran, cache'.entries[Guild] # None
        PROVE  cache'.entries[Guild].value = intended
    <3>1. CASE /\ cache'.entries[Guild] = cache.entries[Guild]
               /\ u.ran = op[o].ran
      <4>1. \A p \in Ops : ~ op[p].ran
        BY <1>1, <2>5, <3>1
      <4>2. QED
        BY <2>1, <2>5, <3>1, <4>1 DEF UpToDate
    <3>2. CASE op[o].phase = "caching" /\ cache'.entries[Guild].value = op[o].value
      BY <2>1, <3>2 DEF UpToDate
    <3>3. QED
      BY <1>6, <3>1, <3>2
  <2>6. QED
    BY <2>1, <2>2, <2>3, <2>4, <2>5 DEF UpToDate
<1>7. QED
  BY <1>1, <1>3, <1>5, <1>6 DEF IInv

LEMMA Committing ==
    ASSUME IInv, NEW o \in Ops, SaveCommits(o)
    PROVE  IInv'
<1> DEFINE u == [op[o] EXCEPT !.phase = "caching", !.attempt = 1, !.ran = TRUE]
<1>1. /\ op[o].phase = "saving" /\ op[o] \in OpStates
      /\ Executes(o, orphans) /\ UNCHANGED <<lostAck, straggled>>
      /\ op' = [op EXCEPT ![o] = u]
  BY Before DEF SaveCommits
<1>2. GoodOrphan(op[o]) /\ Fits(op[o].kind, op[o].to)
  BY <1>1, Orphaning
<1>3. /\ u \in OpStates /\ u.phase = "caching" /\ u.ran
      /\ u.kind = op[o].kind /\ u.to = op[o].to
      /\ u.value = op[o].value /\ u.load = op[o].load
  BY <1>1, Attempts DEF OpStates
<1>4. UNCHANGED <<cache, load, greeted, now, orphans>>
  BY <1>1 DEF Executes
<1> HIDE DEF u
<1>5. GoodOp(u)
  BY <1>2, <1>3 DEF GoodOp, GoodOrphan
<1>6. WritesAs(o, u)
  BY <1>1, <1>2, <1>3, <1>4, <1>5, Before DEF WritesAs
<1>7. QED
  BY <1>1, <1>3, <1>6, Executing

\* An attempt lands: before its retry it is the commit, and after it, or after
\* the whole operation, it is the same row again unless it was overtaken.
LEMMA Landing ==
    ASSUME IInv, NEW o \in Ops, NEW n \in 1..MaxAttempts, Lands(o, n)
    PROVE  IInv'
<1> DEFINE u == [op[o] EXCEPT !.ran = (@ \/ op[o].phase = "saving")]
           left == orphans \ {<<o, n>>}
<1>1. /\ <<o, n>> \in orphans /\ op[o] \in OpStates
      /\ Executes(o, left) /\ op' = [op EXCEPT ![o] = u]
      /\ lostAck' = (lostAck \/ op[o].phase = "failed")
      /\ straggled' = (straggled \/ <<o, n>> \in overtaken)
  BY Before DEF Lands
<1>2. <<o, n>>[1] = o
  OBVIOUS
<1>3. GoodOrphan(op[o])
  BY <1>1, <1>2 DEF IInv
<1>4. op[o].ran \in BOOLEAN /\ GoodOp(op[o])
  BY <1>1 DEF OpStates, IInv
<1>5. /\ u \in OpStates /\ u.phase = op[o].phase
      /\ u.kind = op[o].kind /\ u.to = op[o].to
      /\ u.value = op[o].value /\ u.load = op[o].load
      /\ u.ran = (op[o].ran \/ op[o].phase = "saving")
  BY <1>1, <1>4 DEF OpStates
<1>6. UNCHANGED <<cache, load, greeted, now>> /\ orphans' = left
  BY <1>1 DEF Executes
<1>7. left \subseteq orphans
  OBVIOUS
<1> HIDE DEF u, left
<1>8. GoodOp(u) /\ (op[o].phase \in {"saving", "caching"} => u.ran)
  BY <1>4, <1>5 DEF GoodOp
<1>9. WritesAs(o, u)
  BY <1>1, <1>3, <1>5, <1>6, <1>7, <1>8, Before DEF WritesAs
<1>10. ASSUME Calm'
       PROVE  op[o].phase # "failed" /\ (op[o].phase = "done" => op[o].value = intended)
  <2>1. Calm /\ op[o].phase # "failed" /\ <<o, n>> \in orphans \ overtaken
    <3>1. ~ overlapped
      BY <1>1, <1>10 DEF Executes, Calm
    <3>2. QED
      BY <1>1, <1>10, <3>1 DEF Calm
  <2>2. QED
    BY <1>2, <2>1 DEF IInv, UpToDate
<1>11. QED
  BY <1>1, <1>5, <1>7, <1>8, <1>9, <1>10, Executing

LEMMA NotSaving ==
    ASSUME IInv, NEW o \in Ops, SaveFails(o) \/ SaveRetries(o) \/ WritesThrough(o)
    PROVE  IInv'
<1> DEFINE gone == [op[o] EXCEPT !.phase = "failed", !.attempt = 1, !.ran = FALSE]
           again == [op[o] EXCEPT !.attempt = @ + 1]
           done == [op[o] EXCEPT !.phase = "done", !.ran = FALSE]
           v == op[o].value
<1>1. /\ op[o] \in OpStates /\ cache \in Caches /\ lostAck \in BOOLEAN /\ straggled \in BOOLEAN
      /\ op[o].phase \in {"saving", "caching"}
  BY Before DEF SaveFails, SaveRetries, WritesThrough
<1>2. GoodOrphan(op[o]) /\ Fits(op[o].kind, op[o].to) /\ GoodOp(op[o])
  BY <1>1, Orphaning DEF IInv
<1>3. CASE SaveFails(o)
  <2>1. /\ op[o].phase = "saving" /\ op' = [op EXCEPT ![o] = gone]
        /\ orphans' \in {orphans, orphans \cup {Orphan(o)}}
        /\ lostAck' = (lostAck \/ op[o].ran)
        /\ UNCHANGED <<row, cache, load, saved, greeted, intended, overlapped, overtaken,
                       straggled, now>>
    BY <1>3, Before DEF SaveFails
  <2>2. /\ gone \in OpStates /\ gone.phase = "failed" /\ gone.ran = FALSE
        /\ gone.kind = op[o].kind /\ gone.to = op[o].to
        /\ gone.value = op[o].value /\ gone.load = op[o].load
    BY <1>1, Attempts DEF OpStates
  <2>3. op[o].ran \in BOOLEAN
    BY <1>1 DEF OpStates
  <2> HIDE DEF gone
  <2>4. GoodOp(gone)
    BY <1>2, <2>2 DEF GoodOp
  <2>5. WritesAs(o, gone)
    BY <1>1, <1>2, <2>1, <2>2, <2>3, <2>4 DEF WritesAs
  <2>6. Calm' => gone.ran = op[o].ran
    BY <2>1, <2>2, <2>3 DEF Calm
  <2>7. QED
    BY <2>1, <2>2, <2>5, <2>6, Moving
<1>4. CASE SaveRetries(o)
  <2>1. /\ op[o].phase = "saving" /\ op' = [op EXCEPT ![o] = again] /\ op[o].attempt < MaxAttempts
        /\ orphans' = orphans \cup {Orphan(o)}
        /\ UNCHANGED <<row, cache, load, saved, greeted, intended, overlapped, lostAck, overtaken,
                       straggled, now>>
    BY <1>4, Before DEF SaveRetries, RetriesWrite, history
  <2>2. /\ again \in OpStates /\ again.phase = "saving" /\ again.ran = op[o].ran
        /\ again.kind = op[o].kind /\ again.to = op[o].to
        /\ again.value = op[o].value /\ again.load = op[o].load
    BY <1>1, <2>1, Attempts DEF OpStates
  <2> HIDE DEF again
  <2>3. GoodOp(again)
    BY <1>2, <2>1, <2>2 DEF GoodOp
  <2>4. WritesAs(o, again)
    BY <1>1, <1>2, <2>1, <2>2, <2>3 DEF WritesAs
  <2>5. QED
    BY <2>1, <2>2, <2>4, Moving
<1>5. CASE WritesThrough(o)
  <2>1. /\ op[o].phase = "caching" /\ op' = [op EXCEPT ![o] = done]
        /\ cache' = Put(cache, Guild, v, now)
        /\ UNCHANGED <<row, load, orphans, saved, greeted, intended, overlapped, lostAck, overtaken,
                       straggled, now>>
    BY <1>5, Before DEF WritesThrough, Cached, history
  <2>2. /\ done \in OpStates /\ done.phase = "done" /\ done.ran = FALSE
        /\ done.kind = op[o].kind /\ done.to = op[o].to
        /\ done.value = op[o].value /\ done.load = op[o].load
    BY <1>1, <2>1 DEF OpStates
  <2>3. v \in Settings
    BY <1>1 DEF OpStates
  <2> HIDE DEF done, v
  <2>4. /\ cache' \in Caches /\ cache'.inFlight[Guild] = cache.inFlight[Guild]
        /\ cache'.entries[Guild].value = v
    <3>1. /\ Put(cache, Guild, v, now) \in Caches
          /\ Put(cache, Guild, v, now).entries[Guild].value = v
          /\ Put(cache, Guild, v, now).inFlight[Guild] = cache.inFlight[Guild]
      BY <2>3, Before, PutCache
    <3>2. cache' = Put(cache, Guild, v, now)
      BY <2>1
    <3>3. QED
      BY <3>1, <3>2
  <2>5. GoodOp(done)
    BY <1>2, <2>2 DEF GoodOp
  <2>6. WritesAs(o, done)
    BY <1>1, <1>2, <2>1, <2>2, <2>4, <2>5 DEF WritesAs
  <2>7. QED
    BY <2>1, <2>2, <2>4, <2>6, Moving DEF v
<1>6. QED
  BY <1>3, <1>4, <1>5

-----------------------------------------------------------------------------
(* The sweeper and the clock, and the theorems *)

\* Only entries go, or only time.
LEMMA Passing ==
    ASSUME IInv, UNCHANGED <<row, op, load, orphans, history>>, now' \in Nat, cache' \in Caches,
           cache'.inFlight[Guild] = cache.inFlight[Guild],
           cache'.entries[Guild] \in {cache.entries[Guild], None}
    PROVE  IInv'
<1>1. UNCHANGED <<saved, greeted, intended, overlapped, lostAck, overtaken, straggled>>
  BY DEF history
<1>2. TypeOK' /\ GreetsAsSaved'
  BY <1>1 DEF IInv, TypeOK, GreetsAsSaved
<1>3. /\ OneLoad' /\ \A o \in Ops : GoodOp(op[o])'
      /\ \A x \in orphans' : GoodOrphan(op[x[1]])'
  BY DEF IInv, OneLoad, Loading
<1>4. Committed'
  BY <1>1 DEF IInv, Committed, Answered
<1>5. (Calm => Alone /\ UpToDate)'
  BY <1>1 DEF IInv, Calm, Alone, InProgress, UpToDate, Answered
<1>6. QED
  BY <1>2, <1>3, <1>4, <1>5 DEF IInv

LEMMA Stepping ==
    ASSUME IInv, [Next]_vars
    PROVE  IInv'
<1> DEFINE tos == Messages \cup Channels \cup {None}
<1>1. ASSUME NEW o \in Ops, BeginsReset(o)
      PROVE  IInv'
  BY <1>1, Resetting
<1>2. ASSUME NEW o \in Ops, NEW kind \in Kinds, NEW to \in tos,
             ReadsHit(o, kind, to) \/ JoinsLoad(o, kind, to) \/ StartsLoad(o, kind, to)
      PROVE  IInv'
  BY <1>2, Hitting, Joining, Starting
<1>3. ASSUME NEW o \in Ops, LoadReads(o) \/ LoadFails(o) \/ LoadStores(o) \/ LoadFinishes(o)
      PROVE  IInv'
  BY <1>3, Reading, Failing, Storing, Finishing
<1>4. ASSUME NEW o \in Ops, SaveCommits(o) \/ SaveFails(o) \/ SaveRetries(o) \/ WritesThrough(o)
      PROVE  IInv'
  BY <1>4, Committing, NotSaving
<1>5. ASSUME NEW o \in Ops, NEW n \in 1..MaxAttempts, Lands(o, n)
      PROVE  IInv'
  BY <1>5, Landing
<1>6. CASE Sweeps
  <2>1. cache' = SweepCache(cache, now) /\ UNCHANGED <<row, op, load, orphans, history, now>>
    BY <1>6 DEF Sweeps
  <2>2. /\ cache' \in Caches /\ cache'.inFlight[Guild] = cache.inFlight[Guild]
        /\ cache'.entries[Guild] \in {cache.entries[Guild], None}
    BY <2>1, SweptCache, Before
  <2>3. QED
    BY <2>1, <2>2, Before, Passing
<1>7. CASE Tick
  BY <1>7, Before, Passing DEF Tick
<1>8. CASE UNCHANGED vars
  BY <1>8, Before, Passing DEF vars
<1>9. QED
  BY <1>1, <1>2, <1>3, <1>4, <1>5, <1>6, <1>7, <1>8 DEF Next

LEMMA Starts ==
    ASSUME Init
    PROVE  IInv
<1> DEFINE r == Begun(None, "view", None)
<1>1. r \in OpStates /\ r.phase = "new" /\ r.load = None /\ ~ r.ran /\ GoodOp(r)
  BY EmptyIs, BoundsAssumption DEF Begun, OpStates, Kinds, GoodOp, Fits
<1>2. Idle \in LoadStates /\ Idle.phase = "idle"
  BY DEF Idle, LoadStates
<1>3. /\ EmptyCache \in Caches
      /\ EmptyCache.entries[Guild] = None /\ EmptyCache.inFlight[Guild] = None
  BY NoneIs DEF EmptyCache, Caches
<1>4. op = [o \in Ops |-> r]
  BY DEF Init, Begun
<1> HIDE DEF r
<1>5. \A o \in Ops : op[o] = r /\ load[o] = Idle
  BY <1>4 DEF Init
<1>6. TypeOK
  BY <1>1, <1>2, <1>3, <1>4, EmptyIs DEF Init, TypeOK
<1>7. /\ OneLoad /\ \A o \in Ops : GoodOp(op[o])
      /\ \A x \in orphans : GoodOrphan(op[x[1]])
  BY <1>1, <1>2, <1>3, <1>5 DEF Init, OneLoad, Loading
<1>8. Found(row) = EmptySettings
  BY DEF Init, Found
<1>9. Committed
  BY <1>1, <1>2, <1>3, <1>5, <1>8, EmptyIs DEF Init, Committed, Answered
<1>10. GreetsAsSaved
  BY <1>6 DEF Init, GreetsAsSaved
<1>11. Alone /\ UpToDate
  BY <1>1, <1>2, <1>3, <1>5, <1>8 DEF Init, Alone, InProgress, UpToDate, Answered
<1>12. QED
  BY <1>6, <1>7, <1>9, <1>10, <1>11 DEF IInv

\* The inductive invariant: one load at a time, whose waiters are known;
\* nothing may be read, stored, greeted with or landed that is not a row a
\* change computed; and, as long as no commit falls beside another operation,
\* no committed change is reported as failed and no overtaken attempt lands,
\* the row, what is being loaded, stored and written through, and what an
\* attempt may still store that nobody has overtaken, are the changes so far
\* (configure-welcome.usecase.ts:40-42, 79-81, 113-124, retry.policy.ts:153-158).
THEOREM Inductive == Spec => []IInv
<1>1. Init => IInv
  BY Starts
<1>2. IInv /\ [Next]_vars => IInv'
  BY Stepping
<1>3. QED
  BY <1>1, <1>2, PTL DEF Spec

\* Every greeting is made of one committed row that holds a message and a
\* channel (welcome.rules.ts:72-82, configure-welcome.usecase.ts:96-99).
THEOREM GreetsRight == Spec => []GreetsAsSaved
<1>1. IInv => GreetsAsSaved
  BY DEF IInv
<1>2. QED
  BY <1>1, Inductive, PTL

\* The row is what the accepted changes make of it, one after the other, and a
\* cached row is the row, as long as no commit falls beside another operation,
\* no committed change is reported as failed and no broken attempt lands after
\* the commit of someone else.  An attempt that breaks and is sent again, and
\* that the server runs before the retry, after it, beside the write-through
\* or after the whole operation, is covered
\* (configure-welcome.usecase.ts:113-124, retry.policy.ts:153-158).
THEOREM NoneLost == Spec => []ChangesKept
<1>1. IInv => ChangesKept
  BY DEF IInv, Calm, UpToDate, ChangesKept
<1>2. QED
  BY <1>1, Inductive, PTL
=============================================================================
