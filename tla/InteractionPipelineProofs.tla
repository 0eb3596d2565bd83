---------------------- MODULE InteractionPipelineProofs ----------------------
(***************************************************************************)
(* What InteractionPipeline promises for any delays, any limit and window  *)
(* of the cooldown, and any clock: one first reply, in time, one thing     *)
(* said, and failures that are whispered.                                  *)
(***************************************************************************)
EXTENDS InteractionPipeline, FiniteSetTheorems, SequenceTheorems, TLAPS

Answering == {"responding", "reporting"}

\* The interaction is not there yet.
Fresh ==
    phase = "new" =>
        /\ route = "command" /\ timer = None /\ ~ acked /\ pending = "settled" /\ call = None
        /\ ~ firstTaken /\ ~ thinking /\ shown = {} /\ panel = None
        /\ placeholder = None /\ overheard = {} /\ refusals = {} /\ ~ troubled

Asked ==
    /\ mode \in Modes(route)
    /\ visibility = "public" => mode = "immediate" \/ route = "command" \/ OnMessage
    /\ startedAt <= now

\* What run() awaits, and what it has to say, in each of its phases.
Flow ==
    /\ timer # None => phase = "handling" /\ mode = "auto" /\ ~ acked /\ pending = "settled"
    /\ pending # "settled" => acked
    /\ pending \in {"fault", "gone"} => ~ OnMessage
    /\ phase = "deferring" => mode = "immediate" /\ pending = "inFlight"
    /\ phase = "responding" => response = result /\ result \in Responses
    /\ phase = "reporting" => response \in {"refusal", "incident"}
    /\ phase = "done" /\ result # "gone" => pending # "inFlight"
    /\ mode = "never" /\ phase # "done" => ~ acked
    /\ mode = "immediate" /\ phase \in {"deferring", "handling", "responding"} => acked

\* The call that is under way is the one that respond() chose.
CallFits ==
    /\ call # None => pending = "settled" /\ phase \in Answering \cup {"unroutable"}
    /\ phase = "unroutable" =>
        /\ call # None /\ call.kind = "reply" /\ call.content = "refusal"
        /\ ~ OnMessage /\ ~ acked /\ mode = "auto" /\ result = "unroutable"
    /\ call # None /\ phase \in Answering =>
        /\ call.kind = CallFor /\ call.content = Content
        /\ ~ CannotOpen /\ ~ NothingToSend

\* Until a call is lost, the responder knows what Discord has.
FirstFits ==
    ~ troubled =>
        /\ {"duplicate", "premature"} \cap refusals = {}
        /\ ~ acked /\ phase # "done" => ~ firstTaken
        /\ ~ OnMessage /\ pending = "inFlight" => ~ firstTaken
        /\ ~ OnMessage /\ acked /\ pending = "settled" => firstTaken

\* And what it has to wait for.
InTime ==
    ~ troubled /\ mode # "never" /\ ~ OnMessage =>
        /\ timer # None => timer = startedAt + AutoDeferAfter /\ now <= timer
        /\ pending = "inFlight" =>
            typedAt <= startedAt + AutoDeferAfter /\ now <= typedAt + CallMs
        /\ phase = "handling" /\ ~ acked => timer # None
        /\ phase \in Answering /\ ~ acked /\ call = None => now <= startedAt + AutoDeferAfter
        /\ call # None /\ ~ acked =>
            call.sentAt <= startedAt + AutoDeferAfter /\ now <= call.sentAt + CallMs

Whispered ==
    /\ placeholder # None => firstTaken /\ ~ OnMessage /\ ~ InPlace
    /\ placeholder = "public" => route = "command" \/ mode = "immediate"
    /\ overheard # {} => firstTaken \/ OnMessage

\* As long as no call was lost or late, nothing is said before the last word.
Untroubled == ~ troubled /\ "expired" \notin refusals

Silent ==
    /\ thinking => firstTaken /\ ~ InPlace /\ ~ OnMessage
    /\ Untroubled =>
        /\ pending \notin {"fault", "gone"}
        /\ phase # "done" => shown = {} /\ panel = None
        /\ phase = "reporting" =>
            \/ response = "refusal" /\ result = "refusal"
            \/ response = "incident" /\ result = "fault"
            \/ /\ response = "incident" /\ result = "form" /\ ~ OnMessage
               /\ CanOpenForm => mode # "never"

Windows == [count : Nat, expiresAt : Nat]

\* The attempts let in after t, and those of them up to u.
Since(a, t) == {i \in DOMAIN a : a[i] > t}
Within(a, t, u) == {i \in DOMAIN a : a[i] > t /\ a[i] <= u}

\* The window of w opened with an attempt that it let in, after those before
\* it had ended, and has let in its limit since.
Opened(w, a, n) ==
    LET o == w.expiresAt - WindowMs
    IN  /\ o \in Nat /\ o <= n
        /\ \A i \in DOMAIN a : a[i] < w.expiresAt
        /\ \E i \in DOMAIN a : a[i] = o
        /\ Cardinality(Since(a, o - 1)) <= Limit /\ Cardinality(Since(a, o - 1)) <= w.count
        /\ Cardinality(Within(a, o - WindowMs, o - 1)) <= Limit - 1

Cool(w, a, n) ==
    /\ w \in Windows \cup {None} /\ n \in Nat
    /\ a \in Seq(Nat) /\ \A i \in DOMAIN a : a[i] <= n
    /\ w # None => Opened(w, a, n)
    /\ ~ Open(w, n) =>
        (\A i \in DOMAIN a : a[i] < n) /\ Cardinality(Since(a, n - WindowMs)) <= Limit - 1
    /\ \A t \in -1..n : Cardinality(Within(a, t, t + WindowMs)) <= 2 * Limit - 1

IInv ==
    /\ TypeOK /\ Fresh /\ Asked /\ Flow /\ CallFits
    /\ FirstFits /\ InTime /\ Whispered /\ Silent
    /\ AnsweredInTime /\ FailuresAreWhispered /\ SaysOneThing
    /\ Cool(window, admitted, now)

-----------------------------------------------------------------------------
(* Constants *)

LEMMA Times ==
    /\ AutoDeferAfter \in Nat /\ DeadlineMs \in Nat \ {0} /\ CallMs \in Nat
    /\ Limit \in Nat \ {0} /\ WindowMs \in Nat \ {0}
BY TimesAssumption, CooldownAssumption

LEMMA NoneIs ==
    /\ None \notin Nat /\ None \notin Said /\ None \notin Calls /\ None \notin Windows
    /\ None # "none" /\ None # "public" /\ None # "ephemeral"
BY NoneAssumption DEF Windows

-----------------------------------------------------------------------------
(* The cooldown *)

LEMMA WindowTyped ==
    ASSUME NEW w \in Windows \cup {None}, NEW t \in Nat
    PROVE  AfterHit(w, t) \in Windows /\ SweepWindow(w, t) \in Windows \cup {None}
BY Times DEF Windows, AfterHit, SweepWindow, Open, NoWindow

LEMMA Counts ==
    ASSUME NEW a \in Seq(Nat), NEW S, NEW T, S \subseteq T, T \subseteq DOMAIN a
    PROVE  /\ IsFiniteSet(S) /\ IsFiniteSet(T)
           /\ Cardinality(S) \in Nat /\ Cardinality(T) \in Nat
           /\ Cardinality(S) <= Cardinality(T)
           /\ S # T => Cardinality(S) <= Cardinality(T) - 1
<1>1. DOMAIN a = 1..Len(a) /\ Len(a) \in Nat
  BY LenProperties
<1>2. IsFiniteSet(DOMAIN a)
  BY <1>1, FS_Interval
<1>3. IsFiniteSet(T)
  BY <1>2, FS_Subset
<1>4. IsFiniteSet(S) /\ Cardinality(S) <= Cardinality(T)
      /\ (Cardinality(S) = Cardinality(T) => S = T)
  BY <1>3, FS_Subset
<1>5. Cardinality(S) \in Nat /\ Cardinality(T) \in Nat
  BY <1>3, <1>4, FS_CardinalityType
<1>6. QED
  BY <1>3, <1>4, <1>5

\* One more is let in.
LEMMA LetIn ==
    ASSUME NEW a \in Seq(Nat), NEW n \in Nat
    PROVE  LET b == Append(a, n)
               new == Len(a) + 1
           IN  /\ b \in Seq(Nat) /\ new \notin DOMAIN a /\ DOMAIN b = DOMAIN a \cup {new}
               /\ b[new] = n /\ \A i \in DOMAIN a : b[i] = a[i] /\ a[i] \in Nat
<1>1. DOMAIN a = 1..Len(a) /\ Len(a) \in Nat
  BY LenProperties
<1>2. /\ Append(a, n) \in Seq(Nat) /\ Len(Append(a, n)) = Len(a) + 1
      /\ \A i \in 1..Len(a) : Append(a, n)[i] = a[i]
      /\ Append(a, n)[Len(a) + 1] = n
  BY AppendProperties
<1>3. DOMAIN Append(a, n) = 1..(Len(a) + 1)
  BY <1>2, LenProperties
<1>4. 1..(Len(a) + 1) = 1..Len(a) \cup {Len(a) + 1} /\ Len(a) + 1 \notin 1..Len(a)
  BY <1>1
<1>5. \A i \in DOMAIN a : a[i] \in Nat
  BY <1>1, ElementOfSeq
<1>6. QED
  BY <1>1, <1>2, <1>3, <1>4, <1>5

LEMMA LetInSince ==
    ASSUME NEW a \in Seq(Nat), NEW n \in Nat, NEW t \in Int, t < n
    PROVE  Cardinality(Since(Append(a, n), t)) = Cardinality(Since(a, t)) + 1
<1> DEFINE b == Append(a, n)
           new == Len(a) + 1
<1>1. /\ new \notin DOMAIN a /\ DOMAIN b = DOMAIN a \cup {new}
      /\ b[new] = n /\ \A i \in DOMAIN a : b[i] = a[i] /\ a[i] \in Nat
  BY LetIn
<1> HIDE DEF b, new
<1>2. IsFiniteSet(Since(a, t))
  <2>1. Since(a, t) \subseteq DOMAIN a
    BY DEF Since
  <2>2. QED
    BY <2>1, Counts
<1>3. new \notin Since(a, t) /\ Since(b, t) = Since(a, t) \cup {new}
  BY <1>1 DEF Since
<1>4. QED
  BY <1>2, <1>3, FS_AddElement DEF b

LEMMA LetInOutside ==
    ASSUME NEW a \in Seq(Nat), NEW n \in Nat, NEW t \in Int, NEW u \in Int, t >= n \/ n > u
    PROVE  Within(Append(a, n), t, u) = Within(a, t, u)
<1> DEFINE b == Append(a, n)
           new == Len(a) + 1
<1>1. /\ DOMAIN b = DOMAIN a \cup {new} /\ b[new] = n
      /\ \A i \in DOMAIN a : b[i] = a[i]
  BY LetIn
<1> HIDE DEF b, new
<1>2. QED
  BY <1>1 DEF Within, b

\* What two windows let in: the second within its limit, and one less of the
\* first, whose opening is too long ago.
LEMMA TwoWindows ==
    ASSUME NEW a \in Seq(Nat), NEW o \in Nat, NEW t \in Int, t >= o - WindowMs,
           Cardinality(Since(a, o - 1)) <= Limit,
           Cardinality(Within(a, o - WindowMs, o - 1)) <= Limit - 1
    PROVE  Cardinality(Within(a, t, t + WindowMs)) <= 2 * Limit - 1
<1> DEFINE S == Since(a, o - 1)
           T == Within(a, o - WindowMs, o - 1)
           W == Within(a, t, t + WindowMs)
<1>1. \A i \in DOMAIN a : a[i] \in Nat
  BY LetIn
<1>2. S \subseteq DOMAIN a /\ T \subseteq DOMAIN a /\ W \subseteq DOMAIN a
  BY DEF Since, Within
<1>3. W \subseteq S \cup T
  BY <1>1, Times DEF Since, Within
<1>4. S \cap T = {}
  BY <1>1, Times DEF Since, Within
<1> HIDE DEF S, T, W
<1>5. IsFiniteSet(S) /\ IsFiniteSet(T) /\ Cardinality(S) \in Nat /\ Cardinality(T) \in Nat
  BY <1>2, Counts
<1>6. Cardinality(S \cup T) = Cardinality(S) + Cardinality(T)
  <2>1. Cardinality(S \cap T) = 0
    BY <1>4, FS_EmptySet
  <2>2. Cardinality(S \cup T) = Cardinality(S) + Cardinality(T) - Cardinality(S \cap T)
    BY <1>5, FS_Union
  <2>3. QED
    BY <1>5, <2>1, <2>2
<1>7. Cardinality(W) \in Nat /\ Cardinality(W) <= Cardinality(S \cup T)
  BY <1>2, <1>3, Counts
<1>8. Cardinality(S) <= Limit /\ Cardinality(T) <= Limit - 1
  BY DEF S, T
<1>9. QED
  BY <1>5, <1>6, <1>7, <1>8, Times DEF W

LEMMA CoolAll ==
    ASSUME NEW w, NEW a, NEW n, Cool(w, a, n), NEW t \in Int
    PROVE  Cardinality(Within(a, t, t + WindowMs)) <= 2 * Limit - 1
<1>1. a \in Seq(Nat) /\ n \in Nat /\ \A i \in DOMAIN a : a[i] \in Nat /\ a[i] <= n
  BY LetIn DEF Cool
<1>2. CASE t \in -1..n
  BY <1>2 DEF Cool
<1>3. CASE t > n
  <2>1. Within(a, t, t + WindowMs) = {}
    BY <1>1, <1>3 DEF Within
  <2>2. QED
    BY <2>1, FS_EmptySet, Times
<1>4. CASE t < -1
  <2> DEFINE S == Within(a, t, t + WindowMs)
             T == Within(a, -1, -1 + WindowMs)
  <2>1. S \subseteq T /\ T \subseteq DOMAIN a
    BY <1>1, <1>4, Times DEF Within
  <2>2. Cardinality(S) \in Nat /\ Cardinality(T) \in Nat /\ Cardinality(S) <= Cardinality(T)
    BY <1>1, <2>1, Counts
  <2>3. Cardinality(T) <= 2 * Limit - 1
    BY <1>1 DEF Cool
  <2>4. QED
    BY <2>2, <2>3, Times
<1>5. QED
  BY <1>1, <1>2, <1>3, <1>4

LEMMA CoolHit ==
    ASSUME NEW w, NEW a, NEW n, Cool(w, a, n)
    PROVE  Cool(AfterHit(w, n), IF AllowsHit(w, n) THEN Append(a, n) ELSE a, n)
<1> DEFINE v == AfterHit(w, n)
           b == Append(a, n)
<1>0. w \in Windows \cup {None} /\ n \in Nat /\ a \in Seq(Nat) /\ v \in Windows
  BY WindowTyped DEF Cool
<1>1. /\ b \in Seq(Nat) /\ DOMAIN b = DOMAIN a \cup {Len(a) + 1}
      /\ b[Len(a) + 1] = n /\ \A i \in DOMAIN a : b[i] = a[i] /\ a[i] \in Nat
  BY <1>0, LetIn
<1>2. CASE Open(w, n)
  <2> DEFINE o == w.expiresAt - WindowMs
  <2>1. /\ v = [count |-> w.count + 1, expiresAt |-> w.expiresAt] /\ v \in Windows /\ v # None
        /\ w \in Windows /\ w # None /\ n < w.expiresAt
    BY <1>0, <1>2, NoneIs DEF AfterHit, Open, Windows
  <2>2. Opened(w, a, n)
    BY <2>1 DEF Cool
  <2>3. w.count \in Nat /\ w.expiresAt \in Nat /\ o \in Nat /\ o <= n
    BY <2>1, <2>2 DEF Opened, Windows
  <2>4. CASE w.count + 1 <= Limit
    <3>1. AllowsHit(w, n)
      BY <2>1, <2>4 DEF AllowsHit
    <3>2. /\ Cardinality(Since(b, o - 1)) <= w.count + 1 /\ Cardinality(Since(b, o - 1)) <= Limit
          /\ Cardinality(Within(b, o - WindowMs, o - 1)) <= Limit - 1
      <4>1. Cardinality(Since(b, o - 1)) = Cardinality(Since(a, o - 1)) + 1
        BY <1>0, <2>3, LetInSince
      <4>2. Within(b, o - WindowMs, o - 1) = Within(a, o - WindowMs, o - 1)
        BY <1>0, <2>3, LetInOutside, Times
      <4>3. Cardinality(Since(a, o - 1)) \in Nat
        <5>1. Since(a, o - 1) \subseteq DOMAIN a
          BY DEF Since
        <5>2. QED
          BY <1>0, <5>1, Counts
      <4>4. QED
        BY <2>2, <2>3, <2>4, <4>1, <4>2, <4>3, Times DEF Opened
    <3>3. Opened(v, b, n)
      <4>1. \A i \in DOMAIN b : b[i] < v.expiresAt
        BY <1>1, <2>1, <2>2 DEF Opened
      <4>2. \E i \in DOMAIN b : b[i] = o
        BY <1>1, <2>2 DEF Opened
      <4>3. QED
        BY <2>1, <2>3, <3>2, <4>1, <4>2 DEF Opened
    <3>4. \A t \in Int : Cardinality(Within(b, t, t + WindowMs)) <= 2 * Limit - 1
      <4> SUFFICES ASSUME NEW t \in Int
                   PROVE  Cardinality(Within(b, t, t + WindowMs)) <= 2 * Limit - 1
        OBVIOUS
      <4>1. CASE t >= o - WindowMs
        BY <1>1, <2>3, <3>2, <4>1, TwoWindows
      <4>2. CASE t < o - WindowMs
        <5>1. Within(b, t, t + WindowMs) = Within(a, t, t + WindowMs)
          BY <1>0, <2>3, <4>2, LetInOutside, Times
        <5>2. QED
          BY <5>1, CoolAll
      <4>3. QED
        BY <2>3, <4>1, <4>2, Times
    <3>5. Open(v, n)
      BY <2>1 DEF Open
    <3>6. \A i \in DOMAIN b : b[i] <= n
      BY <1>0, <1>1 DEF Cool
    <3>7. QED
      BY <1>0, <1>1, <2>1, <3>1, <3>3, <3>4, <3>5, <3>6 DEF Cool
  <2>5. CASE ~ (w.count + 1 <= Limit)
    <3>1. ~ AllowsHit(w, n)
      BY <1>2, <2>1, <2>5 DEF AllowsHit
    <3>2. Opened(v, a, n)
      <4>1. Cardinality(Since(a, o - 1)) \in Nat
        <5>1. Since(a, o - 1) \subseteq DOMAIN a
          BY DEF Since
        <5>2. QED
          BY <1>0, <5>1, Counts
      <4>2. QED
        BY <2>1, <2>2, <2>3, <4>1 DEF Opened
    <3>3. Open(v, n)
      BY <2>1 DEF Open
    <3>4. QED
      BY <1>0, <2>1, <3>1, <3>2, <3>3 DEF Cool
  <2>6. QED
    BY <2>4, <2>5
<1>3. CASE ~ Open(w, n)
  <2>1. /\ v = [count |-> 1, expiresAt |-> n + WindowMs] /\ v # None /\ AllowsHit(w, n) /\ Open(v, n)
        /\ v.count = 1 /\ v.expiresAt - WindowMs = n
    BY <1>0, <1>3, NoneIs, Times DEF AfterHit, AllowsHit, Open
  <2>2. (\A i \in DOMAIN a : a[i] < n) /\ Cardinality(Since(a, n - WindowMs)) <= Limit - 1
    BY <1>3 DEF Cool
  <2>3. Cardinality(Since(b, n - 1)) = 1
    <3>1. Since(a, n - 1) = {}
      BY <1>0, <1>1, <2>2 DEF Since
    <3>2. Cardinality(Since(b, n - 1)) = Cardinality(Since(a, n - 1)) + 1
      BY <1>0, LetInSince
    <3>3. QED
      BY <3>1, <3>2, FS_EmptySet
  <2>4. Cardinality(Within(b, n - WindowMs, n - 1)) <= Limit - 1
    <3>1. Within(b, n - WindowMs, n - 1) = Within(a, n - WindowMs, n - 1)
      BY <1>0, LetInOutside, Times
    <3>2. Within(a, n - WindowMs, n - 1) \subseteq Since(a, n - WindowMs)
          /\ Since(a, n - WindowMs) \subseteq DOMAIN a
      BY DEF Within, Since
    <3>3. QED
      BY <1>0, <2>2, <3>1, <3>2, Counts, Times
  <2>5. Opened(v, b, n)
    <3>1. \A i \in DOMAIN b : b[i] < v.expiresAt
      BY <1>0, <1>1, <2>1, <2>2, Times
    <3>2. Len(a) + 1 \in DOMAIN b
      BY <1>1
    <3>3. QED
      BY <1>0, <1>1, <2>1, <2>3, <2>4, <3>1, <3>2, Times DEF Opened
  <2>6. \A t \in Int : Cardinality(Within(b, t, t + WindowMs)) <= 2 * Limit - 1
    <3> SUFFICES ASSUME NEW t \in Int
                 PROVE  Cardinality(Within(b, t, t + WindowMs)) <= 2 * Limit - 1
      OBVIOUS
    <3>1. CASE t >= n - WindowMs
      <4>1. Cardinality(Since(b, n - 1)) <= Limit
        BY <2>3, Times
      <4>2. QED
        BY <1>0, <1>1, <2>4, <3>1, <4>1, TwoWindows
    <3>2. CASE t < n - WindowMs
      <4>1. Within(b, t, t + WindowMs) = Within(a, t, t + WindowMs)
        BY <1>0, <3>2, LetInOutside, Times
      <4>2. QED
        BY <4>1, CoolAll
    <3>3. QED
      BY <1>0, <3>1, <3>2, Times
  <2>7. \A i \in DOMAIN b : b[i] <= n
    BY <1>0, <1>1 DEF Cool
  <2>8. QED
    BY <1>0, <1>1, <2>1, <2>5, <2>6, <2>7 DEF Cool
<1>4. QED
  BY <1>2, <1>3

LEMMA CoolSweep ==
    ASSUME NEW w, NEW a, NEW n, Cool(w, a, n)
    PROVE  Cool(SweepWindow(w, n), a, n)
BY DEF Cool, SweepWindow, NoWindow, Open

LEMMA CoolTick ==
    ASSUME NEW w, NEW a, NEW n, Cool(w, a, n)
    PROVE  Cool(w, a, n + 1)
<1>1. w \in Windows \cup {None} /\ n \in Nat /\ a \in Seq(Nat) /\ \A i \in DOMAIN a : a[i] \in Nat /\ a[i] <= n
  BY LetIn DEF Cool
<1>2. w # None => Opened(w, a, n + 1)
  BY <1>1 DEF Cool, Opened
<1>3. ASSUME ~ Open(w, n + 1)
      PROVE  (\A i \in DOMAIN a : a[i] < n + 1) /\ Cardinality(Since(a, (n + 1) - WindowMs)) <= Limit - 1
  <2>1. CASE ~ Open(w, n)
    <3>1. Since(a, (n + 1) - WindowMs) \subseteq Since(a, n - WindowMs)
          /\ Since(a, n - WindowMs) \subseteq DOMAIN a
      BY <1>1, Times DEF Since
    <3>2. /\ Cardinality(Since(a, (n + 1) - WindowMs)) <= Cardinality(Since(a, n - WindowMs))
          /\ Cardinality(Since(a, (n + 1) - WindowMs)) \in Nat
          /\ Cardinality(Since(a, n - WindowMs)) \in Nat
      BY <1>1, <3>1, Counts
    <3>3. (\A i \in DOMAIN a : a[i] < n) /\ Cardinality(Since(a, n - WindowMs)) <= Limit - 1
      BY <2>1 DEF Cool
    <3>4. QED
      BY <1>1, <3>2, <3>3, Times
  <2>2. CASE Open(w, n)
    <3> DEFINE o == w.expiresAt - WindowMs
               S == Since(a, o - 1)
               T == Since(a, o)
    <3>1. w.expiresAt = n + 1 /\ w # None /\ w \in Windows
      BY <1>1, <1>3, <2>2 DEF Open, Windows
    <3>2. Opened(w, a, n)
      BY <3>1 DEF Cool
    <3>3. T \subseteq S /\ S \subseteq DOMAIN a /\ T # S
      BY <1>1, <3>1, <3>2, Times DEF Since, Opened
    <3>4. Cardinality(T) <= Cardinality(S) - 1 /\ Cardinality(T) \in Nat /\ Cardinality(S) \in Nat
      BY <1>1, <3>3, Counts
    <3>5. Cardinality(S) <= Limit
      BY <3>2 DEF Opened
    <3>6. QED
      BY <1>1, <3>1, <3>4, <3>5, Times
  <2>3. QED
    BY <2>1, <2>2
<1>4. n + 1 \in Nat /\ \A i \in DOMAIN a : a[i] <= n + 1
  BY <1>1
<1>5. \A t \in Int : Cardinality(Within(a, t, t + WindowMs)) <= 2 * Limit - 1
  BY CoolAll
<1>6. ~ Open(w, n + 1) =>
        (\A i \in DOMAIN a : a[i] < n + 1) /\ Cardinality(Since(a, (n + 1) - WindowMs)) <= Limit - 1
  BY <1>3
<1>7. QED
  BY <1>1, <1>2, <1>4, <1>5, <1>6 DEF Cool

LEMMA CoolInit == ASSUME NEW n \in Nat PROVE Cool(None, <<>>, n)
<1>1. <<>> \in Seq(Nat) /\ DOMAIN <<>> = {}
  OBVIOUS
<1>2. \A t \in Int : Within(<<>>, t, t + WindowMs) = {}
  BY <1>1 DEF Within
<1>3. Since(<<>>, n - WindowMs) = {}
  BY <1>1 DEF Since
<1>4. Cardinality({}) = 0 /\ 0 <= Limit - 1 /\ 0 <= 2 * Limit - 1
  BY FS_EmptySet, Times
<1>5. \A t \in Int : Cardinality(Within(<<>>, t, t + WindowMs)) <= 2 * Limit - 1
  BY <1>2, <1>4
<1>6. \A t \in -1..n : Cardinality(Within(<<>>, t, t + WindowMs)) <= 2 * Limit - 1
  BY <1>5
<1>7. \A i \in DOMAIN <<>> : <<>>[i] <= n /\ <<>>[i] < n
  BY <1>1
<1>8. Cardinality(Since(<<>>, n - WindowMs)) <= Limit - 1
  BY <1>3, <1>4
<1>9. QED
  BY <1>1, <1>6, <1>7, <1>8 DEF Cool

-----------------------------------------------------------------------------
(* The interaction starts. *)

LEMMA Attempted ==
    ASSUME IInv, Attempt
    PROVE  Cool(window', admitted', now)
<1>1. Cool(AfterHit(window, now), IF AllowsHit(window, now) THEN Append(admitted, now) ELSE admitted, now)
  BY CoolHit DEF IInv
<1>2. QED
  BY <1>1 DEF Attempt

LEMMA PassedCooldown ==
    ASSUME IInv, NEW cooled, PassesCooldown(cooled)
    PROVE  Cool(window', admitted', now)
<1>1. CASE Attempt
  BY <1>1, Attempted
<1>2. CASE UNCHANGED store
  BY <1>2 DEF store, IInv
<1>3. QED
  BY <1>1, <1>2 DEF PassesCooldown

\* Before it starts nothing has been said, sent or refused.
LEMMA Beginning ==
    ASSUME IInv, NEW r \in Routes, NEW m \in {"auto", "immediate", "never"}, Starts(r, m)
    PROVE  /\ timer = None /\ response \in Said \cup {"none", None} /\ call = None
           /\ ~ acked /\ acked \in BOOLEAN /\ pending = "settled"
           /\ route' = r /\ mode' = m /\ m \in Modes(r)
           /\ lag' \in Nat /\ startedAt' = now /\ now \in Nat /\ UNCHANGED now
           /\ visibility' \in Visibilities(r, m)
           /\ ~ firstTaken' /\ ~ thinking' /\ shown' = {} /\ panel' = None
           /\ placeholder' = None /\ overheard' = {} /\ refusals' = {} /\ ~ troubled'
           /\ {firstTaken, thinking, troubled}' \subseteq BOOLEAN
<1>1. phase = "new"
  BY DEF Starts
<1>2. lag' \in Nat
  BY BoundsAssumption DEF Starts
<1>3. QED
  BY <1>1, <1>2 DEF Starts, IInv, Fresh, TypeOK, discord, history

\* What every way to start has in common.
LEMMA Began ==
    ASSUME IInv, NEW r \in Routes, NEW m \in {"auto", "immediate", "never"}, Starts(r, m),
           phase' \in {"deferring", "handling", "reporting", "unroutable"},
           timer' \in Nat \cup {None}, response' \in Said \cup {"none", None},
           acked' \in BOOLEAN, pending' \in {"settled", "inFlight"}, typedAt' \in Nat,
           call' \in {None} \cup Calls, Cool(window', admitted', now)
    PROVE  /\ TypeOK' /\ Fresh' /\ Asked' /\ Whispered' /\ Cool(window, admitted, now)'
           /\ AnsweredInTime' /\ FailuresAreWhispered' /\ SaysOneThing'
<1>1. /\ route' = r /\ mode' = m /\ m \in Modes(r)
      /\ lag' \in Nat /\ startedAt' = now /\ now \in Nat /\ now' = now
      /\ visibility' \in Visibilities(r, m)
      /\ ~ firstTaken' /\ ~ thinking' /\ shown' = {} /\ panel' = None
      /\ placeholder' = None /\ overheard' = {} /\ refusals' = {} /\ ~ troubled'
      /\ {firstTaken, thinking, troubled}' \subseteq BOOLEAN
  BY Beginning
<1>2. window' \in [count : Nat, expiresAt : Nat] \cup {None}
  BY DEF Cool, Windows
<1>3. visibility' \in {"public", "ephemeral"}
      /\ (visibility' = "public" => m = "immediate" \/ r \in {"command", "message", "unsendable"})
  BY <1>1 DEF Visibilities
<1>4. TypeOK'
  BY <1>1, <1>2, <1>3 DEF TypeOK
<1>5. Asked'
  BY <1>1, <1>3 DEF Asked, OnMessage
<1>6. Fresh' /\ SaysOneThing'
  BY <1>1, NoneIs DEF Fresh, SaysOneThing, Said
<1>7. Whispered' /\ AnsweredInTime' /\ FailuresAreWhispered'
  BY <1>1, NoneIs DEF Whispered, AnsweredInTime, FailuresAreWhispered
<1>8. Cool(window, admitted, now)'
  BY <1>1
<1>9. QED
  BY <1>4, <1>5, <1>6, <1>7, <1>8

\* The cooldown's refusal, and an authorization's.
LEMMA StartsRefused ==
    ASSUME IInv, NEW r \in Routes, NEW m \in {"auto", "immediate", "never"}, NEW cooled,
           StartsTooFast(r, m) \/ StartsUnauthorized(r, m, cooled)
    PROVE  IInv'
<1>1. /\ Starts(r, m) /\ phase' = "reporting" /\ response' = "refusal" /\ result' = "refusal"
      /\ UNCHANGED <<timer, acked, pending, typedAt, call>>
  BY DEF StartsTooFast, StartsUnauthorized, Reports, Worded, responder
<1>2. Cool(window', admitted', now)
  BY Attempted, PassedCooldown DEF StartsTooFast, StartsUnauthorized
<1>3. /\ timer = None /\ call = None /\ ~ acked /\ acked \in BOOLEAN /\ pending = "settled"
      /\ route' = r /\ mode' = m /\ startedAt' = now /\ now' = now /\ now \in Nat
      /\ ~ firstTaken' /\ ~ thinking' /\ shown' = {} /\ panel' = None /\ refusals' = {} /\ ~ troubled'
  BY <1>1, Beginning
<1>4. typedAt' \in Nat
  BY <1>1 DEF IInv, TypeOK
<1>5. /\ TypeOK' /\ Fresh' /\ Asked' /\ Whispered' /\ Cool(window, admitted, now)'
      /\ AnsweredInTime' /\ FailuresAreWhispered' /\ SaysOneThing'
  BY <1>1, <1>2, <1>3, <1>4, Began DEF Said
<1>6. Flow' /\ CallFits' /\ Silent'
  BY <1>1, <1>3 DEF Flow, CallFits, Silent
<1>7. FirstFits' /\ InTime'
  BY <1>1, <1>3, Times DEF FirstFits, InTime
<1>8. QED
  BY <1>5, <1>6, <1>7 DEF IInv

LEMMA StartsDeferred ==
    ASSUME IInv, NEW r \in Routes, NEW m \in {"auto", "immediate", "never"}, NEW cooled,
           StartsDeferring(r, m, cooled)
    PROVE  IInv'
<1>1. /\ Starts(r, m) /\ phase' = "deferring" /\ m = "immediate"
      /\ acked' = TRUE /\ typedAt' = now /\ UNCHANGED <<timer, response, call>>
      /\ pending' = IF acked \/ route = "unsendable" THEN pending ELSE "inFlight"
  BY DEF StartsDeferring, Defers
<1>2. Cool(window', admitted', now)
  BY PassedCooldown DEF StartsDeferring
<1>3. /\ timer = None /\ call = None /\ ~ acked /\ response \in Said \cup {"none", None}
      /\ route' = r /\ mode' = m /\ m \in Modes(r) /\ startedAt' = now /\ now' = now /\ now \in Nat
      /\ ~ firstTaken' /\ ~ thinking' /\ shown' = {} /\ panel' = None /\ refusals' = {} /\ ~ troubled'
  BY <1>1, Beginning
<1>4. r \notin {"message", "unsendable"} /\ pending' = "inFlight"
  <2>1. route = "command"
    BY <1>1 DEF Starts, IInv, Fresh
  <2>2. QED
    BY <1>1, <1>3, <2>1 DEF Modes
<1>5. /\ TypeOK' /\ Fresh' /\ Asked' /\ Whispered' /\ Cool(window, admitted, now)'
      /\ AnsweredInTime' /\ FailuresAreWhispered' /\ SaysOneThing'
  BY <1>1, <1>2, <1>3, <1>4, Began
<1>6. Flow' /\ CallFits' /\ Silent'
  BY <1>1, <1>3, <1>4 DEF Flow, CallFits, Silent, OnMessage
<1>7. FirstFits' /\ InTime'
  BY <1>1, <1>3, <1>4, Times DEF FirstFits, InTime, Answering
<1>8. QED
  BY <1>5, <1>6, <1>7 DEF IInv

LEMMA StartsAtOnce ==
    ASSUME IInv, NEW r \in Routes, NEW m \in {"auto", "immediate", "never"}, NEW cooled,
           StartsHandling(r, m, cooled)
    PROVE  IInv'
<1>1. /\ Starts(r, m) /\ phase' = "handling" /\ m # "immediate" /\ timer' = DeferDue(m)
      /\ UNCHANGED <<response, acked, pending, typedAt, call>>
  BY DEF StartsHandling, responder
<1>2. Cool(window', admitted', now)
  BY PassedCooldown DEF StartsHandling
<1>3. /\ call = None /\ ~ acked /\ acked \in BOOLEAN /\ pending = "settled"
      /\ response \in Said \cup {"none", None}
      /\ route' = r /\ mode' = m /\ startedAt' = now /\ now' = now /\ now \in Nat
      /\ ~ firstTaken' /\ ~ thinking' /\ shown' = {} /\ panel' = None /\ refusals' = {} /\ ~ troubled'
  BY <1>1, Beginning
<1>4. /\ typedAt' \in Nat /\ timer' \in Nat \cup {None}
      /\ IF m = "auto" THEN timer' = now + AutoDeferAfter /\ timer' # None ELSE timer' = None
  BY <1>1, <1>3, Times, NoneIs DEF IInv, TypeOK, DeferDue
<1>5. /\ TypeOK' /\ Fresh' /\ Asked' /\ Whispered' /\ Cool(window, admitted, now)'
      /\ AnsweredInTime' /\ FailuresAreWhispered' /\ SaysOneThing'
  BY <1>1, <1>2, <1>3, <1>4, Began
<1>6. Flow' /\ CallFits' /\ Silent'
  BY <1>1, <1>3, <1>4 DEF Flow, CallFits, Silent, Answering
<1>7. FirstFits' /\ InTime'
  BY <1>1, <1>3, <1>4, Times DEF FirstFits, InTime, Answering
<1>8. QED
  BY <1>5, <1>6, <1>7 DEF IInv

LEMMA StartsUnknown ==
    ASSUME IInv, NEW r \in Routes, StartsUnroutable(r)
    PROVE  IInv'
<1>1. /\ Starts(r, "auto") /\ phase' = "unroutable" /\ r \notin {"message", "unsendable"}
      /\ call' = [kind |-> "reply", content |-> "refusal", sentAt |-> now] /\ result' = "unroutable"
      /\ UNCHANGED <<timer, response, acked, pending, typedAt, window, admitted>>
  BY DEF StartsUnroutable, responder, store
<1>2. /\ timer = None /\ ~ acked /\ acked \in BOOLEAN /\ pending = "settled"
      /\ response \in Said \cup {"none", None}
      /\ route' = r /\ mode' = "auto" /\ startedAt' = now /\ now' = now /\ now \in Nat
      /\ ~ firstTaken' /\ ~ thinking' /\ shown' = {} /\ panel' = None /\ refusals' = {} /\ ~ troubled'
  BY <1>1, Beginning
<1>3. /\ call' \in Calls /\ call' # None
      /\ call'.kind = "reply" /\ call'.content = "refusal" /\ call'.sentAt = now
  BY <1>1, <1>2, NoneIs DEF Calls, Said
<1>4. typedAt' \in Nat /\ Cool(window', admitted', now)
  BY <1>1 DEF IInv, TypeOK
<1>5. /\ TypeOK' /\ Fresh' /\ Asked' /\ Whispered' /\ Cool(window, admitted, now)'
      /\ AnsweredInTime' /\ FailuresAreWhispered' /\ SaysOneThing'
  BY <1>1, <1>2, <1>3, <1>4, Began
<1>6. Flow' /\ CallFits' /\ Silent'
  BY <1>1, <1>2, <1>3 DEF Flow, CallFits, Silent, Answering, OnMessage
<1>7. FirstFits' /\ InTime'
  BY <1>1, <1>2, <1>3, Times DEF FirstFits, InTime, Answering
<1>8. QED
  BY <1>5, <1>6, <1>7 DEF IInv

-----------------------------------------------------------------------------
(* The timer, the handler, and what respond() does before it calls. *)

\* As long as Discord is not called, nothing that it has or that was heard
\* changes.
LEMMA Quiet ==
    ASSUME IInv, phase' # "new", UNCHANGED <<asked, discord, history, store, now>>
    PROVE  /\ Fresh' /\ Asked' /\ Whispered' /\ Cool(window, admitted, now)'
           /\ AnsweredInTime' /\ FailuresAreWhispered'
           /\ UNCHANGED <<route, mode, visibility, startedAt, lag, firstTaken, thinking, shown, panel,
                          placeholder, overheard, refusals, troubled, window, admitted>>
<1>1. UNCHANGED <<route, mode, visibility, startedAt, lag, firstTaken, thinking, shown, panel,
                  placeholder, overheard, refusals, troubled, window, admitted>>
  BY DEF asked, discord, history, store
<1>2. Fresh' /\ Asked'
  BY <1>1 DEF IInv, Fresh, Asked, OnMessage
<1>3. Whispered' /\ AnsweredInTime' /\ FailuresAreWhispered'
  BY <1>1 DEF IInv, Whispered, AnsweredInTime, FailuresAreWhispered, OnMessage, InPlace
<1>4. QED
  BY <1>1, <1>2, <1>3 DEF IInv

LEMMA TimerDefers ==
    ASSUME IInv, TimerFires
    PROVE  IInv'
<1>1. /\ phase = "handling" /\ mode = "auto" /\ ~ acked /\ pending = "settled"
      /\ timer # None /\ timer' = None /\ acked' = TRUE /\ typedAt' = now
      /\ pending' = IF route = "unsendable" THEN pending ELSE "inFlight"
      /\ UNCHANGED <<phase, response, call, result>>
  BY DEF IInv, Flow, TimerFires, Defers
<1>2. /\ Fresh' /\ Asked' /\ Whispered' /\ Cool(window, admitted, now)'
      /\ AnsweredInTime' /\ FailuresAreWhispered'
      /\ UNCHANGED <<route, mode, visibility, startedAt, lag, firstTaken, thinking, shown, panel,
                     placeholder, overheard, refusals, troubled, window, admitted>>
      /\ UNCHANGED now
  BY <1>1, Quiet DEF TimerFires
<1>3. TypeOK' /\ SaysOneThing'
  BY <1>1, <1>2 DEF IInv, TypeOK, SaysOneThing
<1>4. Flow' /\ CallFits' /\ Silent'
  BY <1>1, <1>2 DEF IInv, Flow, CallFits, Silent, Untroubled, OnMessage, InPlace, Answering
<1>5. FirstFits' /\ InTime'
  BY <1>1, <1>2, Times DEF IInv, TypeOK, FirstFits, InTime, OnMessage, Answering, Flow, CallFits
<1>6. QED
  BY <1>2, <1>3, <1>4, <1>5 DEF IInv

LEMMA HandlerEnds ==
    ASSUME IInv, Handles
    PROVE  IInv'
<1>1. /\ phase = "handling" /\ timer' = None /\ UNCHANGED <<acked, pending, typedAt, call, now>>
      /\ \/ /\ result' \in Causes
            /\ IF result' = "gone" THEN phase' = "done" /\ response' = None
               ELSE phase' = "reporting" /\ response' = Worded(result')
         \/ result' \in Responses /\ phase' = "responding" /\ response' = result'
  BY DEF Handles, HandlerFails, HandlerAnswers, Cleared, Reports, Completes, responder
<1>2. phase' \in {"done", "reporting", "responding"}
  BY <1>1
<1>3. UNCHANGED <<asked, discord, history, store, now>>
  BY DEF Handles, HandlerFails, HandlerAnswers
<1>4. /\ Fresh' /\ Asked' /\ Whispered' /\ Cool(window, admitted, now)'
      /\ AnsweredInTime' /\ FailuresAreWhispered'
      /\ UNCHANGED <<route, mode, visibility, startedAt, lag, firstTaken, thinking, shown, panel,
                     placeholder, overheard, refusals, troubled, window, admitted>>
  BY <1>2, <1>3, Quiet
<1>5. response' \in Said \cup {"none", None}
  BY <1>1 DEF Worded, Responses, Said
<1>6. TypeOK'
  BY <1>1, <1>2, <1>4, <1>5 DEF IInv, TypeOK
<1>7. call = None
  BY <1>1 DEF IInv, CallFits, Answering
<1>8. Flow' /\ CallFits'
  BY <1>1, <1>4, <1>7 DEF IInv, Flow, CallFits, Causes, Worded, OnMessage, Answering
<1>9. Silent' /\ SaysOneThing'
  BY <1>1, <1>4 DEF IInv, Silent, SaysOneThing, Untroubled, Causes, Worded, OnMessage, InPlace
<1>10. FirstFits' /\ InTime'
  BY <1>1, <1>4, <1>7, Times, NoneIs DEF IInv, TypeOK, FirstFits, InTime, OnMessage, Answering
<1>11. QED
  BY <1>4, <1>6, <1>8, <1>9, <1>10 DEF IInv

\* A failure of respond() itself, before anything is called.
LEMMA Failing ==
    ASSUME IInv, RespondRejects \/ RespondTypeError
    PROVE  IInv'
<1>1. /\ phase \in Answering /\ call = None /\ pending # "inFlight"
      /\ UNCHANGED <<timer, acked, pending, typedAt, call, result, now>>
      /\ UNCHANGED <<asked, discord, history, store, now>>
  BY DEF RespondRejects, RespondTypeError, Responds, DeferSettled, Answering, responder
<1>2. \/ pending \in {"fault", "gone"} /\ Throws(pending)
      \/ pending = "settled" /\ CannotOpen /\ Throws("fault")
  BY <1>1 DEF RespondRejects, RespondTypeError, IInv, TypeOK
<1>3. \/ phase' = "done" /\ response' = None
      \/ phase = "responding" /\ phase' = "reporting" /\ response' = "incident"
  BY <1>2 DEF Throws, Reports, Completes, Worded
<1>4. /\ Fresh' /\ Asked' /\ Whispered' /\ Cool(window, admitted, now)'
      /\ AnsweredInTime' /\ FailuresAreWhispered'
      /\ UNCHANGED <<route, mode, visibility, startedAt, lag, firstTaken, thinking, shown, panel,
                     placeholder, overheard, refusals, troubled, window, admitted>>
  BY <1>1, <1>3, Quiet
<1>5. TypeOK'
  BY <1>1, <1>3, <1>4 DEF IInv, TypeOK, Said
<1>6. Flow' /\ CallFits'
  BY <1>1, <1>3, <1>4 DEF IInv, Flow, CallFits, OnMessage, Answering
<1>7. FirstFits' /\ InTime'
  BY <1>1, <1>3, <1>4, Times DEF IInv, TypeOK, FirstFits, InTime, OnMessage, Answering
<1>8. ASSUME Untroubled
      PROVE  phase = "responding" /\ phase' = "reporting" /\ response' = "incident" /\ result = "form"
             /\ ~ OnMessage /\ (CanOpenForm => mode # "never")
  <2>1. pending = "settled" /\ CannotOpen /\ Throws("fault")
    BY <1>2, <1>8 DEF IInv, Silent
  <2>2. response = "form" /\ ~ OnMessage /\ (acked \/ ~ CanOpenForm)
    BY <2>1 DEF CannotOpen
  <2>3. phase = "responding" /\ result = "form"
    BY <1>1, <2>2 DEF IInv, Flow, Answering
  <2>4. mode = "never" => ~ acked
    BY <2>3 DEF IInv, Flow
  <2>5. phase' = "reporting" /\ response' = "incident"
    BY <2>1, <2>3 DEF Throws, Reports, Worded
  <2>6. QED
    BY <2>2, <2>3, <2>4, <2>5
<1>9. Silent' /\ SaysOneThing'
  BY <1>1, <1>4, <1>8 DEF IInv, Silent, SaysOneThing, Untroubled, OnMessage, InPlace, CanOpenForm, Answering
<1>10. QED
  BY <1>4, <1>5, <1>6, <1>7, <1>9 DEF IInv

LEMMA SayingNothing ==
    ASSUME IInv, RespondNothing
    PROVE  IInv'
<1>1. /\ phase \in Answering /\ call = None /\ pending = "settled" /\ ~ CannotOpen /\ NothingToSend
      /\ phase' = "done" /\ response' = None
      /\ UNCHANGED <<timer, acked, pending, typedAt, call, result, now>>
      /\ UNCHANGED <<asked, discord, history, store, now>>
  BY DEF RespondNothing, Responds, DeferSettled, Answering, responder, Completes
<1>2. /\ Fresh' /\ Asked' /\ Whispered' /\ Cool(window, admitted, now)'
      /\ AnsweredInTime' /\ FailuresAreWhispered'
      /\ UNCHANGED <<route, mode, visibility, startedAt, lag, firstTaken, thinking, shown, panel,
                     placeholder, overheard, refusals, troubled, window, admitted>>
  BY <1>1, Quiet
<1>3. TypeOK'
  BY <1>1, <1>2 DEF IInv, TypeOK
<1>4. Flow' /\ CallFits'
  BY <1>1, <1>2 DEF IInv, Flow, CallFits, OnMessage, Answering
<1>5. FirstFits' /\ InTime'
  BY <1>1, <1>2, Times DEF IInv, TypeOK, FirstFits, InTime, OnMessage, Answering
<1>6. Silent'
  BY <1>1, <1>2 DEF IInv, Silent, Untroubled, OnMessage, InPlace
<1>7. result = "none" \/ route = "unsendable"
  BY <1>1 DEF NothingToSend, IInv, Flow, Answering
<1>8. SaysOneThing'
  BY <1>1, <1>2, <1>7 DEF IInv, SaysOneThing
<1>9. QED
  BY <1>2, <1>3, <1>4, <1>5, <1>6, <1>8 DEF IInv

LEMMA Sending ==
    ASSUME IInv, RespondSends
    PROVE  IInv'
<1> DEFINE c == [kind |-> CallFor, content |-> Content, sentAt |-> now]
<1>1. /\ phase \in Answering /\ call = None /\ pending = "settled" /\ ~ CannotOpen /\ ~ NothingToSend
      /\ call' = c /\ UNCHANGED <<phase, timer, response, acked, pending, typedAt, result, now>>
      /\ UNCHANGED <<asked, discord, history, store, now>>
  BY DEF RespondSends, Responds, DeferSettled, Answering, responder
<1>2. /\ Fresh' /\ Asked' /\ Whispered' /\ Cool(window, admitted, now)'
      /\ AnsweredInTime' /\ FailuresAreWhispered'
      /\ UNCHANGED <<route, mode, visibility, startedAt, lag, firstTaken, thinking, shown, panel,
                     placeholder, overheard, refusals, troubled, window, admitted>>
  BY <1>1, Quiet DEF Answering
<1>3. c \in Calls
  <2>1. Content \in Said \cup {"none"}
    BY <1>1 DEF IInv, Flow, Answering, Responses, Content, Said
  <2>2. CallFor \in {"defer", "reply", "update", "modal", "edit", "followUp", "send"}
    BY DEF CallFor
  <2>3. QED
    BY <2>1, <2>2 DEF Calls, IInv, TypeOK
<1>4. c # None /\ c.kind = CallFor /\ c.content = Content /\ c.sentAt = now
  BY <1>3, NoneIs
<1>5. UNCHANGED <<CallFor, Content, CannotOpen, NothingToSend>>
  BY <1>1, <1>2 DEF CallFor, Content, CannotOpen, NothingToSend, OnMessage, InPlace, CanOpenForm
<1> HIDE DEF c
<1>6. TypeOK'
  BY <1>1, <1>2, <1>3 DEF IInv, TypeOK
<1>7. Flow' /\ CallFits'
  BY <1>1, <1>2, <1>4, <1>5 DEF IInv, Flow, CallFits, OnMessage, Answering
<1>8. FirstFits' /\ InTime'
  BY <1>1, <1>2, <1>4, Times DEF IInv, TypeOK, FirstFits, InTime, OnMessage, Answering
<1>9. Silent' /\ SaysOneThing'
  BY <1>1, <1>2 DEF IInv, Silent, SaysOneThing, Untroubled, OnMessage, InPlace, CanOpenForm, Answering
<1>10. QED
  BY <1>2, <1>6, <1>7, <1>8, <1>9 DEF IInv

-----------------------------------------------------------------------------
(* Discord answers the deferral. *)

\* What Discord may have become.
DiscordTyped ==
    /\ {firstTaken, thinking, troubled} \subseteq BOOLEAN
    /\ overheard \subseteq shown /\ placeholder \in {None, "public", "ephemeral"}
    /\ shown \subseteq Said /\ panel \in Said \cup {None}
    /\ refusals \subseteq {"duplicate", "expired", "premature"}

\* Nobody waits for anything else while a deferral is under way.
LEMMA Deferral ==
    ASSUME IInv, pending = "inFlight"
    PROVE  /\ acked /\ timer = None /\ call = None /\ phase \notin {"new", "unroutable"}
           /\ phase = "done" => result = "gone"
           /\ phase = "deferring" => mode = "immediate"
           /\ phase = "responding" => response = result /\ result \in Responses
           /\ phase = "reporting" => response \in {"refusal", "incident"}
           /\ mode = "never" => phase = "done"
BY DEF IInv, Flow, CallFits, Fresh

LEMMA DeferEnding ==
    ASSUME IInv, pending = "inFlight", NEW verdict \in {"settled", "fault", "gone"}, DeferEnds(verdict),
           verdict # "settled" => ~ OnMessage, DiscordTyped'
    PROVE  /\ TypeOK' /\ Fresh' /\ Asked' /\ Flow' /\ CallFits' /\ Cool(window, admitted, now)'
           /\ UNCHANGED <<route, mode, visibility, startedAt, lag, timer, acked, typedAt, call, result, now>>
           /\ pending' = verdict /\ acked /\ timer = None /\ call = None
           /\ IF phase # "deferring" THEN phase' = phase /\ response' = response
              ELSE IF verdict = "settled" THEN phase' = "handling"
              ELSE IF verdict = "gone" THEN phase' = "done"
              ELSE phase' = "reporting"
<1>1. /\ UNCHANGED <<route, mode, visibility, startedAt, lag, timer, acked, typedAt, call, result,
                     window, admitted, now>>
      /\ pending' = verdict
      /\ IF phase # "deferring" THEN phase' = phase /\ response' = response
         ELSE IF verdict = "settled" THEN phase' = "handling" /\ response' = response
         ELSE IF verdict = "gone" THEN phase' = "done" /\ response' = None
         ELSE phase' = "reporting" /\ response' = Worded(verdict)
  BY DEF DeferEnds, Reports, Completes, asked, store
<1>2. /\ acked /\ timer = None /\ call = None /\ phase \notin {"new", "unroutable"}
      /\ phase = "deferring" => mode = "immediate"
      /\ phase = "responding" => response = result /\ result \in Responses
      /\ phase = "reporting" => response \in {"refusal", "incident"}
      /\ mode = "never" => phase = "done"
  BY Deferral
<1>3. TypeOK'
  BY <1>1, <1>2 DEF IInv, TypeOK, DiscordTyped, Said, Worded
<1>4. Asked' /\ Fresh'
  BY <1>1, <1>2 DEF IInv, Asked, Fresh, OnMessage
<1>5. Flow'
  BY <1>1, <1>2 DEF Flow, OnMessage, Worded
<1>6. CallFits'
  BY <1>1, <1>2 DEF CallFits
<1>7. QED
  BY <1>1, <1>2, <1>3, <1>4, <1>5, <1>6 DEF IInv

\* A deferral that Discord takes is the first thing it takes.
LEMMA DeferTaken ==
    ASSUME IInv, Accepts("defer", None)
    PROVE  /\ ~ firstTaken /\ firstTaken' = TRUE /\ thinking' = ~ InPlace
           /\ shown' = shown /\ panel' = panel /\ overheard' = overheard
           /\ placeholder' = IF ~ InPlace THEN visibility ELSE placeholder
<1>1. Refusal("defer") = "none" /\ firstTaken' = (firstTaken \/ IsFirstReply("defer"))
      /\ thinking' = ~ InPlace
      /\ shown' = shown \cup Words(None) /\ panel' = panel
      /\ overheard' = overheard \cup Overheard("defer", None)
  BY DEF Accepts
<1>2. placeholder' = IF ~ InPlace THEN visibility ELSE placeholder
  BY NoneIs DEF Accepts, DeferredAs
<1>3. Words(None) = {} /\ Overheard("defer", None) = {}
  BY DEF Words, Overheard
<1>4. ~ firstTaken /\ firstTaken' = TRUE
  BY <1>1 DEF Refusal, IsFirstReply, IInv, TypeOK
<1>5. QED
  BY <1>1, <1>2, <1>3, <1>4

LEMMA DeferHeard ==
    ASSUME IInv, UNCHANGED asked, (~ OnMessage /\ Accepts("defer", None)) \/ UNCHANGED discord
    PROVE  /\ Whispered' /\ FailuresAreWhispered' /\ shown' = shown /\ panel' = panel
           /\ {firstTaken, thinking}' \subseteq BOOLEAN
           /\ overheard' \subseteq shown' /\ placeholder' \in {None, "public", "ephemeral"}
           /\ thinking' => firstTaken' /\ ~ InPlace' /\ ~ OnMessage'
<1>1. UNCHANGED <<route, mode, visibility>>
  BY DEF asked
<1>2. CASE ~ OnMessage /\ Accepts("defer", None)
  <2>1. /\ ~ firstTaken /\ firstTaken' = TRUE /\ thinking' = ~ InPlace
        /\ shown' = shown /\ panel' = panel /\ overheard' = overheard
        /\ placeholder' = IF ~ InPlace THEN visibility ELSE placeholder
    BY <1>2, DeferTaken
  <2>2. overheard = {} /\ placeholder = None
    BY <1>2, <2>1 DEF IInv, Whispered
  <2>3. Whispered' /\ FailuresAreWhispered'
    BY <1>1, <1>2, <2>1, <2>2 DEF IInv, Whispered, FailuresAreWhispered, Asked, OnMessage, InPlace
  <2>4. InPlace \in BOOLEAN
    BY DEF InPlace
  <2>5. QED
    BY <1>1, <1>2, <2>1, <2>2, <2>3, <2>4 DEF IInv, TypeOK, OnMessage, InPlace
<1>3. CASE UNCHANGED discord
  BY <1>1, <1>3 DEF IInv, Whispered, FailuresAreWhispered, Silent, TypeOK, discord, OnMessage, InPlace
<1>4. QED
  BY <1>2, <1>3

LEMMA Deferred ==
    ASSUME IInv, DeferAccepted
    PROVE  IInv'
<1>1. /\ pending = "inFlight" /\ DeferEnds("settled") /\ UNCHANGED <<asked, refusals, troubled>>
      /\ (~ OnMessage /\ Accepts("defer", None)) \/ UNCHANGED discord
  BY DEF DeferAccepted, DeferEnds, history
<1>2. /\ Whispered' /\ FailuresAreWhispered' /\ shown' = shown /\ panel' = panel
      /\ {firstTaken, thinking}' \subseteq BOOLEAN
      /\ overheard' \subseteq shown' /\ placeholder' \in {None, "public", "ephemeral"}
      /\ thinking' => firstTaken' /\ ~ InPlace' /\ ~ OnMessage'
  BY <1>1, DeferHeard
<1>3. DiscordTyped'
  BY <1>1, <1>2 DEF DiscordTyped, IInv, TypeOK
<1>4. /\ TypeOK' /\ Fresh' /\ Asked' /\ Flow' /\ CallFits' /\ Cool(window, admitted, now)'
      /\ UNCHANGED <<route, mode, visibility, startedAt, lag, timer, acked, typedAt, call, result, now>>
      /\ pending' = "settled" /\ acked /\ timer = None /\ call = None
      /\ IF phase # "deferring" THEN phase' = phase /\ response' = response
         ELSE phase' = "handling"
  BY <1>1, <1>3, DeferEnding
<1>5. ~ OnMessage => firstTaken'
  BY DeferTaken DEF DeferAccepted
<1>6. FirstFits' /\ InTime'
  BY <1>1, <1>4, <1>5 DEF IInv, FirstFits, InTime, OnMessage
<1>7. AnsweredInTime' /\ Silent'
  BY <1>1, <1>2, <1>4 DEF IInv, AnsweredInTime, Silent, Untroubled, OnMessage, CanOpenForm
<1>8. SaysOneThing'
  <2>1. phase = "done" => result = "gone"
    BY <1>1, Deferral
  <2>2. QED
    BY <1>2, <1>4, <2>1 DEF IInv, SaysOneThing
<1>9. QED
  BY <1>2, <1>4, <1>6, <1>7, <1>8 DEF IInv

LEMMA NotDeferred ==
    ASSUME IInv, DeferRefused
    PROVE  IInv'
<1> DEFINE refusal == Refusal("defer")
<1>1. /\ pending = "inFlight" /\ ~ OnMessage /\ DeferEnds(CauseOf(refusal))
      /\ refusal # "none" /\ refusals' = refusals \cup {refusal}
      /\ UNCHANGED <<asked, discord, troubled>>
  BY DEF DeferRefused, DeferEnds, Refuses
<1>2. CauseOf(refusal) = "gone" /\ refusal \in {"duplicate", "expired"}
  BY <1>1 DEF Refusal, CauseOf
<1>3. refusal = "expired" => now - startedAt + lag >= DeadlineMs
  BY DEF Refusal
<1>4. refusal = "duplicate" => firstTaken
  BY DEF Refusal
<1> HIDE DEF refusal
<1>5. /\ Whispered' /\ FailuresAreWhispered' /\ shown' = shown /\ panel' = panel
      /\ {firstTaken, thinking}' \subseteq BOOLEAN
      /\ overheard' \subseteq shown' /\ placeholder' \in {None, "public", "ephemeral"}
      /\ thinking' => firstTaken' /\ ~ InPlace' /\ ~ OnMessage'
  BY <1>1, DeferHeard
<1>6. DiscordTyped'
  BY <1>1, <1>2, <1>5 DEF DiscordTyped, IInv, TypeOK
<1>7. /\ TypeOK' /\ Fresh' /\ Asked' /\ Flow' /\ CallFits' /\ Cool(window, admitted, now)'
      /\ UNCHANGED <<route, mode, visibility, startedAt, lag, timer, acked, typedAt, call, result, now>>
      /\ pending' = "gone" /\ acked /\ timer = None /\ call = None
      /\ IF phase # "deferring" THEN phase' = phase /\ response' = response ELSE phase' = "done"
  BY <1>1, <1>2, <1>6, DeferEnding
<1>8. ~ troubled => refusal = "expired"
  BY <1>1, <1>2, <1>4 DEF IInv, FirstFits
<1>9. FirstFits' /\ InTime'
  BY <1>1, <1>2, <1>7, <1>8 DEF IInv, FirstFits, InTime, OnMessage
<1>10. Silent'
  BY <1>1, <1>5, <1>7, <1>8 DEF Silent, Untroubled
<1>11. SaysOneThing'
  BY <1>1, <1>5, <1>8 DEF IInv, SaysOneThing
<1>12. AnsweredInTime'
  <2>1. SUFFICES ASSUME ~ troubled, mode # "never"
                 PROVE  lag + AutoDeferAfter + CallMs >= DeadlineMs
    BY <1>1, <1>7 DEF AnsweredInTime
  <2>2. typedAt <= startedAt + AutoDeferAfter /\ now <= typedAt + CallMs
    BY <1>1, <2>1 DEF IInv, InTime
  <2>3. {startedAt, lag, typedAt, now} \subseteq Nat
    BY DEF IInv, TypeOK
  <2>4. QED
    BY <1>3, <1>8, <2>1, <2>2, <2>3, Times
<1>13. QED
  BY <1>5, <1>7, <1>9, <1>10, <1>11, <1>12 DEF IInv

LEMMA DeferralLost ==
    ASSUME IInv, DeferLost
    PROVE  IInv'
<1>1. /\ pending = "inFlight" /\ ~ OnMessage /\ DeferEnds("fault") /\ troubled' = TRUE
      /\ UNCHANGED <<asked, refusals>>
      /\ (~ OnMessage /\ Accepts("defer", None)) \/ UNCHANGED discord
  BY DEF DeferLost, DeferEnds, Loses
<1>2. /\ Whispered' /\ FailuresAreWhispered' /\ shown' = shown /\ panel' = panel
      /\ {firstTaken, thinking}' \subseteq BOOLEAN
      /\ overheard' \subseteq shown' /\ placeholder' \in {None, "public", "ephemeral"}
      /\ thinking' => firstTaken' /\ ~ InPlace' /\ ~ OnMessage'
  BY <1>1, DeferHeard
<1>3. DiscordTyped'
  BY <1>1, <1>2 DEF DiscordTyped, IInv, TypeOK
<1>4. TypeOK' /\ Fresh' /\ Asked' /\ Flow' /\ CallFits' /\ Cool(window, admitted, now)'
  BY <1>1, <1>3, DeferEnding
<1>5. FirstFits' /\ InTime' /\ AnsweredInTime'
  BY <1>1 DEF FirstFits, InTime, AnsweredInTime
<1>6. Silent' /\ SaysOneThing'
  BY <1>1, <1>2 DEF IInv, Silent, SaysOneThing, Untroubled
<1>7. QED
  BY <1>2, <1>4, <1>5, <1>6 DEF IInv

-----------------------------------------------------------------------------
(* Discord answers respond()'s call. *)

\* What is known of the call that is under way.
LEMMA CallFacts ==
    ASSUME IInv, call # None
    PROVE  /\ call \in Calls /\ pending = "settled" /\ phase \in Answering \cup {"unroutable"}
           /\ phase = "unroutable" => call.kind = "reply" /\ call.content = "refusal"
           /\ phase \in Answering => call.content = Content /\ response \in Said \cup {"none"}
           /\ OnMessage => call.kind = "send" /\ call.content \in Said
           /\ ~ OnMessage => call.content = response \/ phase = "unroutable"
           /\ ~ OnMessage => (IsFirstReply(call.kind) <=> ~ acked) /\ call.kind # "send"
           /\ call.kind = "defer" <=> call.content = "none"
           /\ call.kind = "modal" <=> call.content = "form"
           /\ call.kind \in {"edit", "followUp"} => acked
           /\ call.kind \in {"edit", "update"} /\ InPlace => call.content = "answer"
           /\ call.kind = "followUp" => call.content \in {"refusal", "incident"}
<1>1. /\ call \in Calls /\ pending = "settled" /\ phase \in Answering \cup {"unroutable"}
      /\ phase = "unroutable" => call.kind = "reply" /\ call.content = "refusal" /\ ~ OnMessage /\ ~ acked
  BY DEF IInv, TypeOK, CallFits
<1>2. CASE phase = "unroutable"
  BY <1>1, <1>2 DEF IsFirstReply, Answering, Calls, Said
<1>3. CASE phase \in Answering
  <2>1. /\ call.kind = CallFor /\ call.content = Content /\ ~ CannotOpen /\ ~ NothingToSend
        /\ response \in Said \cup {"none"}
    BY <1>1, <1>3 DEF IInv, CallFits, Answering, Flow, Responses, Said
  <2>2. CASE OnMessage
    <3>1. call.kind = "send" /\ response # "none"
      BY <2>1, <2>2 DEF CallFor, NothingToSend
    <3>2. call.content \in Said
      BY <2>1, <3>1 DEF Content, Said
    <3>3. call.content # "form"
      BY <2>1, <2>2 DEF Content
    <3>4. QED
      BY <1>1, <1>3, <2>1, <2>2, <3>1, <3>2, <3>3 DEF IsFirstReply, Answering, Said
  <2>3. CASE ~ OnMessage
    <3>1. call.content = response /\ (response = "form" => ~ acked) /\ (response = "none" => ~ acked)
      BY <2>1, <2>3 DEF Content, CannotOpen, NothingToSend
    <3>2. acked \in BOOLEAN
      BY DEF IInv, TypeOK
    <3>3. call.kind =
            IF response = "form" THEN "modal"
            ELSE IF response = "none" THEN "defer"
            ELSE IF InPlace /\ response \in {"refusal", "incident"}
                 THEN IF acked THEN "followUp" ELSE "reply"
            ELSE IF acked THEN "edit"
            ELSE IF InPlace THEN "update" ELSE "reply"
      BY <2>1, <2>3 DEF CallFor
    <3>4. QED
      BY <1>1, <1>3, <2>1, <2>3, <3>1, <3>2, <3>3 DEF IsFirstReply, Answering, Said
  <2>4. QED
    BY <2>2, <2>3
<1>4. QED
  BY <1>1, <1>2, <1>3

LEMMA AcceptsTyped ==
    ASSUME TypeOK, NEW kind, NEW content \in Said \cup {"none", None}, Accepts(kind, content),
           InPlace /\ kind \in {"edit", "update"} => content \in Said
    PROVE  /\ {firstTaken, thinking}' \subseteq BOOLEAN
           /\ shown' \subseteq Said /\ overheard' \subseteq shown'
           /\ panel' \in Said \cup {None} /\ placeholder' \in {None, "public", "ephemeral"}
<1>1. Words(content) \subseteq Said /\ Overheard(kind, content) \subseteq Words(content)
  BY DEF Words, Said, Overheard, PublicWords
<1>2. InPlace /\ kind \in {"edit", "update"} => Overheard(kind, content) = {}
  BY DEF Overheard
<1>3. {firstTaken, thinking}' \subseteq BOOLEAN
  BY DEF Accepts, TypeOK, IsFirstReply
<1>4. shown' \subseteq Said /\ overheard' \subseteq shown'
  BY <1>1, <1>2 DEF Accepts, TypeOK
<1>5. panel' \in Said \cup {None} /\ placeholder' \in {None, "public", "ephemeral"}
  BY DEF Accepts, TypeOK, DeferredAs
<1>6. QED
  BY <1>3, <1>4, <1>5

LEMMA CallWhispers ==
    ASSUME IInv, call # None, UNCHANGED asked, Accepts(call.kind, call.content)
    PROVE  Whispered'
<1>1. /\ call.kind = "defer" <=> call.content = "none"
      /\ OnMessage => call.kind = "send"
  BY CallFacts
<1>2. (firstTaken => firstTaken') /\ (call.kind = "defer" => firstTaken')
  BY DEF Accepts, IsFirstReply
<1>3. placeholder' = IF call.kind = "defer" /\ ~ InPlace THEN "ephemeral" ELSE placeholder
  BY <1>1 DEF Accepts, DeferredAs
<1>4. overheard' # {} => firstTaken' \/ OnMessage
  <2>1. CASE call.kind \in {"reply", "edit", "followUp"}
    <3>1. Refusal(call.kind) = "none"
      BY DEF Accepts
    <3>2. firstTaken'
      BY <2>1, <3>1, <1>2 DEF Accepts, Refusal, IsFirstReply
    <3>3. QED
      BY <3>2
  <2>2. CASE call.kind = "send"
    BY <2>2, CallFacts
  <2>3. CASE call.kind \notin {"reply", "edit", "followUp", "send"}
    <3>1. overheard' = overheard
      BY <2>3 DEF Accepts, Overheard
    <3>2. QED
      BY <3>1, <1>2 DEF IInv, Whispered
  <2>4. QED
    BY <2>1, <2>2, <2>3
<1>5. QED
  BY <1>1, <1>2, <1>3, <1>4, NoneIs DEF IInv, Whispered, OnMessage, InPlace, asked

LEMMA CallOverheard ==
    ASSUME IInv, call # None, UNCHANGED asked, Accepts(call.kind, call.content)
    PROVE  FailuresAreWhispered'
<1>1. /\ call.kind = "defer" <=> call.content = "none"
      /\ OnMessage => call.kind = "send"
  BY CallFacts
<1>2. placeholder' = IF call.kind = "defer" /\ ~ InPlace THEN "ephemeral" ELSE placeholder
  BY <1>1 DEF Accepts, DeferredAs
<1>3. overheard' = overheard \cup Overheard(call.kind, call.content)
  BY DEF Accepts
<1>4. CASE call.kind = "send"
  <2>1. OnMessage
    BY <1>4, CallFacts
  <2>2. QED
    BY <2>1, <1>2, <1>4, NoneIs DEF IInv, Whispered, FailuresAreWhispered, OnMessage, asked
<1>5. CASE call.kind = "edit" /\ ~ InPlace /\ placeholder = "public"
  BY <1>2, <1>5 DEF IInv, Whispered, FailuresAreWhispered, OnMessage, asked
<1>6. CASE call.kind \in {"reply", "followUp"}
  <2>1. Overheard(call.kind, call.content) \cap {"refusal", "incident"} = {}
    BY <1>6 DEF Overheard, PublicWords
  <2>2. call.kind = "followUp" => Overheard(call.kind, call.content) = {}
    BY <1>6, CallFacts DEF Overheard, PublicWords, Words
  <2>3. call.kind = "reply" => ~ firstTaken
    BY DEF Accepts, Refusal, IsFirstReply
  <2>4. QED
    BY <1>2, <1>3, <1>6, <2>1, <2>2, <2>3, NoneIs DEF IInv, Whispered, FailuresAreWhispered, OnMessage, asked
<1>7. CASE call.kind \notin {"send", "reply", "followUp"} /\ ~ (call.kind = "edit" /\ ~ InPlace /\ placeholder = "public")
  <2>1. overheard' = overheard
    BY <1>3, <1>7 DEF Overheard
  <2>2. call.kind = "defer" => ~ firstTaken
    BY DEF Accepts, Refusal, IsFirstReply
  <2>3. CASE call.kind = "defer" /\ ~ InPlace
    <3>1. overheard' = {} \/ OnMessage
      BY <2>1, <2>2, <2>3 DEF IInv, Whispered
    <3>2. ~ OnMessage
      BY <1>1, <2>3
    <3>3. QED
      BY <3>1, <3>2 DEF FailuresAreWhispered
  <2>4. CASE ~ (call.kind = "defer" /\ ~ InPlace)
    BY <1>2, <2>1, <2>4 DEF IInv, FailuresAreWhispered, OnMessage, asked
  <2>5. QED
    BY <2>3, <2>4
<1>8. QED
  BY <1>4, <1>5, <1>6, <1>7

\* The call that ends the interaction says its last word, and nothing was said
\* before it.
LEMMA LastCall ==
    ASSUME IInv, CallAccepted
    PROVE  SaysOneThing'
<1>1. /\ call # None /\ UNCHANGED <<asked, troubled, refusals, result>>
      /\ Accepts(call.kind, call.content) /\ phase \in Answering \cup {"unroutable"}
  BY CallFacts DEF CallAccepted, history
<1>2. panel' \notin {"refusal", "incident"}
  BY <1>1, CallFacts DEF Accepts, IInv, SaysOneThing
<1>3. SUFFICES ASSUME Untroubled, result \notin {"none", "gone"}
               PROVE  ~ thinking' /\ \E word \in LastWords : shown' \cup ({panel'} \ {None}) = {word}
  BY <1>1, <1>2 DEF SaysOneThing, Untroubled, LastWords, asked, OnMessage, CanOpenForm
<1>4. shown = {} /\ panel = None
  BY <1>1, <1>3 DEF IInv, Silent, Answering
<1>5. call.content # "none" /\ call.content # None
  <2>1. CASE phase = "responding"
    <3>1. response # "none"
      BY <2>1, <1>3 DEF IInv, Flow
    <3>2. QED
      BY <3>1, <2>1, <1>1, CallFacts, NoneIs DEF Answering, Content, Said
  <2>2. CASE phase # "responding"
    <3>1. phase = "reporting" => response # "none"
      BY DEF IInv, Flow
    <3>2. QED
      BY <3>1, <2>2, <1>1, CallFacts, NoneIs DEF Answering, Content, Said
  <2>3. QED
    BY <2>1, <2>2
<1>6. ~ thinking'
  <2>1. thinking => firstTaken /\ ~ InPlace /\ ~ OnMessage
    BY DEF IInv, Silent
  <2>2. IsFirstReply(call.kind) => ~ firstTaken
    BY <1>1 DEF Accepts, Refusal
  <2>3. call.kind # "defer" /\ (call.kind = "followUp" => InPlace)
    BY <1>1, <1>5, CallFacts DEF IInv, CallFits, CallFor
  <2>4. thinking' = (thinking /\ call.kind # "edit")
    BY <1>1, <2>3 DEF Accepts
  <2>5. call.kind \in {"reply", "update", "modal", "edit", "followUp", "send"}
    BY <1>1, <2>3, CallFacts DEF Calls
  <2>6. call.kind = "send" => OnMessage
    BY <1>1, CallFacts
  <2>7. QED
    BY <2>1, <2>2, <2>3, <2>4, <2>5, <2>6 DEF IsFirstReply
<1>7. shown' \cup ({panel'} \ {None}) = {call.content}
  <2>1. Words(call.content) = {call.content}
    BY <1>5 DEF Words
  <2>2. QED
    BY <1>1, <1>4, <1>5, <2>1 DEF Accepts
<1>8. call.content \in LastWords
  <2>1. CASE phase = "unroutable"
    BY <1>1, <2>1, CallFacts DEF IInv, CallFits, LastWords
  <2>2. CASE phase = "responding"
    <3>1. response = result /\ result \in {"answer", "refusal", "form"}
      BY <1>3, <2>2 DEF IInv, Flow, Responses
    <3>2. call.content = IF OnMessage /\ response = "form" THEN "refusal" ELSE response
      BY <1>1, <2>2 DEF IInv, CallFits, Answering, Content
    <3>3. response = "form" /\ ~ OnMessage => ~ acked /\ CanOpenForm
      BY <1>1, <2>2 DEF IInv, CallFits, Answering, CannotOpen
    <3>4. mode = "immediate" => acked
      BY <2>2 DEF IInv, Flow
    <3>5. QED
      BY <3>1, <3>2, <3>3, <3>4 DEF LastWords
  <2>3. CASE phase = "reporting"
    <3>1. call.content = response
      BY <1>1, <2>3 DEF IInv, CallFits, Answering, Content, Flow
    <3>2. \/ response = "refusal" /\ result = "refusal"
          \/ response = "incident" /\ result = "fault"
          \/ response = "incident" /\ result = "form" /\ ~ OnMessage /\ (CanOpenForm => mode # "never")
      BY <1>3, <2>3 DEF IInv, Silent
    <3>3. QED
      BY <3>1, <3>2 DEF LastWords
  <2>4. QED
    BY <1>1, <2>1, <2>2, <2>3 DEF Answering
<1>9. QED
  BY <1>6, <1>7, <1>8

LEMMA CallTaken ==
    ASSUME IInv, call # None, UNCHANGED asked, Accepts(call.kind, call.content)
    PROVE  /\ Whispered' /\ FailuresAreWhispered'
           /\ {firstTaken, thinking}' \subseteq BOOLEAN
           /\ shown' \subseteq Said /\ overheard' \subseteq shown'
           /\ panel' \in Said \cup {None} /\ panel' \notin {"refusal", "incident"}
           /\ placeholder' \in {None, "public", "ephemeral"}
           /\ ~ OnMessage /\ (~ acked \/ firstTaken) => firstTaken'
           /\ thinking' => firstTaken' /\ ~ InPlace' /\ ~ OnMessage'
<1>1. /\ call.content \in Said \cup {"none"}
      /\ call.kind \in {"edit", "update"} /\ InPlace => call.content = "answer"
  BY CallFacts DEF Calls
<1>2. /\ {firstTaken, thinking}' \subseteq BOOLEAN
      /\ shown' \subseteq Said /\ overheard' \subseteq shown'
      /\ panel' \in Said \cup {None} /\ placeholder' \in {None, "public", "ephemeral"}
  <2>1. InPlace /\ call.kind \in {"edit", "update"} => call.content \in Said
    BY <1>1 DEF Said
  <2>2. QED
    BY <1>1, <2>1, AcceptsTyped DEF IInv
<1>3. panel' \notin {"refusal", "incident"}
  BY <1>1 DEF Accepts, IInv, SaysOneThing
<1>4. firstTaken' = (firstTaken \/ IsFirstReply(call.kind))
  BY DEF Accepts
<1>5. ~ OnMessage => (IsFirstReply(call.kind) <=> ~ acked)
  BY CallFacts
<1>6. thinking' => firstTaken' /\ ~ InPlace' /\ ~ OnMessage'
  <2>1. OnMessage => call.kind = "send"
    BY CallFacts
  <2>2. UNCHANGED route
    BY DEF asked
  <2>3. CASE call.kind = "defer"
    BY <1>4, <2>1, <2>2, <2>3 DEF Accepts, IsFirstReply, OnMessage, InPlace
  <2>4. CASE call.kind # "defer"
    BY <1>4, <2>2, <2>4 DEF Accepts, IInv, Silent, OnMessage, InPlace
  <2>5. QED
    BY <2>3, <2>4
<1>7. QED
  BY <1>2, <1>3, <1>4, <1>5, <1>6, CallWhispers, CallOverheard

\* The interaction after its call.
LEMMA CallEnding ==
    ASSUME IInv, call # None, call' = None, DiscordTyped',
           UNCHANGED <<asked, timer, pending, typedAt, result, store, now>>,
           acked' \in {acked, acked \/ phase # "unroutable"},
           \/ phase' = "done" /\ response' \in {response, None}
           \/ phase = "responding" /\ phase' = "reporting" /\ response' = "incident" /\ acked' = acked
    PROVE  /\ TypeOK' /\ Fresh' /\ Asked' /\ Flow' /\ CallFits' /\ Cool(window, admitted, now)'
           /\ UNCHANGED <<route, mode, visibility, startedAt, lag>> /\ pending = "settled" /\ timer = None
<1>1. pending = "settled" /\ phase \in Answering \cup {"unroutable"}
  BY CallFacts
<1>2. timer = None
  BY <1>1 DEF IInv, Flow, Answering
<1>3. UNCHANGED <<route, mode, visibility, startedAt, lag, window, admitted>>
  BY DEF asked, store
<1>4. acked' \in BOOLEAN
  BY DEF IInv, TypeOK
<1>5. TypeOK'
  BY <1>3, <1>4 DEF IInv, TypeOK, DiscordTyped, Said
<1>6. Fresh' /\ Asked'
  BY <1>3 DEF IInv, Fresh, Asked, OnMessage
<1>7. Flow' /\ CallFits'
  BY <1>1, <1>2, <1>3 DEF IInv, Flow, CallFits, OnMessage
<1>8. QED
  BY <1>1, <1>2, <1>3, <1>5, <1>6, <1>7 DEF IInv

LEMMA Called ==
    ASSUME IInv, CallAccepted
    PROVE  IInv'
<1>1. /\ call # None /\ call' = None /\ Accepts(call.kind, call.content)
      /\ acked' = (acked \/ phase # "unroutable")
      /\ phase' = "done" /\ response' \in {response, None}
      /\ UNCHANGED <<asked, timer, pending, typedAt, result, refusals, troubled, store, now>>
  BY DEF CallAccepted, Completes, history
<1>2. /\ Whispered' /\ FailuresAreWhispered'
      /\ {firstTaken, thinking}' \subseteq BOOLEAN
      /\ shown' \subseteq Said /\ overheard' \subseteq shown'
      /\ panel' \in Said \cup {None} /\ placeholder' \in {None, "public", "ephemeral"}
      /\ ~ OnMessage /\ (~ acked \/ firstTaken) => firstTaken'
      /\ thinking' => firstTaken' /\ ~ InPlace' /\ ~ OnMessage'
  BY <1>1, CallTaken
<1>3. DiscordTyped'
  BY <1>1, <1>2 DEF DiscordTyped, IInv, TypeOK
<1>4. /\ TypeOK' /\ Fresh' /\ Asked' /\ Flow' /\ CallFits' /\ Cool(window, admitted, now)'
      /\ UNCHANGED <<route, mode, visibility, startedAt, lag>> /\ pending = "settled" /\ timer = None
  BY <1>1, <1>3, CallEnding
<1>5. FirstFits' /\ InTime'
  BY <1>1, <1>2, <1>4 DEF IInv, FirstFits, InTime, OnMessage, Answering
<1>6. AnsweredInTime' /\ Silent'
  BY <1>1, <1>2, <1>4 DEF IInv, AnsweredInTime, Silent, Untroubled
<1>7. SaysOneThing'
  BY LastCall
<1>8. QED
  BY <1>2, <1>4, <1>5, <1>6, <1>7 DEF IInv

\* Until a call is lost, a call is refused only for being late.
LEMMA RefusedLate ==
    ASSUME IInv, call # None, Refusal(call.kind) # "none"
    PROVE  /\ Refusal(call.kind) \in {"duplicate", "expired", "premature"}
           /\ ~ OnMessage
           /\ ~ troubled => Refusal(call.kind) = "expired"
           /\ Refusal(call.kind) = "expired" => ~ acked /\ now - startedAt + lag >= DeadlineMs
<1>1. ~ troubled /\ IsFirstReply(call.kind) => ~ firstTaken
  BY CallFacts DEF IInv, FirstFits, Answering, IsFirstReply
<1>2. ~ troubled /\ call.kind \in {"edit", "followUp"} => firstTaken
  BY CallFacts DEF IInv, FirstFits, IsFirstReply
<1>3. Refusal(call.kind) = "expired" => IsFirstReply(call.kind) /\ now - startedAt + lag >= DeadlineMs
  BY DEF Refusal
<1>4. ~ OnMessage
  BY CallFacts DEF Refusal, IsFirstReply
<1>5. QED
  BY <1>1, <1>2, <1>3, <1>4, CallFacts DEF Refusal

LEMMA CallNotTaken ==
    ASSUME IInv, CallRefused
    PROVE  IInv'
<1> DEFINE refusal == Refusal(call.kind)
<1>1. /\ call # None /\ refusal # "none" /\ refusals' = refusals \cup {refusal}
      /\ UNCHANGED <<discord, troubled>> /\ CallRejected(CauseOf(refusal))
  BY DEF CallRefused, Refuses
<1>2. /\ refusal \in {"duplicate", "expired", "premature"} /\ ~ OnMessage
      /\ ~ troubled => refusal = "expired"
      /\ refusal = "expired" => ~ acked /\ now - startedAt + lag >= DeadlineMs
  BY <1>1, RefusedLate
<1> HIDE DEF refusal
<1>3. /\ call' = None /\ UNCHANGED <<asked, timer, acked, pending, typedAt, result, store, now>>
      /\ \/ phase' = "done" /\ response' \in {response, None}
         \/ /\ phase = "responding" /\ phase' = "reporting" /\ response' = "incident"
            /\ refusal # "expired"
  BY <1>1, <1>2 DEF CallRejected, CauseOf, Throws, Reports, Completes, Worded, responder
<1>4. UNCHANGED <<firstTaken, thinking, shown, panel, placeholder, overheard>>
  BY <1>1 DEF discord
<1>5. DiscordTyped'
  BY <1>1, <1>2, <1>4 DEF DiscordTyped, IInv, TypeOK
<1>6. /\ TypeOK' /\ Fresh' /\ Asked' /\ Flow' /\ CallFits' /\ Cool(window, admitted, now)'
      /\ UNCHANGED <<route, mode, visibility, startedAt, lag>> /\ pending = "settled" /\ timer = None
  BY <1>1, <1>3, <1>5, CallEnding
<1>7. Whispered' /\ FailuresAreWhispered'
  BY <1>4, <1>6 DEF IInv, Whispered, FailuresAreWhispered, OnMessage, InPlace
<1>8. phase' # "done" => ~ (~ troubled)
  BY <1>2, <1>3
<1>9. FirstFits'
  <2>1. ~ troubled => {"duplicate", "premature"} \cap refusals' = {}
    BY <1>1, <1>2 DEF IInv, FirstFits
  <2>2. QED
    BY <1>1, <1>2, <1>3, <1>4, <1>6, <1>8, <2>1 DEF IInv, FirstFits, OnMessage
<1>10. InTime'
  BY <1>1, <1>3, <1>6, <1>8 DEF InTime, Answering
<1>11. AnsweredInTime'
  <2>1. SUFFICES ASSUME ~ troubled, mode # "never"
                 PROVE  lag + AutoDeferAfter + CallMs >= DeadlineMs
    BY <1>1, <1>6 DEF AnsweredInTime
  <2>2. ~ acked /\ now - startedAt + lag >= DeadlineMs
    BY <1>2, <2>1
  <2>3. call.sentAt <= startedAt + AutoDeferAfter /\ now <= call.sentAt + CallMs
    BY <1>1, <1>2, <2>1, <2>2 DEF IInv, InTime
  <2>4. call.sentAt \in Nat /\ {startedAt, lag, now} \subseteq Nat
    BY <1>1, CallFacts DEF IInv, TypeOK, Calls
  <2>5. QED
    BY <2>2, <2>3, <2>4, Times
<1>12. Silent' /\ SaysOneThing'
  BY <1>1, <1>2, <1>4, <1>6 DEF IInv, Silent, SaysOneThing, Untroubled, OnMessage, InPlace
<1>13. QED
  BY <1>6, <1>7, <1>9, <1>10, <1>11, <1>12 DEF IInv

LEMMA CallsLost ==
    ASSUME IInv, CallLost
    PROVE  IInv'
<1>1. /\ call # None /\ troubled' = TRUE /\ UNCHANGED refusals /\ CallRejected("fault")
      /\ Accepts(call.kind, call.content) \/ UNCHANGED discord
  BY DEF CallLost, Loses
<1>2. /\ call' = None /\ UNCHANGED <<asked, timer, acked, pending, typedAt, result, store, now>>
      /\ \/ phase' = "done" /\ response' \in {response, None}
         \/ phase = "responding" /\ phase' = "reporting" /\ response' = "incident"
  BY <1>1 DEF CallRejected, Throws, Reports, Completes, Worded, responder
<1>3. /\ Whispered' /\ FailuresAreWhispered'
      /\ {firstTaken, thinking}' \subseteq BOOLEAN
      /\ shown' \subseteq Said /\ overheard' \subseteq shown'
      /\ panel' \in Said \cup {None} /\ panel' \notin {"refusal", "incident"}
      /\ placeholder' \in {None, "public", "ephemeral"}
      /\ thinking' => firstTaken' /\ ~ InPlace' /\ ~ OnMessage'
  <2>1. CASE Accepts(call.kind, call.content)
    BY <1>1, <1>2, <2>1, CallTaken
  <2>2. CASE UNCHANGED discord
    <3>1. UNCHANGED <<route, mode, firstTaken, thinking, shown, panel, placeholder, overheard>>
      BY <1>2, <2>2 DEF discord, asked
    <3>2. QED
      BY <3>1 DEF IInv, TypeOK, Whispered, FailuresAreWhispered, Silent, SaysOneThing, OnMessage, InPlace
  <2>3. QED
    BY <1>1, <2>1, <2>2
<1>4. DiscordTyped'
  BY <1>1, <1>3 DEF DiscordTyped, IInv, TypeOK
<1>5. TypeOK' /\ Fresh' /\ Asked' /\ Flow' /\ CallFits' /\ Cool(window, admitted, now)'
  BY <1>1, <1>2, <1>4, CallEnding
<1>6. FirstFits' /\ InTime' /\ AnsweredInTime'
  BY <1>1 DEF FirstFits, InTime, AnsweredInTime
<1>7. Silent' /\ SaysOneThing'
  BY <1>1, <1>3 DEF Silent, SaysOneThing, Untroubled
<1>8. QED
  BY <1>3, <1>5, <1>6, <1>7 DEF IInv

-----------------------------------------------------------------------------
(* The cooldown's other users and the clock, and the theorems. *)

LEMMA Passing ==
    ASSUME IInv, now' \in Nat, now <= now', Cool(window, admitted, now)',
           UNCHANGED <<asked, phase, timer, response, responder, call, discord, result, history>>,
           now' # now => ~ Overdue /\ now' = now + 1
    PROVE  IInv'
<1>1. UNCHANGED <<route, mode, visibility, startedAt, lag, phase, timer, response, acked, pending, typedAt,
                  call, firstTaken, thinking, shown, panel, placeholder, overheard, result, refusals, troubled>>
  BY DEF asked, responder, discord, history
<1>2. UNCHANGED <<OnMessage, InPlace, CanOpenForm, CallFor, Content, CannotOpen, NothingToSend, LastWords>>
  BY <1>1 DEF OnMessage, InPlace, CanOpenForm, CallFor, Content, CannotOpen, NothingToSend, LastWords
<1>3. window' \in [count : Nat, expiresAt : Nat] \cup {None}
  BY DEF Cool, Windows
<1>4. TypeOK' /\ Fresh'
  BY <1>1, <1>3 DEF IInv, TypeOK, Fresh
<1>5. Asked'
  <2>1. startedAt \in Nat /\ now \in Nat
    BY DEF IInv, TypeOK
  <2>2. QED
    BY <1>1, <1>2, <2>1 DEF IInv, Asked
<1>6. Flow' /\ CallFits' /\ FirstFits'
  BY <1>1, <1>2 DEF IInv, Flow, CallFits, FirstFits
<1>7. Whispered' /\ Silent' /\ AnsweredInTime' /\ FailuresAreWhispered' /\ SaysOneThing'
  BY <1>1, <1>2 DEF IInv, Whispered, Silent, Untroubled, AnsweredInTime, FailuresAreWhispered, SaysOneThing
<1>8. InTime'
  <2>1. CASE now' = now
    BY <1>1, <1>2, <2>1 DEF IInv, InTime
  <2>2. CASE now' = now + 1 /\ ~ Overdue
    <3>1. /\ timer # None => ~ (now >= timer)
          /\ call # None => ~ (now - call.sentAt >= CallMs)
          /\ pending = "inFlight" => ~ (now - typedAt >= CallMs)
      BY <2>2 DEF Overdue
    <3>2. ~ (phase \in Answering /\ ~ acked /\ call = None)
      BY <2>2 DEF Overdue, Responds, DeferSettled, Answering, IInv, Flow
    <3>3. /\ {startedAt, typedAt, now} \subseteq Nat /\ timer \in Nat \cup {None}
          /\ call # None => call.sentAt \in Nat
      BY DEF IInv, TypeOK, Calls
    <3>4. QED
      BY <1>1, <1>2, <2>2, <3>1, <3>2, <3>3, Times DEF IInv, InTime
  <2>3. QED
    BY <2>1, <2>2
<1>9. QED
  BY <1>4, <1>5, <1>6, <1>7, <1>8 DEF IInv

LEMMA Around ==
    ASSUME IInv, OthersAttempt \/ SweepsCooldowns \/ Tick \/ UNCHANGED vars
    PROVE  IInv'
<1>1. now \in Nat /\ Cool(window, admitted, now)
  BY DEF IInv, TypeOK
<1>2. CASE OthersAttempt
  <2>1. Cool(window', admitted', now) /\ now' = now
    BY <1>2, Attempted DEF OthersAttempt
  <2>2. QED
    BY <1>1, <1>2, <2>1, Passing DEF OthersAttempt
<1>3. CASE SweepsCooldowns
  <2>1. Cool(window', admitted', now) /\ now' = now
    BY <1>1, <1>3, CoolSweep DEF SweepsCooldowns
  <2>2. QED
    BY <1>1, <1>3, <2>1, Passing DEF SweepsCooldowns
<1>4. CASE Tick
  <2>1. now' = now + 1 /\ UNCHANGED store
    BY <1>4 DEF Tick
  <2>2. Cool(window', admitted', now')
    BY <1>1, <2>1, CoolTick DEF store
  <2>3. QED
    BY <1>1, <1>4, <2>1, <2>2, Passing DEF Tick
<1>5. CASE UNCHANGED vars
  <2>1. UNCHANGED <<asked, phase, timer, response, responder, call, discord, result, history, store, now>>
    BY <1>5 DEF vars
  <2>2. Cool(window', admitted', now')
    BY <1>1, <2>1 DEF store
  <2>3. QED
    BY <1>1, <2>1, <2>2, Passing
<1>6. QED
  BY <1>2, <1>3, <1>4, <1>5

LEMMA Stepping ==
    ASSUME IInv, [Next]_vars
    PROVE  IInv'
<1>1. ASSUME NEW r \in Routes, NEW m \in {"auto", "immediate", "never"}, NEW cooled,
             \/ StartsTooFast(r, m) \/ StartsUnauthorized(r, m, cooled)
             \/ StartsDeferring(r, m, cooled) \/ StartsHandling(r, m, cooled)
      PROVE  IInv'
  BY <1>1, StartsRefused, StartsDeferred, StartsAtOnce
<1>2. ASSUME NEW r \in Routes, StartsUnroutable(r)
      PROVE  IInv'
  BY <1>2, StartsUnknown
<1>3. CASE TimerFires \/ Handles
  BY <1>3, TimerDefers, HandlerEnds
<1>4. CASE Continues
  BY <1>4, Failing, SayingNothing, Sending, Deferred, NotDeferred, DeferralLost,
     Called, CallNotTaken, CallsLost DEF Continues
<1>5. CASE OthersAttempt \/ SweepsCooldowns \/ Tick \/ UNCHANGED vars
  BY <1>5, Around
<1>6. CASE \E r \in Routes, m \in {"auto", "immediate", "never"} :
            \/ StartsTooFast(r, m)
            \/ \E cooled \in {FALSE, Cooled(r)} :
                StartsUnauthorized(r, m, cooled) \/ StartsDeferring(r, m, cooled)
                    \/ StartsHandling(r, m, cooled)
  BY <1>1, <1>6
<1>7. QED
  BY <1>2, <1>3, <1>4, <1>5, <1>6 DEF Next

LEMMA Starting ==
    ASSUME Init
    PROVE  IInv
<1>1. TypeOK
  <2>1. /\ route = "command" /\ mode = "auto" /\ visibility = "public" /\ phase = "new"
        /\ startedAt = 0 /\ lag = 0 /\ typedAt = 0 /\ now = 0
        /\ timer = None /\ response = None /\ call = None /\ panel = None /\ placeholder = None
        /\ window = None /\ acked = FALSE /\ firstTaken = FALSE /\ thinking = FALSE /\ troubled = FALSE
        /\ pending = "settled" /\ shown = {} /\ overheard = {} /\ refusals = {}
    BY DEF Init, NoWindow
  <2>2. {acked, firstTaken, thinking, troubled} \subseteq BOOLEAN
    BY <2>1
  <2>3. {startedAt, lag, typedAt, now} \subseteq Nat
    BY <2>1
  <2>4. /\ overheard \subseteq shown /\ shown \subseteq Said
        /\ refusals \subseteq {"duplicate", "expired", "premature"}
    BY <2>1
  <2>5. /\ route \in Routes /\ mode \in {"auto", "immediate", "never"}
        /\ phase \in {"new", "deferring", "handling", "responding", "reporting", "unroutable", "done"}
        /\ pending \in {"settled", "inFlight", "fault", "gone"} /\ visibility \in {"public", "ephemeral"}
    BY <2>1 DEF Routes
  <2>6. QED
    BY <2>1, <2>2, <2>3, <2>4, <2>5 DEF TypeOK
<1>2. Fresh /\ Asked /\ Flow /\ CallFits
  BY DEF Init, Fresh, Asked, Modes, Flow, CallFits
<1>3. FirstFits /\ InTime /\ Whispered /\ Silent
  BY DEF Init, FirstFits, InTime, Whispered, Silent, Untroubled, Answering
<1>4. AnsweredInTime /\ FailuresAreWhispered /\ SaysOneThing
  BY NoneIs DEF Init, AnsweredInTime, FailuresAreWhispered, SaysOneThing, Said
<1>5. Cool(window, admitted, now)
  BY CoolInit DEF Init, NoWindow
<1>6. QED
  BY <1>1, <1>2, <1>3, <1>4, <1>5 DEF IInv

\* The inductive invariant: what run() awaits and has to say in each phase, that
\* the call under way is the one respond() chose, that the responder knows what
\* Discord has until a call is lost, when each call was sent, and what the
\* cooldown let in around the window it keeps (pipeline.ts, context-factory.ts).
THEOREM Inductive == Spec => []IInv
<1>1. Init => IInv
  BY Starting
<1>2. IInv /\ [Next]_vars => IInv'
  BY Stepping
<1>3. QED
  BY <1>1, <1>2, PTL DEF Spec

\* Discord refuses no call as a second first reply, nor an edit of nothing,
\* unless an answer of its own was lost (context-factory.ts:183-191).
THEOREM AnswersOnce == Spec => []OneFirstReply
<1>1. IInv => OneFirstReply
  BY DEF IInv, FirstFits, OneFirstReply, TypeOK
<1>2. QED
  BY <1>1, Inductive, PTL

\* A deferral or a reply comes inside Discord's deadline whatever the handler
\* takes, if the timer and one round trip fit in it (defer-policy.ts:38-44).
THEOREM InDeadline == Spec => []AnsweredInTime
<1>1. IInv => AnsweredInTime
  BY DEF IInv
<1>2. QED
  BY <1>1, Inductive, PTL

\* When nothing is lost or late, what is left is the one last word
\* (pipeline.ts:77-78, context-factory.ts:225-287).
THEOREM OneWord == Spec => []SaysOneThing
<1>1. IInv => SaysOneThing
  BY DEF IInv
<1>2. QED
  BY <1>1, Inductive, PTL

\* No failure is shown to others, but where the command was public
\* (render.ts:95-96, context-factory.ts:214-223, 264-267).
THEOREM InWhispers == Spec => []FailuresAreWhispered
<1>1. IInv => FailuresAreWhispered
  BY DEF IInv
<1>2. QED
  BY <1>1, Inductive, PTL

\* Any two windows let in at most one less than twice the limit, whatever the
\* sweeper does between attempts (memory.cooldown.ts:14-17).
THEOREM CooldownBounds == Spec => []CooldownHolds
<1>1. IInv => CooldownHolds
  <2>1. SUFFICES ASSUME IInv, NEW t \in -1..now
                 PROVE  Cardinality(Within(admitted, t, t + WindowMs)) <= 2 * Limit - 1
    BY DEF CooldownHolds, Within
  <2>2. QED
    BY <2>1 DEF IInv, Cool
<1>2. QED
  BY <1>1, Inductive, PTL
=============================================================================
