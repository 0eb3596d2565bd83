-------------------------- MODULE OperationsProofs --------------------------
(***************************************************************************)
(* What a process promises its operators: how it starts and stops, and     *)
(* what it reports of its own health.                                      *)
(*                                                                         *)
(* ProcessLifecycle, for any number of signals and crashes and of work     *)
(* under way.  The steps registered are always the first of one sequence,  *)
(* Built, and so are, backwards, those a teardown has left; with what is   *)
(* open tied to them, the rest follows.                                    *)
(*                                                                         *)
(* HealthChecks, for any number of checkers and reports, over the memory   *)
(* cache alone or in front of Redis.  A check that nobody disturbs finds   *)
(* its own token in memory, until it has looked.                           *)
(***************************************************************************)
EXTENDS ProcessLifecycle, HealthChecks, TLAPS

Built == <<"event-loop-monitor", "ops-server", "infrastructure", "pool-metrics",
           "outbound-limiter", "discord-client", "jobs">>

\* How many steps are registered on entering a phase.
Depth == [ops |-> 1, infrastructure |-> 3, migrating |-> 3, loggingIn |-> 6,
          awaitingReady |-> 6, up |-> 7]

\* A sequence that is the first of Built, forwards or backwards.
FirstUp(s) == s \in Seq(Names) /\ Len(s) \in 0..7 /\ \A i \in 1..Len(s) : s[i] = Built[i]

FirstDown(s) ==
    s \in Seq(Names) /\ Len(s) \in 0..7 /\ \A i \in 1..Len(s) : s[i] = Built[Len(s) + 1 - i]

\* The first n steps.
First(n) == {Built[i] : i \in 1..n}

\* What is registered is the first of Built, as deep as the phase.
StepsAreFirst ==
    /\ FirstUp(steps)
    /\ phase \in DOMAIN Depth => Len(steps) = Depth[phase]

\* What a teardown has left is the first of Built too, the last first.
LeftIsFirst ==
    /\ FirstDown(left)
    /\ Len(left) <= Len(steps)

\* A teardown begins with the end of the boot, and finds all of it open.
OpenIsLeft ==
    /\ outcome = "none" => left = <<>> /\ failed = {} /\ open = First(Len(steps))
    /\ outcome = "none" => phase \in DOMAIN Depth
    /\ outcome # "none" => /\ phase \in {"up", "failed"}
                           /\ First(Len(left)) \subseteq open
                           /\ open \subseteq First(Len(left)) \cup failed
    /\ outcome = "complete" => left = <<>>

\* Signals and crashes are heard by a process that is up.
CallersAreUp ==
    /\ callers \in Seq({0, Fatal})
    /\ callers # <<>> => phase = "up" /\ outcome # "none"

\* A request that may still be answered with 200 came to a process that stood.
RequestStands ==
    /\ request.status \in {"probing", "ready"} =>
        /\ phase = "up"
        /\ request.ready => request.stood \/ "discord-client" \in failed
    /\ request.status = "ready" => request.ready
    /\ request.left # {} => request.status = "probing"

ExitShape ==
    /\ ~ Running /\ exit.how \in {"exit", "drained"} => outcome \in {"complete", "timedOut"}
    /\ ~ Running /\ exit.code = 0 =>
        phase = "up" /\ outcome = "complete" /\ Head(callers) = 0

IInv ==
    /\ TypeOK
    /\ StepsAreFirst
    /\ LeftIsFirst
    /\ OpenIsLeft
    /\ CallersAreUp
    /\ RequestStands
    /\ ExitShape

-----------------------------------------------------------------------------
(* The steps' names. *)

LEMMA BuiltIs ==
    /\ Len(Built) = 7
    /\ Built[1] = "event-loop-monitor"
    /\ Built[2] = "ops-server"
    /\ Built[3] = "infrastructure"
    /\ Built[4] = "pool-metrics"
    /\ Built[5] = "outbound-limiter"
    /\ Built[6] = "discord-client"
    /\ Built[7] = "jobs"
BY DEF Built

LEMMA StartedIs ==
    /\ DOMAIN Started = {"ops", "infrastructure", "migrating", "loggingIn", "awaitingReady", "up"}
    /\ Started["ops"] = <<Built[1]>>
    /\ Started["infrastructure"] = <<Built[2], Built[3]>>
    /\ Started["migrating"] = <<>>
    /\ Started["loggingIn"] = <<Built[4], Built[5], Built[6]>>
    /\ Started["awaitingReady"] = <<>>
    /\ Started["up"] = <<Built[7]>>
BY BuiltIs DEF Started

LEMMA StartedRanges ==
    /\ Range(Started["ops"]) = {Built[1]}
    /\ Range(Started["infrastructure"]) = {Built[2], Built[3]}
    /\ Range(Started["migrating"]) = {}
    /\ Range(Started["loggingIn"]) = {Built[4], Built[5], Built[6]}
    /\ Range(Started["awaitingReady"]) = {}
    /\ Range(Started["up"]) = {Built[7]}
<1>1. /\ Range(<<Built[1]>>) = {Built[1]}
      /\ Range(<<Built[2], Built[3]>>) = {Built[2], Built[3]}
      /\ Range(<<>>) = {}
      /\ Range(<<Built[4], Built[5], Built[6]>>) = {Built[4], Built[5], Built[6]}
      /\ Range(<<Built[7]>>) = {Built[7]}
  BY DEF Range
<1>2. QED
  BY <1>1, StartedIs

LEMMA NamesAre == Names = First(7)
<1>1. Names = UNION {Range(Started["ops"]), Range(Started["infrastructure"]),
                     Range(Started["migrating"]), Range(Started["loggingIn"]),
                     Range(Started["awaitingReady"]), Range(Started["up"])}
  BY StartedIs DEF Names
<1>2. First(7) = {Built[1], Built[2], Built[3], Built[4], Built[5], Built[6], Built[7]}
  BY DEF First
<1>3. QED
  BY <1>1, <1>2, StartedRanges

LEMMA BuiltIsInjective ==
    ASSUME NEW i \in 1..7, NEW j \in 1..7, Built[i] = Built[j]
    PROVE  i = j
BY BuiltIs

\* Which step is among the first n.
LEMMA InFirst ==
    ASSUME NEW n \in 0..7, NEW i \in 1..7
    PROVE  /\ Built[i] \in First(n) <=> i <= n
           /\ First(n) \subseteq Names
           /\ n > 0 => First(n) \ {Built[n]} = First(n - 1)
           /\ n > 0 => First(n) = First(n - 1) \cup {Built[n]}
           /\ n = 0 => First(n) = {}
<1>1. Built[i] \in First(n) <=> i <= n
  BY BuiltIsInjective DEF First
<1>2. First(n) \subseteq Names
  BY NamesAre DEF First
<1>3. n > 0 => First(n) = First(n - 1) \cup {Built[n]}
  BY DEF First
<1>4. n > 0 => Built[n] \notin First(n - 1)
  BY BuiltIsInjective DEF First
<1>5. n = 0 => First(n) = {}
  BY DEF First
<1>6. QED
  BY <1>1, <1>2, <1>3, <1>4, <1>5

-----------------------------------------------------------------------------
(* Sequences that are the first of Built, forwards and backwards. *)

LEMMA RangeOfFirst ==
    ASSUME NEW s, FirstUp(s) \/ FirstDown(s)
    PROVE  Range(s) = First(Len(s))
<1>1. CASE FirstUp(s)
  BY <1>1 DEF FirstUp, Range, First
<1>2. CASE FirstDown(s)
  <2>1. \A i \in 1..Len(s) : Len(s) + 1 - i \in 1..Len(s) /\ s[Len(s) + 1 - i] = Built[i]
    BY <1>2 DEF FirstDown
  <2>2. QED
    BY <1>2, <2>1 DEF FirstDown, Range, First
<1>3. QED
  BY <1>1, <1>2

LEMMA Extended ==
    ASSUME NEW s, FirstUp(s), NEW t \in Seq(Names), Len(s) + Len(t) <= 7,
           \A i \in 1..Len(t) : t[i] = Built[Len(s) + i]
    PROVE  /\ FirstUp(s \o t)
           /\ Len(s \o t) = Len(s) + Len(t)
           /\ First(Len(s \o t)) = First(Len(s)) \cup Range(t)
<1>1. s \in Seq(Names) /\ Len(s) \in Nat /\ Len(t) \in Nat
  BY DEF FirstUp
<1>2. s \o t \in Seq(Names) /\ Len(s \o t) = Len(s) + Len(t)
  BY <1>1
<1>3. ASSUME NEW i \in 1..Len(s \o t) PROVE (s \o t)[i] = Built[i]
  <2>1. CASE i <= Len(s)
    BY <1>1, <1>2, <2>1 DEF FirstUp
  <2>2. CASE i > Len(s)
    <3>1. i - Len(s) \in 1..Len(t) /\ i = Len(s) + (i - Len(s))
      BY <1>1, <1>2, <2>2
    <3>2. (s \o t)[i] = t[i - Len(s)]
      BY <1>1, <1>2, <2>2
    <3>3. QED
      BY <3>1, <3>2
  <2>3. QED
    BY <1>1, <1>2, <2>1, <2>2
<1>4. First(Len(s) + Len(t)) = First(Len(s)) \cup Range(t)
  <2>1. Range(t) = {Built[Len(s) + i] : i \in 1..Len(t)}
    BY DEF Range
  <2>2. ASSUME NEW i \in 1..(Len(s) + Len(t)), i > Len(s)
        PROVE  Built[i] \in Range(t)
    <3>1. i - Len(s) \in 1..Len(t) /\ i = Len(s) + (i - Len(s))
      BY <1>1, <2>2
    <3>2. QED
      BY <2>1, <3>1
  <2>3. \A i \in 1..Len(t) : Len(s) + i \in 1..(Len(s) + Len(t))
    BY <1>1
  <2>4. Range(t) \subseteq First(Len(s) + Len(t))
    BY <2>1, <2>3 DEF First
  <2>5. First(Len(s)) \subseteq First(Len(s) + Len(t))
    BY <1>1 DEF First
  <2>6. First(Len(s) + Len(t)) \subseteq First(Len(s)) \cup Range(t)
    BY <1>1, <2>2 DEF First
  <2>7. QED
    BY <2>4, <2>5, <2>6
<1>5. FirstUp(s \o t)
  <2>1. Len(s \o t) \in 0..7
    BY <1>1, <1>2
  <2>2. \A i \in 1..Len(s \o t) : (s \o t)[i] = Built[i]
    BY <1>3
  <2>3. QED
    BY <1>2, <2>1, <2>2 DEF FirstUp
<1>6. QED
  BY <1>2, <1>4, <1>5

LEMMA Reversed ==
    ASSUME NEW s, FirstUp(s)
    PROVE  FirstDown(Order(s)) /\ Len(Order(s)) = Len(s)
BY DEF FirstUp, FirstDown, Order, Reverse

LEMMA Shortened ==
    ASSUME NEW s, FirstDown(s), s # <<>>
    PROVE  /\ FirstDown(Tail(s)) /\ Len(Tail(s)) = Len(s) - 1
           /\ Head(s) = Built[Len(s)] /\ Len(s) \in 1..7
BY DEF FirstDown

-----------------------------------------------------------------------------
(* The boot. *)

LEMMA DepthIs ==
    /\ DOMAIN Depth = {"ops", "infrastructure", "migrating", "loggingIn", "awaitingReady", "up"}
    /\ Depth["ops"] = 1 /\ Depth["infrastructure"] = 3 /\ Depth["migrating"] = 3
    /\ Depth["loggingIn"] = 6 /\ Depth["awaitingReady"] = 6 /\ Depth["up"] = 7
BY DEF Depth

LEMMA AfterIs ==
    /\ DOMAIN After = {"ops", "infrastructure", "migrating", "loggingIn", "awaitingReady"}
    /\ After["ops"] = "infrastructure" /\ After["infrastructure"] = "migrating"
    /\ After["migrating"] = "loggingIn" /\ After["loggingIn"] = "awaitingReady"
    /\ After["awaitingReady"] = "up"
BY DEF After

\* A boot that goes on registers the next steps of Built.
LEMMA EntersInOrder ==
    ASSUME StepsAreFirst, phase \in DOMAIN After, Enters(After[phase])
    PROVE  /\ StepsAreFirst'
           /\ phase' \in DOMAIN Depth
           /\ Len(steps) <= Len(steps')
           /\ First(Len(steps')) = First(Len(steps)) \cup Range(Started[phase'])
<1> DEFINE next == After[phase]
           t == Started[next]
<1>1. /\ phase' = next /\ steps' = steps \o t
      /\ FirstUp(steps) /\ phase \in DOMAIN Depth /\ next \in DOMAIN Depth
      /\ Len(steps) = Depth[phase]
  BY AfterIs, DepthIs DEF Enters, Registered, StepsAreFirst
<1>2. /\ t \in Seq(Names)
      /\ Depth[phase] + Len(t) = Depth[next]
      /\ \A i \in 1..Len(t) : t[i] = Built[Depth[phase] + i]
  <2> HIDE DEF t
  <2>0. \A i \in 1..7 : Built[i] \in Names
    BY NamesAre DEF First
  <2>1. CASE phase = "ops"
    <3>1. t = <<Built[2], Built[3]>> /\ Depth[phase] = 1 /\ Depth[next] = 3
      BY <2>1, AfterIs, StartedIs, DepthIs DEF t
    <3>2. QED
      BY <2>0, <3>1
  <2>2. CASE phase \in {"infrastructure", "loggingIn"}
    <3>1. t = <<>> /\ Depth[next] = Depth[phase] /\ Depth[phase] \in Nat
      BY <2>2, AfterIs, StartedIs, DepthIs DEF t
    <3>2. QED
      BY <3>1
  <2>3. CASE phase = "migrating"
    <3>1. t = <<Built[4], Built[5], Built[6]>> /\ Depth[phase] = 3 /\ Depth[next] = 6
      BY <2>3, AfterIs, StartedIs, DepthIs DEF t
    <3>2. QED
      BY <2>0, <3>1
  <2>4. CASE phase = "awaitingReady"
    <3>1. t = <<Built[7]>> /\ Depth[phase] = 6 /\ Depth[next] = 7
      BY <2>4, AfterIs, StartedIs, DepthIs DEF t
    <3>2. QED
      BY <2>0, <3>1
  <2>5. QED
    BY <2>1, <2>2, <2>3, <2>4, AfterIs
<1>3. Depth[next] <= 7 /\ Len(t) \in Nat
  BY <1>1, <1>2, DepthIs
<1>4. /\ FirstUp(steps \o t) /\ Len(steps \o t) = Depth[next]
      /\ First(Len(steps \o t)) = First(Len(steps)) \cup Range(t)
  <2> HIDE DEF t
  <2>1. QED
    BY <1>1, <1>2, <1>3, Extended
<1>5. Len(steps) <= Depth[next]
  BY <1>1, <1>2, <1>3, DepthIs
<1>6. QED
  BY <1>1, <1>4, <1>5 DEF StepsAreFirst

\* Two features that collide have left two steps of the next three.
LEMMA CollideInOrder ==
    ASSUME StepsAreFirst, FeaturesCollide
    PROVE  /\ FirstUp(steps') /\ StepsAreFirst'
           /\ open = First(Len(steps)) => open' = First(Len(steps'))
<1> DEFINE t == <<Built[4], Built[5]>>
<1>1. /\ FirstUp(steps) /\ Len(steps) = 3
      /\ steps' = steps \o t /\ open' = open \cup Range(t) /\ phase' = "failed"
  BY BuiltIs, DepthIs DEF FeaturesCollide, StepsAreFirst
<1>2. /\ t \in Seq(Names) /\ Len(t) = 2
      /\ \A i \in 1..Len(t) : t[i] = Built[Len(steps) + i]
  <2>1. Built[4] \in Names /\ Built[5] \in Names
    BY NamesAre DEF First
  <2>2. QED
    BY <1>1, <2>1
<1>3. /\ FirstUp(steps')
      /\ First(Len(steps')) = First(Len(steps)) \cup Range(t)
  <2> HIDE DEF t
  <2>1. Len(steps) + Len(t) <= 7
    BY <1>1, <1>2
  <2>2. QED
    BY <1>1, <1>2, <2>1, Extended
<1>4. QED
  BY <1>1, <1>3, DepthIs DEF StepsAreFirst

\* No teardown has begun while the boot is under way.
LEMMA BootBefore == OpenIsLeft /\ phase \in DOMAIN After => outcome = "none"
BY AfterIs DEF OpenIsLeft

LEMMA StepsKept == IInv /\ [Next]_vars => StepsAreFirst'
<1> SUFFICES ASSUME IInv, [Next]_vars PROVE StepsAreFirst'
  OBVIOUS
<1>1. StepsAreFirst
  BY DEF IInv
<1>2. CASE BootAdvances
  BY <1>1, <1>2, EntersInOrder DEF BootAdvances
<1>3. CASE FeaturesCollide
  BY <1>1, <1>3, CollideInOrder
<1>4. CASE ~ BootAdvances /\ ~ FeaturesCollide
  <2>1. steps' = steps /\ phase' \in {phase, "failed"}
    BY <1>4
    DEF Next, vars, booting, BootFails, GatewayReady, ReadyTimesOut, ReadyRejectsUnheard,
        WorkArrives, WorkEnds, ReadyzAsked, DatabaseProbed, ReadyzAnswers, StepEnds, StepFails,
        TeardownCompletes, TeardownTimesOut, Killed, Asked, Exits, Drains
  <2>2. QED
    BY <1>1, <2>1, DepthIs DEF StepsAreFirst
<1>5. QED
  BY <1>2, <1>3, <1>4

-----------------------------------------------------------------------------
(* The teardown. *)

\* What a teardown that begins has left is all that is registered.
LEMMA TeardownBegins ==
    ASSUME NEW s, FirstUp(s), steps' = s, TearsDown(s), outcome = "none"
    PROVE  /\ LeftIsFirst'
           /\ First(Len(left')) = First(Len(steps'))
           /\ outcome' = "running" /\ failed' = failed
BY Reversed DEF TearsDown, LeftIsFirst, FirstUp

BootEnds == BootFails \/ FeaturesCollide \/ ReadyTimesOut

LEMMA BootEndsInTeardown ==
    ASSUME IInv, BootEnds
    PROVE  /\ phase' = "failed" /\ outcome = "none"
           /\ \E s : FirstUp(s) /\ steps' = s /\ TearsDown(s)
<1>1. outcome = "none"
  BY BootBefore, AfterIs DEF IInv, BootEnds, BootFails, FeaturesCollide, ReadyTimesOut
<1>2. CASE BootFails \/ ReadyTimesOut
  BY <1>1, <1>2 DEF BootFails, ReadyTimesOut, IInv, StepsAreFirst
<1>3. CASE FeaturesCollide
  BY <1>1, <1>3, CollideInOrder DEF FeaturesCollide, IInv
<1>4. QED
  BY <1>2, <1>3 DEF BootEnds

\* At most the outcome of the teardown changes.
OutcomeAlone ==
    /\ UNCHANGED <<phase, steps, open, left, failed, callers>>
    /\ \/ outcome' = outcome
       \/ outcome = "running" /\ outcome' = "complete" /\ left = <<>>
       \/ outcome = "running" /\ outcome' = "timedOut"

\* What leaves the teardown, and all it stands on, alone.
LEMMA TeardownUntouched ==
    ASSUME [Next]_vars, ~ BootAdvances, ~ BootEnds, ~ StepEnds, ~ StepFails,
           ~ \E code \in {0, Fatal} : Asked(code)
    PROVE  OutcomeAlone
BY DEF BootEnds, OutcomeAlone, Next, vars, booting, teardown, GatewayReady,
       ReadyRejectsUnheard, WorkArrives, WorkEnds, ReadyzAsked, DatabaseProbed, ReadyzAnswers,
       TeardownCompletes, TeardownTimesOut, DeadlineArmed, Killed, Exits, Drains

LEMMA LeftKept == IInv /\ [Next]_vars => LeftIsFirst'
<1> SUFFICES ASSUME IInv, [Next]_vars PROVE LeftIsFirst'
  OBVIOUS
<1>1. StepsAreFirst /\ LeftIsFirst /\ OpenIsLeft
  BY DEF IInv
<1>2. CASE BootAdvances
  <2>1. Len(steps) <= Len(steps') /\ StepsAreFirst'
    BY <1>1, <1>2, EntersInOrder DEF BootAdvances
  <2>2. left' = left
    BY <1>2 DEF BootAdvances, teardown
  <2>3. QED
    BY <1>1, <2>1, <2>2 DEF LeftIsFirst, StepsAreFirst, FirstDown, FirstUp
<1>3. CASE BootEnds
  BY <1>3, BootEndsInTeardown, TeardownBegins
<1>4. ASSUME NEW code \in {0, Fatal}, Asked(code) PROVE LeftIsFirst'
  <2>1. TearsDown(steps) /\ steps' = steps /\ FirstUp(steps)
    BY <1>1, <1>4 DEF Asked, booting, StepsAreFirst
  <2>2. CASE outcome = "none"
    BY <2>1, <2>2, TeardownBegins
  <2>3. CASE outcome # "none"
    BY <1>1, <2>1, <2>3 DEF TearsDown, teardown, LeftIsFirst
  <2>4. QED
    BY <2>2, <2>3
<1>5. CASE StepEnds \/ StepFails
  <2>1. left # <<>> /\ left' = Tail(left) /\ steps' = steps
    BY <1>5 DEF StepEnds, StepFails, booting
  <2>2. /\ FirstDown(Tail(left)) /\ Len(Tail(left)) = Len(left) - 1 /\ Len(left) \in 1..7
    BY <1>1, <2>1, Shortened DEF LeftIsFirst
  <2>3. QED
    BY <1>1, <2>1, <2>2 DEF LeftIsFirst, StepsAreFirst, FirstUp
<1>6. CASE OutcomeAlone
  BY <1>1, <1>6 DEF LeftIsFirst, OutcomeAlone
<1>7. QED
  BY <1>2, <1>3, <1>4, <1>5, <1>6, TeardownUntouched

LEMMA OpenKept == IInv /\ [Next]_vars => OpenIsLeft'
<1> SUFFICES ASSUME IInv, [Next]_vars PROVE OpenIsLeft'
  OBVIOUS
<1>1. StepsAreFirst /\ LeftIsFirst /\ OpenIsLeft
  BY DEF IInv
<1>2. CASE BootAdvances
  <2>1. /\ outcome = "none" /\ outcome' = outcome /\ left' = left /\ failed' = failed
        /\ phase \in DOMAIN After
    BY <1>1, <1>2, BootBefore DEF BootAdvances, teardown
  <2>2. /\ phase' \in DOMAIN Depth
        /\ open' = open \cup Range(Started[phase'])
        /\ First(Len(steps')) = First(Len(steps)) \cup Range(Started[phase'])
    BY <1>1, <1>2, <2>1, EntersInOrder DEF BootAdvances, Enters
  <2>3. QED
    BY <1>1, <2>1, <2>2 DEF OpenIsLeft
<1>3. CASE BootEnds
  <2>1. /\ phase' = "failed" /\ outcome = "none" /\ outcome' = "running"
        /\ First(Len(left')) = First(Len(steps'))
    BY <1>3, BootEndsInTeardown, TeardownBegins
  <2>2. open' = First(Len(steps'))
    <3>1. open = First(Len(steps))
      BY <1>1, <2>1 DEF OpenIsLeft
    <3>2. CASE FeaturesCollide
      BY <1>1, <3>1, <3>2, CollideInOrder
    <3>3. CASE BootFails \/ ReadyTimesOut
      BY <3>1, <3>3 DEF BootFails, ReadyTimesOut
    <3>4. QED
      BY <1>3, <3>2, <3>3 DEF BootEnds
  <2>3. QED
    BY <2>1, <2>2 DEF OpenIsLeft
<1>4. ASSUME NEW code \in {0, Fatal}, Asked(code) PROVE OpenIsLeft'
  <2>1. /\ TearsDown(steps) /\ steps' = steps /\ FirstUp(steps)
        /\ open' = open /\ phase' = phase /\ phase = "up"
    BY <1>1, <1>4 DEF Asked, booting, StepsAreFirst, HandlersInstalled
  <2>2. CASE outcome = "none"
    <3>1. First(Len(left')) = First(Len(steps')) /\ outcome' = "running"
      BY <2>1, <2>2, TeardownBegins
    <3>2. QED
      BY <1>1, <2>1, <2>2, <3>1 DEF OpenIsLeft
  <2>3. CASE outcome # "none"
    BY <1>1, <2>1, <2>3 DEF TearsDown, teardown, OpenIsLeft
  <2>4. QED
    BY <2>2, <2>3
<1>5. CASE StepEnds \/ StepFails
  <2>1. left # <<>> /\ left' = Tail(left) /\ phase' = phase /\ outcome' = outcome
    BY <1>5 DEF StepEnds, StepFails, booting
  <2>2. /\ Len(left') = Len(left) - 1 /\ Head(left) = Built[Len(left)] /\ Len(left) \in 1..7
    BY <1>1, <2>1, Shortened DEF LeftIsFirst
  <2>3. First(Len(left')) = First(Len(left)) \ {Head(left)}
    BY <2>2, InFirst
  <2>4. CASE StepEnds
    BY <1>1, <2>1, <2>3, <2>4 DEF StepEnds, OpenIsLeft
  <2>5. CASE StepFails
    BY <1>1, <2>1, <2>3, <2>5 DEF StepFails, OpenIsLeft
  <2>6. QED
    BY <1>5, <2>4, <2>5
<1>6. CASE OutcomeAlone
  BY <1>1, <1>6 DEF OpenIsLeft, OutcomeAlone
<1>7. QED
  BY <1>2, <1>3, <1>4, <1>5, <1>6, TeardownUntouched

-----------------------------------------------------------------------------
(* Signals, the exit, and the request to /readyz. *)

LEMMA CallersKept == IInv /\ [Next]_vars => CallersAreUp'
<1> SUFFICES ASSUME IInv, [Next]_vars PROVE CallersAreUp'
  OBVIOUS
<1>1. CallersAreUp /\ OpenIsLeft
  BY DEF IInv
<1>2. CASE BootAdvances
  BY <1>1, <1>2, BootBefore DEF BootAdvances, CallersAreUp
<1>3. CASE BootEnds
  <2>1. outcome = "none" /\ callers' = callers
    BY <1>3, BootEndsInTeardown DEF BootEnds, BootFails, FeaturesCollide, ReadyTimesOut
  <2>2. QED
    BY <1>1, <2>1 DEF CallersAreUp
<1>4. ASSUME NEW code \in {0, Fatal}, Asked(code) PROVE CallersAreUp'
  <2>1. outcome' # "none" /\ phase' = "up"
    BY <1>4 DEF Asked, TearsDown, teardown, booting, HandlersInstalled
  <2>2. QED
    BY <1>1, <1>4, <2>1 DEF Asked, CallersAreUp
<1>5. CASE StepEnds \/ StepFails
  BY <1>1, <1>5 DEF StepEnds, StepFails, booting, CallersAreUp
<1>6. CASE OutcomeAlone
  BY <1>1, <1>6 DEF OutcomeAlone, CallersAreUp
<1>7. QED
  BY <1>2, <1>3, <1>4, <1>5, <1>6, TeardownUntouched

\* Once the process has ended nothing happens to it.
LEMMA EndedStays == [Next]_vars /\ ~ Running => UNCHANGED vars
BY DEF Next, vars, BootAdvances, BootFails, FeaturesCollide, GatewayReady, ReadyTimesOut,
       ReadyRejectsUnheard, WorkArrives, WorkEnds, ReadyzAsked, DatabaseProbed, ReadyzAnswers,
       StepEnds, StepFails, TeardownCompletes, TeardownTimesOut, Killed, Asked, Exits, Drains

LEMMA ExitKept == IInv /\ [Next]_vars => ExitShape'
<1> SUFFICES ASSUME IInv, [Next]_vars PROVE ExitShape'
  OBVIOUS
<1>1. ExitShape /\ CallersAreUp
  BY DEF IInv
<1>2. CASE ~ Running
  BY <1>1, <1>2, EndedStays DEF vars, ExitShape, Running
<1>3. CASE Exits
  <2>1. /\ Answers /\ callers # <<>> /\ exit' = [how |-> "exit", code |-> CodeFor]
        /\ UNCHANGED <<phase, outcome, callers>>
    BY <1>3 DEF Exits, Ends, booting, teardown
  <2>2. phase = "up"
    BY <1>1, <2>1 DEF CallersAreUp
  <2>3. QED
    BY <2>1, <2>2 DEF Answers, CodeFor, Fatal, ExitShape
<1>4. CASE Drains
  BY <1>4 DEF Drains, Ends, Fatal, teardown, ExitShape
<1>5. CASE Killed \/ ReadyRejectsUnheard
  BY <1>5 DEF Killed, ReadyRejectsUnheard, Ends, Fatal, ExitShape
<1>6. CASE Running /\ exit' = exit
  BY <1>6 DEF Running, ExitShape
<1>7. QED
  BY <1>2, <1>3, <1>4, <1>5, <1>6
  DEF Next, vars, BootAdvances, BootFails, FeaturesCollide, GatewayReady, ReadyTimesOut,
      WorkArrives, WorkEnds, ReadyzAsked, DatabaseProbed, ReadyzAnswers,
      StepEnds, StepFails, TeardownCompletes, TeardownTimesOut, Asked

\* A step that is open and did not fail has all that was registered before it open.
LEMMA StandsOnOpen ==
    ASSUME StepsAreFirst, LeftIsFirst, OpenIsLeft, NEW i \in 1..7, NEW j \in 1..7,
           Built[i] \in open, Built[i] \notin failed, j <= i
    PROVE  Built[j] \in open
<1> DEFINE n == IF outcome = "none" THEN Len(steps) ELSE Len(left)
<1>1. n \in 0..7 /\ First(n) \subseteq open /\ open \subseteq First(n) \cup failed
  BY DEF StepsAreFirst, LeftIsFirst, OpenIsLeft, FirstUp, FirstDown
<1> HIDE DEF n
<1>2. i <= n
  BY <1>1, InFirst
<1>3. Built[j] \in First(n)
  BY <1>1, <1>2, InFirst
<1>4. QED
  BY <1>1, <1>3

\* A process that is up has every probe.
LEMMA UpHasProbes == StepsAreFirst /\ phase = "up" => "discord" \in Probes
<1> SUFFICES ASSUME StepsAreFirst, phase = "up" PROVE "discord" \in Probes
  OBVIOUS
<1>1. FirstUp(steps) /\ Len(steps) = 7
  BY DepthIs DEF StepsAreFirst
<1>2. Built[7] \in Range(steps)
  <2>1. Range(steps) = First(7)
    BY <1>1, RangeOfFirst
  <2>2. Built[7] \in First(7)
    BY DEF First
  <2>3. QED
    BY <2>1, <2>2
<1>3. QED
  BY <1>2, BuiltIs DEF Probes

LEMMA RequestKept == IInv /\ [Next]_vars => RequestStands'
<1> SUFFICES ASSUME IInv, [Next]_vars PROVE RequestStands'
  OBVIOUS
<1>1. RequestStands /\ TypeOK /\ StepsAreFirst /\ LeftIsFirst /\ OpenIsLeft
  BY DEF IInv
<1>2. CASE ReadyzAsked
  <2>1. CASE ~ Booted
    <3>1. request'.status = "starting" /\ request'.left = {}
      BY <1>2, <2>1 DEF ReadyzAsked, NoRequest
    <3>2. QED
      BY <3>1 DEF RequestStands
  <2>2. CASE Booted
    <3>1. PICK isReady \in {FALSE, Connected} :
            request' = [status |-> "probing", left |-> Probes \ {"discord"},
                        ready |-> "discord" \in Probes => isReady,
                        stood |-> Names \ {"jobs"} \subseteq open]
      BY <1>2, <2>2 DEF ReadyzAsked
    <3>2. /\ phase' = "up" /\ failed' = failed /\ request'.status = "probing"
          /\ request'.ready => Connected
          /\ request'.stood <=> Names \ {"jobs"} \subseteq open
      <4>1. phase = "up" /\ phase' = phase /\ failed' = failed
        BY <1>2, <2>2 DEF ReadyzAsked, Booted, booting, teardown
      <4>2. request'.ready = isReady
        <5>1. "discord" \in Probes
          BY <1>1, <4>1, UpHasProbes
        <5>2. isReady \in BOOLEAN
          BY DEF Connected
        <5>3. request'.ready = ("discord" \in Probes => isReady)
          BY <3>1
        <5>4. QED
          BY <5>1, <5>2, <5>3
      <4>3. isReady => Connected
        OBVIOUS
      <4>4. request'.status = "probing" /\ request'.stood = (Names \ {"jobs"} \subseteq open)
        BY <3>1
      <4>5. QED
        BY <4>1, <4>2, <4>3, <4>4
    <3>3. ASSUME Connected, "discord-client" \notin failed
          PROVE  Names \ {"jobs"} \subseteq open
      <4>1. Built[6] \in open /\ Built[6] \notin failed
        BY <3>3, BuiltIs DEF Connected
      <4>2. \A j \in 1..6 : Built[j] \in open
        BY <1>1, <4>1, StandsOnOpen
      <4>3. \A x \in Names : x # "jobs" => \E j \in 1..6 : x = Built[j]
        BY NamesAre, BuiltIs DEF First
      <4>4. QED
        BY <4>2, <4>3
    <3>4. QED
      BY <3>2, <3>3 DEF RequestStands
  <2>3. QED
    BY <2>1, <2>2
<1>3. CASE DatabaseProbed \/ ReadyzAnswers
  <2>1. /\ phase' = phase /\ failed' = failed
        /\ request'.stood = request.stood
        /\ request'.ready => request.ready
        /\ request'.left # {} => request'.status = "probing"
        /\ request'.status \in {"probing", "ready"} => request.status \in {"probing", "ready"}
        /\ request'.status = "ready" =>
             request'.ready /\ (request.ready \/ request.status = "ready")
    <3>1. CASE DatabaseProbed
      <4>1. PICK answers \in {FALSE, "infrastructure" \in open} :
              request' = [request EXCEPT !.left = @ \ {"database"}, !.ready = @ /\ answers]
        BY <3>1 DEF DatabaseProbed
      <4>2. request.status = "probing"
        BY <3>1, <1>1 DEF DatabaseProbed, RequestStands, TypeOK
      <4>3. /\ request'.status = "probing" /\ request'.stood = request.stood
            /\ request'.ready = (request.ready /\ answers)
        BY <1>1, <4>1, <4>2 DEF TypeOK
      <4>4. phase' = phase /\ failed' = failed
        BY <3>1 DEF DatabaseProbed, booting, teardown
      <4>5. answers \in BOOLEAN
        <5>1. ("infrastructure" \in open) \in BOOLEAN
          OBVIOUS
        <5>2. QED
          BY <5>1, Zenon
      <4>6. request.ready \in BOOLEAN
        BY <1>1 DEF TypeOK
      <4>7. QED
        BY <4>2, <4>3, <4>4, <4>5, <4>6
    <3>2. CASE ReadyzAnswers
      BY <1>1, <3>2 DEF ReadyzAnswers, TypeOK, booting, teardown
    <3>3. QED
      BY <1>3, <3>1, <3>2
  <2>2. QED
    BY <1>1, <2>1 DEF RequestStands
<1>4. CASE ~ ReadyzAsked /\ ~ DatabaseProbed /\ ~ ReadyzAnswers
  <2>1. request' = request /\ (failed \subseteq failed') /\ (phase = "up" => phase' = "up")
    BY <1>4, AfterIs
    DEF Next, vars, booting, teardown, BootAdvances, BootFails, FeaturesCollide, GatewayReady,
        ReadyTimesOut, ReadyRejectsUnheard, WorkArrives, WorkEnds, TearsDown,
        StepEnds, StepFails, TeardownCompletes, TeardownTimesOut, Killed, Asked, Exits, Drains
  <2>2. QED
    BY <1>1, <2>1 DEF RequestStands
<1>5. QED
  BY <1>2, <1>3, <1>4

-----------------------------------------------------------------------------
(* Types. *)

TeardownTyped ==
    /\ phase \in DOMAIN Started \cup {"failed"}
    /\ {Range(steps), open, failed} \subseteq SUBSET Names
    /\ Range(left) \subseteq Range(steps)
    /\ \A c \in Range(callers) : c \in {0, Fatal}

Shape == StepsAreFirst /\ LeftIsFirst /\ OpenIsLeft /\ CallersAreUp /\ failed \subseteq Names

\* The types of the sequences and of what they tell of follow from the rest.
LEMMA TypesFollow == Shape => TeardownTyped
<1> SUFFICES ASSUME Shape PROVE TeardownTyped
  OBVIOUS
<1> USE DEF Shape
<1>1. FirstUp(steps) /\ FirstDown(left) /\ Len(left) <= Len(steps)
  BY DEF StepsAreFirst, LeftIsFirst
<1>2. Len(left) \in 0..7 /\ Len(steps) \in 0..7
  BY <1>1 DEF FirstUp, FirstDown
<1>3. Range(steps) = First(Len(steps)) /\ Range(left) = First(Len(left))
  BY <1>1, RangeOfFirst
<1>4. First(Len(left)) \subseteq Names /\ First(Len(steps)) \subseteq Names
  <2>1. \A n \in 0..7 : First(n) \subseteq First(7)
    BY DEF First
  <2>2. QED
    BY <1>2, <2>1, NamesAre
<1>5. First(Len(left)) \subseteq First(Len(steps))
  BY <1>1, <1>2 DEF First
<1>6. open \subseteq Names
  BY <1>4 DEF OpenIsLeft
<1>7. phase \in DOMAIN Started \cup {"failed"}
  BY StartedIs, DepthIs DEF OpenIsLeft
<1>8. \A c \in Range(callers) : c \in {0, Fatal}
  BY DEF CallersAreUp, Range
<1>9. QED
  BY <1>3, <1>4, <1>5, <1>6, <1>7, <1>8 DEF TeardownTyped

LEMMA FailedKept == IInv /\ [Next]_vars => failed' \subseteq Names
<1> SUFFICES ASSUME IInv, [Next]_vars PROVE failed' \subseteq Names
  OBVIOUS
<1>1. failed \subseteq Names
  BY DEF IInv, TypeOK
<1>2. CASE StepFails
  <2>1. left # <<>> /\ FirstDown(left) /\ failed' = failed \cup {Head(left)}
    BY <1>2 DEF StepFails, IInv, LeftIsFirst
  <2>2. Head(left) \in Names
    BY <2>1 DEF FirstDown
  <2>3. QED
    BY <1>1, <2>1, <2>2
<1>3. CASE ~ StepFails
  <2>1. failed' = failed
    BY <1>3
    DEF Next, vars, booting, teardown, BootAdvances, BootFails, FeaturesCollide, GatewayReady,
        ReadyTimesOut, ReadyRejectsUnheard, WorkArrives, WorkEnds, ReadyzAsked, DatabaseProbed,
        ReadyzAnswers, TearsDown, StepEnds, TeardownCompletes, TeardownTimesOut, Killed,
        Asked, Exits, Drains
  <2>2. QED
    BY <1>1, <2>1
<1>4. QED
  BY <1>2, <1>3

LEMMA OthersTyped ==
    IInv /\ [Next]_vars =>
        /\ ready' \in {"unset", "pending", "ready", "rejected"}
        /\ outcome' \in {"none", "running", "complete", "timedOut"}
        /\ working' \in Nat
<1> SUFFICES ASSUME TypeOK, [Next]_vars
             PROVE  /\ ready' \in {"unset", "pending", "ready", "rejected"}
                    /\ outcome' \in {"none", "running", "complete", "timedOut"}
                    /\ working' \in Nat
  BY DEF IInv
<1>1. ready' \in {"unset", "pending", "ready", "rejected"}
  BY DEF TypeOK, Next, vars, booting, teardown, BootAdvances, BootFails, FeaturesCollide,
         GatewayReady, ReadyTimesOut, ReadyRejectsUnheard, WorkArrives, WorkEnds, ReadyzAsked,
         DatabaseProbed, ReadyzAnswers, StepEnds, StepFails, TeardownCompletes,
         TeardownTimesOut, Killed, Asked, Exits, Drains
<1>2. outcome' \in {"none", "running", "complete", "timedOut"}
  BY DEF TypeOK, Next, vars, booting, teardown, BootAdvances, BootFails, FeaturesCollide,
         GatewayReady, ReadyTimesOut, ReadyRejectsUnheard, WorkArrives, WorkEnds, ReadyzAsked,
         DatabaseProbed, ReadyzAnswers, TearsDown, StepEnds, StepFails, TeardownCompletes,
         TeardownTimesOut, Killed, Asked, Exits, Drains
<1>3. working' \in Nat
  BY DEF TypeOK, Next, vars, booting, teardown, BootAdvances, BootFails, FeaturesCollide,
         GatewayReady, ReadyTimesOut, ReadyRejectsUnheard, WorkArrives, WorkEnds, ReadyzAsked,
         DatabaseProbed, ReadyzAnswers, StepEnds, StepFails, TeardownCompletes,
         TeardownTimesOut, Killed, Asked, Exits, Drains
<1>4. QED
  BY <1>1, <1>2, <1>3

Requests == [status : {"none", "starting", "probing", "ready", "degraded"},
             left : SUBSET {"database"}, ready : BOOLEAN, stood : BOOLEAN]

LEMMA RequestTyped == IInv /\ [Next]_vars => request' \in Requests
<1> SUFFICES ASSUME IInv, request \in Requests, [Next]_vars PROVE request' \in Requests
  BY DEF IInv, TypeOK, Requests
<1>1. CASE ReadyzAsked
  <2>1. CASE ~ Booted
    BY <1>1, <2>1 DEF ReadyzAsked, NoRequest, Requests
  <2>2. CASE Booted
    <3>1. PICK isReady \in {FALSE, Connected} :
            request' = [status |-> "probing", left |-> Probes \ {"discord"},
                        ready |-> "discord" \in Probes => isReady,
                        stood |-> Names \ {"jobs"} \subseteq open]
      BY <1>1, <2>2 DEF ReadyzAsked
    <3>2. Probes \ {"discord"} \in SUBSET {"database"}
      BY DEF Probes
    <3>3. /\ ("discord" \in Probes => isReady) \in BOOLEAN
          /\ (Names \ {"jobs"} \subseteq open) \in BOOLEAN
      BY Zenon
    <3>4. QED
      BY <3>1, <3>2, <3>3 DEF Requests
  <2>3. QED
    BY <2>1, <2>2
<1>2. CASE DatabaseProbed
  <2>1. PICK answers \in {FALSE, "infrastructure" \in open} :
          request' = [request EXCEPT !.left = @ \ {"database"}, !.ready = @ /\ answers]
    BY <1>2 DEF DatabaseProbed
  <2>2. (request.ready /\ answers) \in BOOLEAN
    BY Zenon
  <2>3. QED
    BY <2>1, <2>2 DEF Requests
<1>3. CASE ReadyzAnswers
  BY <1>3 DEF ReadyzAnswers, Requests
<1>4. CASE ~ ReadyzAsked /\ ~ DatabaseProbed /\ ~ ReadyzAnswers
  <2>1. request' = request
    BY <1>4
    DEF Next, vars, BootAdvances, BootFails, FeaturesCollide, GatewayReady, ReadyTimesOut,
        ReadyRejectsUnheard, WorkArrives, WorkEnds, StepEnds, StepFails, TeardownCompletes,
        TeardownTimesOut, Killed, Asked, Exits, Drains
  <2>2. QED
    BY <2>1
<1>5. QED
  BY <1>1, <1>2, <1>3, <1>4

Ended == [how : {"exit", "drained", "unhandled", "killed"}, code : {0, Fatal}]

LEMMA ExitTyped == IInv /\ [Next]_vars => exit' \in Ended \cup {None}
<1> SUFFICES ASSUME IInv, exit \in Ended \cup {None}, [Next]_vars
             PROVE  exit' \in Ended \cup {None}
  BY DEF IInv, TypeOK, Ended
<1>1. CASE Exits
  <2>1. callers # <<>> /\ callers \in Seq({0, Fatal})
    BY <1>1 DEF Exits, IInv, CallersAreUp
  <2>2. CodeFor \in {0, Fatal}
    BY <2>1 DEF CodeFor
  <2>3. QED
    BY <1>1, <2>2 DEF Exits, Ends, Ended
<1>2. CASE Drains \/ Killed \/ ReadyRejectsUnheard
  BY <1>2 DEF Drains, Killed, ReadyRejectsUnheard, Ends, Ended
<1>3. CASE exit' = exit
  BY <1>3
<1>4. QED
  BY <1>1, <1>2, <1>3
  DEF Next, vars, BootAdvances, BootFails, FeaturesCollide, GatewayReady, ReadyTimesOut,
      WorkArrives, WorkEnds, ReadyzAsked, DatabaseProbed, ReadyzAnswers,
      StepEnds, StepFails, TeardownCompletes, TeardownTimesOut, Asked

-----------------------------------------------------------------------------
(* The invariant and what follows from it. *)

LEMMA InitInvariant == Init => IInv
<1> SUFFICES ASSUME Init PROVE IInv
  OBVIOUS
<1>1. steps = <<Built[1]>> /\ open = {Built[1]} /\ phase = "ops"
  BY StartedIs, StartedRanges DEF Init, Registered
<1>2. FirstUp(steps) /\ Len(steps) = 1 /\ open = First(1)
  <2>1. Built[1] \in Names
    BY NamesAre DEF First
  <2>2. QED
    BY <1>1, <2>1 DEF FirstUp, First
<1>3. StepsAreFirst /\ OpenIsLeft
  BY <1>1, <1>2, DepthIs DEF Init, StepsAreFirst, OpenIsLeft
<1>4. LeftIsFirst
  BY <1>2 DEF Init, LeftIsFirst, FirstDown
<1>5. CallersAreUp
  BY DEF Init, CallersAreUp
<1>6. RequestStands /\ request \in Requests
  BY DEF Init, NoRequest, RequestStands, Requests
<1>7. ExitShape
  BY DEF Init, ExitShape, Running
<1>8. TypeOK
  BY <1>3, <1>4, <1>5, <1>6, TypesFollow DEF Init, Shape, TeardownTyped, TypeOK, Requests
<1>9. QED
  BY <1>3, <1>4, <1>5, <1>6, <1>7, <1>8 DEF IInv

LEMMA StepInvariant == IInv /\ [Next]_vars => IInv'
<1> SUFFICES ASSUME IInv, [Next]_vars PROVE IInv'
  OBVIOUS
<1>1. StepsAreFirst' /\ LeftIsFirst' /\ OpenIsLeft' /\ CallersAreUp'
  BY StepsKept, LeftKept, OpenKept, CallersKept
<1>2. RequestStands' /\ ExitShape'
  BY RequestKept, ExitKept
<1>3. failed' \subseteq Names
  BY FailedKept
<1>4. TeardownTyped'
  <2>1. Shape'
    BY <1>1, <1>3 DEF Shape
  <2>2. QED
    BY <2>1, TypesFollow, PTL
<1>5. TypeOK'
  BY <1>4, OthersTyped, RequestTyped, ExitTyped DEF TeardownTyped, TypeOK, Requests, Ended
<1>6. QED
  BY <1>1, <1>2, <1>5 DEF IInv

\* The invariant holds of every reachable state.
THEOREM Inductive == Spec => []IInv
BY InitInvariant, StepInvariant, PTL DEF Spec

\* Whatever ends, fails or hangs, no step of the teardown runs before all that
\* was registered after it is done (ShutdownSequence.run).
THEOREM InOrder == Spec => []TornDownInOrder
<1>1. IInv => TornDownInOrder
  <2> SUFFICES ASSUME IInv, NEW i \in DOMAIN steps, NEW j \in DOMAIN steps, i < j,
                      outcome # "none", steps[i] \notin Range(left)
               PROVE  steps[j] \notin Range(left)
    BY DEF IInv, TornDownInOrder
  <2>1. /\ i \in 1..7 /\ j \in 1..7 /\ steps[i] = Built[i] /\ steps[j] = Built[j]
    BY DEF IInv, StepsAreFirst, FirstUp
  <2>2. Len(left) \in 0..7 /\ Range(left) = First(Len(left))
    BY RangeOfFirst DEF IInv, LeftIsFirst, FirstDown
  <2>3. \A k \in 1..7 : Built[k] \in First(Len(left)) <=> k <= Len(left)
    BY <2>2, InFirst
  <2>4. Built[i] \notin First(Len(left))
    BY <2>1, <2>2
  <2>5. ~ (i <= Len(left))
    BY <2>1, <2>3, <2>4
  <2>6. ~ (j <= Len(left))
    BY <2>1, <2>2, <2>5
  <2>7. Built[j] \notin First(Len(left))
    BY <2>1, <2>3, <2>6
  <2>8. QED
    BY <2>1, <2>2, <2>7
<1>2. QED
  BY <1>1, Inductive, PTL

\* The exit code and the way out never claim more than happened (main.ts).
THEOREM HonestExit == Spec => []ExitsHonestly
<1>1. IInv => ExitsHonestly
  <2> SUFFICES ASSUME IInv PROVE ExitsHonestly
    OBVIOUS
  <2>1. outcome = "complete" => open \subseteq failed
    BY DEF IInv, OpenIsLeft, First
  <2>2. QED
    BY <2>1 DEF IInv, ExitShape, ExitsHonestly
<1>2. QED
  BY <1>1, Inductive, PTL

\* /readyz answers 200 to no request that came when the process could not work
\* (OpsServer.handleReadyz).
THEOREM ReadyIsUp == Spec => []ReadyMeansUp
<1>1. IInv => ReadyMeansUp
  BY DEF IInv, RequestStands, ReadyMeansUp
<1>2. QED
  BY <1>1, Inductive, PTL

\* No interaction, event or job starts on a pool or a limiter that is not there
\* (bootstrap.ts).
THEOREM WorkStands == Spec => WorkFindsItsServices
<1>1. IInv /\ [Next]_vars =>
        [working' > working => {"infrastructure", "outbound-limiter"} \subseteq open
            \/ {"discord-client", "jobs"} \cap failed # {}]_vars
  <2> SUFFICES ASSUME IInv, Next, working' > working,
                      {"discord-client", "jobs"} \cap failed = {}
               PROVE  {"infrastructure", "outbound-limiter"} \subseteq open
    BY DEF vars
  <2>1. WorkArrives
    BY DEF IInv, TypeOK, Next, BootAdvances, BootFails, FeaturesCollide, GatewayReady,
       ReadyTimesOut, ReadyRejectsUnheard, WorkEnds, ReadyzAsked, DatabaseProbed,
       ReadyzAnswers, StepEnds, StepFails, TeardownCompletes, TeardownTimesOut, Killed,
       Asked, Exits, Drains
  <2>2. Built[6] \in open \/ Built[7] \in open
    BY <2>1, BuiltIs DEF WorkArrives, Connected, Ticking
  <2>3. Built[6] \notin failed /\ Built[7] \notin failed
    BY BuiltIs
  <2>4. Built[3] \in open /\ Built[5] \in open
    BY <2>2, <2>3, StandsOnOpen DEF IInv
  <2>5. QED
    BY <2>4, BuiltIs
<1>2. QED
  BY <1>1, Inductive, PTL DEF Spec, WorkFindsItsServices

-----------------------------------------------------------------------------
(* Health reports, asked at once over one key. *)

AtCache(c) == check[c].cache \in {"writing", "written", "asking"}

\* While a check has not looked at memory and was not disturbed, memory holds
\* its token.
MemoryHoldsMine(c) ==
    check[c].cache \in {"writing", "written"} /\ ~disturbed[c] => l1 = Mine(c)

\* Nobody asks Redis, and nothing is reported broken, but by a disturbance.
OnlyDisturbedAsk(c) == check[c].cache \in {"asking", "bad"} => disturbed[c]

\* A check under way belongs to a report under way, so a disturbance is noted.
UnderWay(c) == AtCache(c) => check[c].n > 0

Explained(c) == MemoryHoldsMine(c) /\ OnlyDisturbedAsk(c) /\ UnderWay(c)

HealthInv == HealthTypeOK /\ \A c \in Checkers : Explained(c)

-----------------------------------------------------------------------------
\* A check under way keeps its types under every step.
LEMMA HealthTypesKept == HealthInv /\ [HealthNext]_healthVars => HealthTypeOK'
<1> SUFFICES ASSUME HealthTypeOK, \A c \in Checkers : UnderWay(c), [HealthNext]_healthVars
             PROVE  HealthTypeOK'
  BY DEF HealthInv, Explained
<1> USE BoundAssumption
<1>0. \A cs : Disturbs(cs) => disturbed' \in [Checkers -> BOOLEAN]
  BY DEF Disturbs, HealthTypeOK
<1>1. ASSUME NEW c \in Checkers, Begin(c) PROVE HealthTypeOK'
  <2>1. check[c].n + 1 \in 0..MaxReports /\ check[c].n + 1 \in 1..MaxReports
    BY <1>1 DEF Begin, HealthTypeOK
  <2>2. Token(c, check[c].n + 1) \in Tokens
    BY <2>1 DEF Tokens
  <2>3. check' \in [Checkers ->
          [n : 0..MaxReports,
           cache : {"idle", "writing", "written", "asking"} \cup Verdicts,
           database : {"idle", "asked"} \cup Verdicts]]
    BY <1>1, <2>1 DEF Begin, HealthTypeOK
  <2>4. disturbed' \in [Checkers -> BOOLEAN]
    BY <1>1 DEF Begin, HealthTypeOK
  <2>5. QED
    BY <1>1, <2>2, <2>3, <2>4 DEF Begin, SetMemory, HealthTypeOK
<1>2. ASSUME NEW c \in Checkers, CacheStep(c) PROVE HealthTypeOK'
  <2>1. CASE RedisSet(c)
    <3>1. Mine(c) \in Tokens
      <4>1. check[c].n \in 1..MaxReports
        BY <2>1 DEF RedisSet, UnderWay, AtCache, HealthTypeOK
      <4>2. QED
        BY <4>1 DEF Mine, Tokens
    <3>2. QED
      BY <1>0, <2>1, <3>1 DEF RedisSet, HealthTypeOK, Verdicts
  <2>2. CASE ReadMemory(c)
    BY <2>2 DEF ReadMemory, Judge, HealthTypeOK, Verdicts
  <2>3. CASE RedisGet(c)
    BY <1>0, <2>3 DEF RedisGet, Judge, HealthTypeOK, Verdicts
  <2>4. QED
    BY <1>2, <2>1, <2>2, <2>3 DEF CacheStep
<1>3. ASSUME NEW c \in Checkers, DatabaseStep(c) PROVE HealthTypeOK'
  BY <1>3 DEF DatabaseStep, DatabaseFails, DatabaseAnswers, HealthTypeOK, Verdicts
<1>4. CASE MemoryLapses \/ RedisLapses \/ ElsewhereChecks
  BY <1>0, <1>4 DEF MemoryLapses, RedisLapses, ElsewhereChecks, HealthTypeOK
<1>5. CASE RedisChanges \/ DatabaseChanges
  BY <1>5 DEF RedisChanges, DatabaseChanges, HealthTypeOK
<1>6. CASE UNCHANGED healthVars
  BY <1>6 DEF healthVars, HealthTypeOK
<1>7. QED
  BY <1>1, <1>2, <1>3, <1>4, <1>5, <1>6 DEF HealthNext

-----------------------------------------------------------------------------
(* The invariant.                                                          *)

LEMMA HealthInitInvariant == HealthInit => HealthInv
<1> SUFFICES ASSUME HealthInit PROVE HealthInv
  OBVIOUS
<1>1. HealthTypeOK
  BY BoundAssumption DEF HealthInit, Idle, HealthTypeOK
<1>2. \A c \in Checkers : Explained(c)
  BY DEF HealthInit, Idle, Explained, MemoryHoldsMine, OnlyDisturbedAsk, UnderWay, AtCache
<1>3. QED
  BY <1>1, <1>2 DEF HealthInv

\* A disturbance is noted on every check that could notice it.
LEMMA DisturbedIsNoted ==
    ASSUME HealthInv, NEW cs, Disturbs(cs), NEW c \in Checkers
    PROVE  /\ disturbed[c] => disturbed'[c]
           /\ c \in cs /\ AtCache(c) => disturbed'[c]
BY DEF Disturbs, Checking, Reported, Verdicts, HealthInv, Explained, UnderWay, AtCache, HealthTypeOK

\* A check that makes no step of its own stays explained when the step that
\* changes memory is noted on it.
LEMMA OthersStayExplained ==
    ASSUME HealthInv, NEW c \in Checkers,
           check'[c].n = check[c].n, check'[c].cache = check[c].cache,
           disturbed[c] => disturbed'[c],
           l1' # l1 /\ AtCache(c) => disturbed'[c]
    PROVE  Explained(c)'
BY DEF HealthInv, Explained, MemoryHoldsMine, OnlyDisturbedAsk, UnderWay, AtCache, Mine, Token

\* A new report puts its token in memory, over that of every other check.
LEMMA BeginExplained ==
    ASSUME HealthInv, NEW c \in Checkers, Begin(c), NEW d \in Checkers
    PROVE  Explained(d)'
<1>1. CASE d = c
  <2>1. /\ check'[c].n = check[c].n + 1
        /\ check'[c].cache \in {"writing", "written"}
        /\ l1' = Token(c, check[c].n + 1)
    BY DEF Begin, SetMemory, HealthInv, HealthTypeOK
  <2>2. QED
    BY <1>1, <2>1
    DEF HealthInv, HealthTypeOK, Explained, MemoryHoldsMine, OnlyDisturbedAsk, UnderWay,
        AtCache, Mine
<1>2. CASE d # c
  <2>1. check'[d] = check[d]
    BY <1>2 DEF Begin, HealthInv, HealthTypeOK
  <2>2. /\ disturbed[d] => disturbed'[d]
        /\ AtCache(d) => disturbed'[d]
    BY <1>2 DEF Begin, Checking, Reported, Verdicts, HealthInv, Explained, UnderWay, AtCache
  <2>3. QED
    BY <2>1, <2>2, OthersStayExplained
<1>3. QED
  BY <1>1, <1>2

\* A check that reads memory undisturbed finds its own token.
LEMMA CacheStepExplained ==
    ASSUME HealthInv, NEW c \in Checkers, CacheStep(c), NEW d \in Checkers
    PROVE  Explained(d)'
<1>1. CASE RedisSet(c)
  <2>1. /\ check'[d].n = check[d].n
        /\ d # c => check'[d].cache = check[d].cache
        /\ check'[c].cache = "written" /\ check[c].cache = "writing"
    BY <1>1 DEF RedisSet, HealthInv, HealthTypeOK
  <2>2. disturbed[d] => disturbed'[d]
    BY <1>1, DisturbedIsNoted DEF RedisSet
  <2>3. CASE d = c
    BY <1>1, <2>1, <2>2, <2>3
    DEF RedisSet, HealthInv, Explained, MemoryHoldsMine, OnlyDisturbedAsk, UnderWay, AtCache,
        Mine, Token
  <2>4. CASE d # c
    BY <1>1, <2>1, <2>2, <2>4, OthersStayExplained DEF RedisSet
  <2>5. QED
    BY <2>3, <2>4
<1>2. CASE ReadMemory(c)
  <2>1. /\ check'[d].n = check[d].n
        /\ d # c => check'[d].cache = check[d].cache
    BY <1>2 DEF ReadMemory, Judge, HealthInv, HealthTypeOK
  <2>2. CASE d = c
    <3>1. check[c].n \in 1..MaxReports
      BY <1>2, BoundAssumption
      DEF ReadMemory, HealthInv, Explained, UnderWay, AtCache, HealthTypeOK
    <3>2. Mine(c) # Nothing
      BY <3>1, NamesAssumption DEF Mine, Tokens
    <3>3. CASE disturbed[c]
      <4>1. check'[c].cache \in {"good", "bad", "asking"}
        BY <1>2 DEF ReadMemory, Judge, HealthInv, HealthTypeOK
      <4>2. QED
        BY <1>2, <2>1, <2>2, <3>1, <3>3, <4>1
        DEF ReadMemory, Explained, MemoryHoldsMine, OnlyDisturbedAsk, UnderWay, AtCache
    <3>4. CASE ~disturbed[c]
      <4>1. l1 = Mine(c)
        BY <1>2, <3>4 DEF ReadMemory, HealthInv, Explained, MemoryHoldsMine
      <4>2. check'[c].cache = "good"
        BY <1>2, <3>2, <4>1 DEF ReadMemory, Judge, HealthInv, HealthTypeOK
      <4>3. QED
        BY <2>2, <4>2
        DEF Explained, MemoryHoldsMine, OnlyDisturbedAsk, UnderWay, AtCache
    <3>5. QED
      BY <3>3, <3>4
  <2>3. CASE d # c
    BY <1>2, <2>1, <2>3, OthersStayExplained DEF ReadMemory
  <2>4. QED
    BY <2>2, <2>3
<1>3. CASE RedisGet(c)
  <2>1. /\ check'[d].n = check[d].n
        /\ d # c => check'[d].cache = check[d].cache
        /\ check'[c].cache \in Verdicts
    BY <1>3 DEF RedisGet, Judge, Verdicts, HealthInv, HealthTypeOK
  <2>2. /\ disturbed[d] => disturbed'[d]
        /\ d # c /\ l1' # l1 /\ AtCache(d) => disturbed'[d]
    BY <1>3, DisturbedIsNoted DEF RedisGet
  <2>3. CASE d = c
    <3>1. disturbed'[c]
      BY <1>3, <2>2, <2>3 DEF RedisGet, HealthInv, Explained, OnlyDisturbedAsk
    <3>2. QED
      BY <2>1, <2>3, <3>1
      DEF Verdicts, Explained, MemoryHoldsMine, OnlyDisturbedAsk, UnderWay, AtCache
  <2>4. CASE d # c
    BY <2>1, <2>2, <2>4, OthersStayExplained
  <2>5. QED
    BY <2>3, <2>4
<1>4. QED
  BY <1>1, <1>2, <1>3 DEF CacheStep

\* What the world does to the key is a disturbance; what it does to the
\* database is none of the cache's business.
LEMMA WorldExplained ==
    ASSUME HealthInv, NEW d \in Checkers,
           \/ \E c \in Checkers : DatabaseStep(c)
           \/ MemoryLapses \/ RedisLapses \/ ElsewhereChecks
           \/ RedisChanges \/ DatabaseChanges \/ UNCHANGED healthVars
    PROVE  Explained(d)'
<1>1. check'[d].n = check[d].n /\ check'[d].cache = check[d].cache
  BY DEF DatabaseStep, DatabaseFails, DatabaseAnswers, MemoryLapses, RedisLapses,
         ElsewhereChecks, RedisChanges, DatabaseChanges, healthVars, HealthInv, HealthTypeOK
<1>2. \/ l1' = l1 /\ disturbed' = disturbed
      \/ Disturbs(Checkers)
  BY DEF DatabaseStep, DatabaseFails, DatabaseAnswers, MemoryLapses, RedisLapses,
         ElsewhereChecks, RedisChanges, DatabaseChanges, healthVars
<1>3. CASE l1' = l1 /\ disturbed' = disturbed
  BY <1>1, <1>3, OthersStayExplained
<1>4. CASE Disturbs(Checkers)
  BY <1>1, <1>4, DisturbedIsNoted, OthersStayExplained
<1>5. QED
  BY <1>2, <1>3, <1>4

LEMMA HealthStepInvariant == HealthInv /\ [HealthNext]_healthVars => HealthInv'
<1> SUFFICES ASSUME HealthInv, [HealthNext]_healthVars PROVE HealthInv'
  OBVIOUS
<1>1. HealthTypeOK'
  BY HealthTypesKept
<1>2. ASSUME NEW d \in Checkers PROVE Explained(d)'
  BY BeginExplained, CacheStepExplained, WorldExplained DEF HealthNext
<1>3. QED
  BY <1>1, <1>2 DEF HealthInv

\* The invariant holds of every reachable state.
THEOREM HealthInductive == HealthSpec => []HealthInv
BY HealthInitInvariant, HealthStepInvariant, PTL DEF HealthSpec

\* Whoever is told that the cache is broken had the key taken from under its
\* check: a fault of Redis alone is never reported (CacheHealthCheck.check).
THEOREM AlarmsAreExplained == HealthSpec => []CacheAlarmsAreExplained
<1>1. HealthInv => CacheAlarmsAreExplained
  BY DEF HealthInv, Explained, OnlyDisturbedAsk, CacheAlarmsAreExplained
<1>2. QED
  BY <1>1, HealthInductive, PTL
=============================================================================
