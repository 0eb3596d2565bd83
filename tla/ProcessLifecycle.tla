-------------------------- MODULE ProcessLifecycle --------------------------
(***************************************************************************)
(* One process from main() to its exit: app/bootstrap.ts, main.ts and      *)
(* platform/lifecycle/shutdown.sequence.ts.                                *)
(*                                                                         *)
(* A phase is what the boot awaits; what runs without awaiting is part of  *)
(* the step that enters the phase.  A teardown step may end, fail or hang  *)
(* for ever, and one that hangs keeps the event loop alive.  The deadline  *)
(* of the teardown may pass at any time while it runs.  Work is anything   *)
(* the gateway or the scheduler starts and nobody awaits: an interaction,  *)
(* a message, an event's subscribers, a run of a job.                      *)
(***************************************************************************)
EXTENDS Integers, Sequences, SequencesExt

CONSTANTS
    None,
    MaxAsks,            \* bound: signals and crashes of a process that is up
    MaxWork             \* bound: work under way at once

ASSUME BoundsAssumption == {MaxAsks, MaxWork} \subseteq Nat

Fatal == 1              \* FATAL_EXIT_CODE

VARIABLES
    phase,          \* what the boot awaits, or how it ended
    steps,          \* ShutdownSequence.steps: what is registered
    open,           \* what has been started and not torn down
    ready,          \* loginAndAwaitReady's promise
    left,           \* the steps the teardown has not finished, the current one first
    outcome,        \* how the teardown stands
    failed,         \* the steps that failed
    callers,        \* the codes of those who wait for it, the first first
    working,        \* how much work is under way
    exit,           \* how the process ended
    request         \* the request to /readyz under way, or the last one

vars == <<phase, steps, open, ready, left, outcome, failed, callers, working, exit, request>>
booting == <<phase, steps, ready>>
teardown == <<left, outcome, failed>>

\* What is started and registered on the way into each phase, in order.
Started == [
    ops             |-> <<"event-loop-monitor">>,
    infrastructure  |-> <<"ops-server", "infrastructure">>,
    migrating       |-> <<>>,
    loggingIn       |-> <<"pool-metrics", "outbound-limiter", "discord-client">>,
    awaitingReady   |-> <<>>,
    up              |-> <<"jobs">> ]

Names == UNION {Range(Started[p]) : p \in DOMAIN Started}

\* Mutant of Registered: the infrastructure is registered once it has started.
RegisteredLate(p) ==
    CASE p = "infrastructure" -> <<"ops-server">>
      [] p = "migrating"      -> <<"infrastructure">>
      [] OTHER                -> Started[p]

Registered(p) == Started[p]

After == [ops |-> "infrastructure", infrastructure |-> "migrating", migrating |-> "loggingIn",
          loggingIn |-> "awaitingReady", awaitingReady |-> "up"]

\* `stood` is history: all but the jobs was up when the request came.
NoRequest == [status |-> "none", left |-> {}, ready |-> FALSE, stood |-> FALSE]

Init ==
    /\ phase = "ops"
    /\ steps = Registered("ops") /\ open = Range(Started.ops)
    /\ ready = "unset"
    /\ left = <<>> /\ outcome = "none" /\ failed = {}
    /\ callers = <<>> /\ working = 0 /\ exit = None
    /\ request = NoRequest

Running == exit = None

\* main() installs its handlers when startApplication has returned.
HandlersInstalled == phase = "up"

Ends(how, code) == exit' = [how |-> how, code |-> code]

-----------------------------------------------------------------------------
(* start() *)

Enters(p) ==
    /\ phase' = p
    /\ steps' = steps \o Registered(p)
    /\ open' = open \cup Range(Started[p])

BootAdvances ==
    /\ Running /\ phase \in DOMAIN After
    /\ phase = "awaitingReady" => ready = "ready"
    /\ Enters(After[phase])
    /\ ready' = IF After[phase] = "loggingIn" THEN "pending" ELSE ready
    /\ UNCHANGED <<teardown, callers, working, exit, request>>

\* Mutant of Order: the steps are torn down as they were registered.
OrderOfBoot(s) == s

\* Later registrations run earlier.
Order(s) == Reverse(s)

\* The first caller starts the teardown and the later ones join it.
TearsDown(registered) ==
    IF outcome = "none" THEN left' = Order(registered) /\ outcome' = "running" /\ UNCHANGED failed
    ELSE UNCHANGED teardown

\* What is awaited rejects; the client is created but a login that fails
\* leaves the promise of readiness and its timer behind.
BootFails ==
    /\ Running /\ phase \in DOMAIN After \ {"awaitingReady"}
    /\ phase = "loggingIn" => ready = "pending"
    /\ phase' = "failed"
    /\ TearsDown(steps)
    /\ UNCHANGED <<steps, open, ready, callers, working, exit, request>>

\* Two features collide in the registry, before there is a client.
FeaturesCollide ==
    /\ Running /\ phase = "migrating"
    /\ phase' = "failed"
    /\ LET built == <<"pool-metrics", "outbound-limiter">>
       IN  /\ steps' = steps \o built
           /\ open' = open \cup Range(built)
           /\ TearsDown(steps \o built)
    /\ UNCHANGED <<ready, callers, working, exit, request>>

GatewayReady ==
    /\ Running /\ phase \in {"loggingIn", "awaitingReady"} /\ ready = "pending"
    /\ ready' = "ready"
    /\ UNCHANGED <<phase, steps, open, teardown, callers, working, exit, request>>

\* The timer rejects a promise that start() awaits by now...
ReadyTimesOut ==
    /\ Running /\ phase = "awaitingReady" /\ ready = "pending"
    /\ ready' = "rejected"
    /\ phase' = "failed"
    /\ TearsDown(steps)
    /\ UNCHANGED <<steps, open, callers, working, exit, request>>

\* ... or one that nobody does, which ends the process.
ReadyRejectsUnheard ==
    /\ Running /\ phase \in {"loggingIn", "failed"} /\ ready = "pending"
    /\ ready' = "rejected"
    /\ Ends("unhandled", Fatal)
    /\ UNCHANGED <<phase, steps, open, teardown, callers, working, request>>

-----------------------------------------------------------------------------
(* attachGateway and the scheduler: what runs beside the boot and the      *)
(* teardown.  The gateway hands nothing over before it is ready.           *)

\* Mutant of Connected: a client that has been destroyed hands events over.
ConnectedFor == ready = "ready"

Connected == "discord-client" \in open /\ ready \in {"ready", "rejected"}

Ticking == "jobs" \in open

WorkArrives ==
    /\ Running /\ working < MaxWork
    /\ Connected \/ Ticking
    /\ working' = working + 1
    /\ UNCHANGED <<booting, open, teardown, callers, exit, request>>

\* Whether it succeeds or fails: what it throws is logged where it was let go.
WorkEnds ==
    /\ Running /\ working > 0
    /\ working' = working - 1
    /\ UNCHANGED <<booting, open, teardown, callers, exit, request>>

-----------------------------------------------------------------------------
(* OpsServer.handleReadyz, one request at a time.  A request that has come  *)
(* is answered although the server has stopped taking new ones.            *)

Probes == (IF "pool-metrics" \in Range(steps) THEN {"database"} ELSE {})
          \cup (IF "jobs" \in Range(steps) THEN {"discord"} ELSE {})

\* Mutant of Booted: /readyz goes by whatever probes there are.
BootedAnyway == TRUE

\* markBooted ends the boot, and nothing takes it back.
Booted == phase = "up"

\* The probe of the gateway answers when it is called: a client that is connected
\* may be between two sessions, and so not be ready.
ReadyzAsked ==
    /\ Running /\ "ops-server" \in open /\ request.status # "probing"
    /\ IF Booted
       THEN \E isReady \in {FALSE, Connected} :
            request' = [status |-> "probing", left |-> Probes \ {"discord"},
                        ready |-> "discord" \in Probes => isReady,
                        stood |-> Names \ {"jobs"} \subseteq open]
       ELSE request' = [NoRequest EXCEPT !.status = "starting"]
    /\ UNCHANGED <<booting, open, teardown, callers, working, exit>>

\* A probe that answers, throws, or takes more than PROBE_TIMEOUT_MS.
DatabaseProbed ==
    /\ Running /\ "database" \in request.left
    /\ \E answers \in {FALSE, "infrastructure" \in open} :
        request' = [request EXCEPT !.left = @ \ {"database"}, !.ready = @ /\ answers]
    /\ UNCHANGED <<booting, open, teardown, callers, working, exit>>

ReadyzAnswers ==
    /\ Running /\ request.status = "probing" /\ request.left = {}
    /\ request' = [request EXCEPT !.status = IF request.ready THEN "ready" ELSE "degraded"]
    /\ UNCHANGED <<booting, open, teardown, callers, working, exit>>

-----------------------------------------------------------------------------
(* ShutdownSequence.runSteps, which goes on after its deadline. *)

StepEnds ==
    /\ Running /\ left # <<>>
    /\ open' = open \ {Head(left)}
    /\ left' = Tail(left)
    /\ UNCHANGED <<booting, outcome, failed, callers, working, exit, request>>

StepFails ==
    /\ Running /\ left # <<>>
    /\ failed' = failed \cup {Head(left)}
    /\ left' = Tail(left)
    /\ UNCHANGED <<booting, open, outcome, callers, working, exit, request>>

TeardownCompletes ==
    /\ Running /\ outcome = "running" /\ left = <<>>
    /\ outcome' = "complete"
    /\ UNCHANGED <<booting, open, left, failed, callers, working, exit, request>>

\* Mutant of DeadlineArmed: the teardown is awaited without a deadline.
DeadlineArmedNever == FALSE

DeadlineArmed == outcome = "running"

TeardownTimesOut ==
    /\ Running /\ DeadlineArmed /\ left # <<>>
    /\ outcome' = "timedOut"
    /\ UNCHANGED <<booting, open, left, failed, callers, working, exit, request>>

-----------------------------------------------------------------------------
(* main(): signals, a terminal that hangs up, crashes, and the exit. *)

\* A signal before the handlers are there kills the process as it stands.
Killed ==
    /\ Running /\ ~ HandlersInstalled
    /\ Ends("killed", Fatal)
    /\ UNCHANGED <<booting, open, teardown, callers, working, request>>

\* stopFor: a signal or a hangup with code 0, a crash with FATAL_EXIT_CODE.
Asked(code) ==
    /\ Running /\ HandlersInstalled /\ Len(callers) < MaxAsks
    /\ callers' = Append(callers, code)
    /\ TearsDown(steps)
    /\ UNCHANGED <<booting, open, working, exit, request>>

Answers == outcome \in {"complete", "timedOut"}

CodeFor == IF outcome = "complete" THEN Head(callers) ELSE Fatal

\* The callers wait for one promise, so the first to have asked exits.
Exits ==
    /\ Running /\ callers # <<>> /\ Answers
    /\ Ends("exit", CodeFor)
    /\ UNCHANGED <<booting, open, teardown, callers, working, request>>

\* A failed boot sets the code and lets the loop drain, which a hanging step
\* and a timer that is still armed keep from happening.
Drains ==
    /\ Running /\ phase = "failed"
    /\ outcome \in {"complete", "timedOut"} /\ left = <<>> /\ ready # "pending"
    /\ Ends("drained", Fatal)
    /\ UNCHANGED <<booting, open, teardown, callers, working, request>>

Next ==
    \/ BootAdvances \/ BootFails \/ FeaturesCollide
    \/ GatewayReady \/ ReadyTimesOut \/ ReadyRejectsUnheard
    \/ WorkArrives \/ WorkEnds
    \/ ReadyzAsked \/ DatabaseProbed \/ ReadyzAnswers
    \/ StepEnds \/ StepFails \/ TeardownCompletes \/ TeardownTimesOut
    \/ Killed \/ \E code \in {0, Fatal} : Asked(code)
    \/ Exits \/ Drains

\* Timers fire and continuations run.  Nothing makes a teardown step end.
Fairness ==
    /\ WF_vars(TeardownCompletes) /\ WF_vars(TeardownTimesOut)
    /\ WF_vars(Exits) /\ WF_vars(Drains)
    /\ WF_vars(GatewayReady \/ ReadyTimesOut \/ ReadyRejectsUnheard)

Spec == Init /\ [][Next]_vars /\ Fairness

-----------------------------------------------------------------------------
TypeOK ==
    /\ phase \in DOMAIN Started \cup {"failed"}
    /\ {Range(steps), open, failed} \subseteq SUBSET Names
    /\ ready \in {"unset", "pending", "ready", "rejected"}
    /\ outcome \in {"none", "running", "complete", "timedOut"}
    /\ Range(left) \subseteq Range(steps)
    /\ \A c \in Range(callers) : c \in {0, Fatal}
    /\ working \in Nat
    /\ request \in [status : {"none", "starting", "probing", "ready", "degraded"},
                   left : SUBSET {"database"}, ready : BOOLEAN, stood : BOOLEAN]
    /\ exit \in [how : {"exit", "drained", "unhandled", "killed"}, code : {0, Fatal}] \cup {None}

\* Nothing is torn down before what was built on it: when a step runs, every
\* step that was registered later has ended or failed
\* (shutdown.sequence.ts:11-16).
TornDownInOrder ==
    /\ TypeOK
    /\ \A i, j \in DOMAIN steps :
         i < j /\ outcome # "none" /\ steps[i] \notin Range(left) => steps[j] \notin Range(left)

\* An exit says what happened.  A process exits by itself only when its
\* teardown has completed or has had its time; it reports success only when a
\* boot that succeeded was torn down completely and no crash was the first to
\* ask; and a completed teardown has left nothing open, a failed boot's as
\* well, but what failed to close (main.ts:82-96, bootstrap.ts:73-79,
\* shutdown.sequence.ts:50-66, 98-102).
ExitsHonestly ==
    /\ ~ Running /\ exit.how \in {"exit", "drained"} => outcome \in {"complete", "timedOut"}
    /\ ~ Running /\ exit.code = 0 =>
        phase = "up" /\ outcome = "complete" /\ Head(callers) = 0
    /\ outcome = "complete" => open \subseteq failed

\* Work that starts finds what it stands on, during a slow boot, a failed boot
\* and a teardown as well: nothing is handed to a handler before the pool, the
\* schema and the limiter are there or after they are gone, unless the step
\* that should have stopped it failed (bootstrap.ts:50-54, 137-140,
\* shutdown.sequence.ts:11-15).
WorkFindsItsServices ==
    [][working' > working => {"infrastructure", "outbound-limiter"} \subseteq open
            \/ {"discord-client", "jobs"} \cap failed # {}]_vars

\* A process that is up and is asked to stop stops, whatever hangs
\* (shutdown.sequence.ts:18-20, main.ts:74-81).
StopsWhenAsked == callers # <<>> ~> ~ Running

\* 200 is answered only to a request that came when the process had all it needs
\* to work: not before the boot is through, when there are fewer probes than
\* dependencies, nor once the gateway is torn down, although the process counts
\* as booted until it ends, unless its client could not be destroyed
\* (ops.server.ts:34, 105-128; bootstrap.ts:94, 123-129, 222-225, 234).
ReadyMeansUp ==
    request.status = "ready" =>
        phase = "up" /\ (request.stood \/ "discord-client" \in failed)

\* "A failed boot must still release what it managed to acquire"
\* (bootstrap.ts:74-77).
FailedBootReleases ==
    ~ Running /\ phase # "up" /\ exit.how # "killed" => outcome \in {"complete", "timedOut"}

=============================================================================
