------------------------ MODULE InteractionPipeline ------------------------
(***************************************************************************)
(* discord/kernel/pipeline.ts with its responder: one interaction, from    *)
(* the guards to the last call to Discord, beside the interactions that    *)
(* share its cooldown.                                                     *)
(*                                                                         *)
(* A route is what the interaction is: a slash command, a button of a      *)
(* panel, a form opened from a command or from a panel, a message command, *)
(* or a message command in a channel the bot cannot write to.  A response  *)
(* is told apart only by what the pipeline does with it; "gone" is a fault *)
(* whose Discord code says that something no longer exists.  A call to     *)
(* Discord is accepted, refused, or loses the request or the answer.       *)
(***************************************************************************)
EXTENDS Cooldown, Sequences, FiniteSets

CONSTANTS
    AutoDeferAfter,     \* AUTO_DEFER_AFTER_MS, TYPING_AFTER_MS
    DeadlineMs,         \* Discord's three seconds for a first reply
    CallMs,             \* the longest a call to Discord takes
    Lags,               \* how late an interaction may reach the bot
    MayFail,            \* whether calls are lost
    MaxNow              \* bound: the clock

ASSUME TimesAssumption == {AutoDeferAfter, DeadlineMs, CallMs} \subseteq Nat \ {0}
\* What the bot may say, and a call to Discord.
Said == {"answer", "refusal", "incident", "form"}
Calls == [ kind : {"defer", "reply", "update", "modal", "edit", "followUp", "send"},
           content : Said \cup {"none"}, sentAt : Nat ]

ASSUME NoneAssumption ==
    None \notin Nat \cup Said \cup {"none", "public", "ephemeral"} \cup Calls
                \cup [count : Nat, expiresAt : Nat]
ASSUME BoundsAssumption == MaxNow \in Nat /\ MayFail \in BOOLEAN /\ Lags \subseteq Nat

VARIABLES
    route, mode, startedAt,     \* the interaction, and when the bot had it
    visibility,     \* who a deferral of it is visible to
    lag,            \* how long after Discord sent it that was
    phase,          \* where run() is
    timer,          \* when the adaptive defer is due
    response,       \* what respond() was given
    acked,          \* the responder's `acknowledged`
    pending,        \* its `pending`: settled, in flight, or rejected and why
    call,           \* the call respond() awaits
    typedAt,        \* when the pending acknowledgement was sent
    firstTaken,     \* Discord has had the first reply
    thinking, shown, panel,     \* what the user sees
    placeholder, overheard,     \* who sees the "thinking...", and what others see
    result,         \* history: how the guards and the handler ended
    refusals,       \* history: what Discord refused calls for
    troubled,       \* history: a call was lost
    completions,    \* history: recordCompletion's calls
    window, admitted,   \* the cooldown, and history: when attempts were let in
    now

asked == <<route, mode, visibility, startedAt, lag>>
responder == <<acked, pending, typedAt>>
discord == <<firstTaken, thinking, shown, panel, placeholder, overheard>>
history == <<refusals, troubled>>
store == <<window, admitted>>
vars == <<asked, phase, timer, response, responder, call, discord, result, history,
          completions, store, now>>

Init ==
    /\ route = "command" /\ mode = "auto" /\ visibility = "public" /\ startedAt = 0 /\ lag = 0
    /\ phase = "new" /\ timer = None /\ response = None
    /\ acked = FALSE /\ pending = "settled" /\ typedAt = 0 /\ call = None
    /\ firstTaken = FALSE /\ thinking = FALSE /\ shown = {} /\ panel = None
    /\ placeholder = None /\ overheard = {}
    /\ result = None /\ refusals = {} /\ troubled = FALSE /\ completions = 0
    /\ window = NoWindow /\ admitted = <<>>
    /\ now = 0

-----------------------------------------------------------------------------
(* What an interaction is. *)

Routes == {"command", "panel", "form", "panelForm", "message", "unsendable"}
OnMessage == route \in {"message", "unsendable"}

\* editsSourceMessage: the answer rewrites the message the interaction is from.
InPlace == route \in {"panel", "panelForm"}

CanOpenForm == route \in {"command", "panel"}

Modes(r) == IF r \in {"message", "unsendable"} THEN {"auto"} ELSE {"auto", "immediate", "never"}

\* Mutant of Visibilities: buttons and forms default to public, as commands do.
VisibilitiesByDefault(r, m) == {"public", "ephemeral"}

\* Who a deferral is visible to: the mode says it, or else the route.  A
\* command declares it; a button's and a form's is private, a message's never.
Visibilities(r, m) ==
    IF m = "immediate" \/ r = "command" THEN {"public", "ephemeral"}
    ELSE IF r \in {"message", "unsendable"} THEN {"public"} ELSE {"ephemeral"}

\* A form submission has no cooldown.
Cooled(r) == r \notin {"form", "panelForm"}

-----------------------------------------------------------------------------
(* How run() ends, and how it fails: failure-reporting.ts.                 *)

\* An AppError is expected, a refusal, or unexpected; a fault whose Discord code
\* is in GONE_CODES is "gone".
Causes == {"refusal", "fault", "gone"}

\* Response: what a handler returns; every kind that shows something is "answer".
Responses == {"answer", "refusal", "form", "none"}

Completes ==
    /\ phase' = "done"
    /\ response' = None
    /\ completions' = completions + 1

\* renderResponse: silence has no words.
Words(content) == {content} \ {None, "none"}

\* renderResponse: the answers the handlers give are public, a failure and a
\* form are for the one who asked.
PublicWords(content) == Words(content) \ {"refusal", "incident", "form"}

Worded(cause) == IF cause = "refusal" THEN "refusal" ELSE "incident"

\* reportFailure: a failure that says the target is gone is not replied to.
Reports(cause) ==
    IF cause = "gone" THEN Completes
    ELSE phase' = "reporting" /\ response' = Worded(cause) /\ UNCHANGED completions

\* Mutant of Throws: a reply that fails while reporting is reported again.
ThrowsAgain(cause) == Reports(cause)

\* respond() throws: caught by run, or swallowed while a failure is reported.
Throws(cause) == IF phase = "responding" THEN Reports(cause) ELSE Completes

-----------------------------------------------------------------------------
(* The responder: defer. *)

\* The flag is set before the call is made.  No handler of the repository
\* defers or follows up by itself, so nothing else can have set it.
Defers ==
    /\ acked' = TRUE
    /\ pending' = IF acked \/ route = "unsendable" THEN pending ELSE "inFlight"
    /\ typedAt' = now

-----------------------------------------------------------------------------
(* run(): the guards. *)

Starts(r, m) ==
    /\ phase = "new"
    /\ m \in Modes(r)
    /\ route' = r /\ mode' = m /\ visibility' \in Visibilities(r, m) /\ lag' \in Lags /\ startedAt' = now
    /\ UNCHANGED <<discord, history, now>>

Attempt ==
    /\ window' = AfterHit(window, now)
    /\ admitted' = IF AllowsHit(window, now) THEN Append(admitted, now) ELSE admitted

PassesCooldown(cooled) ==
    IF cooled THEN AllowsHit(window, now) /\ Attempt ELSE UNCHANGED store

StartsTooFast(r, m) ==
    /\ Starts(r, m)
    /\ Cooled(r) /\ ~ AllowsHit(window, now) /\ Attempt
    /\ Reports("refusal")
    /\ result' = "refusal"
    /\ UNCHANGED <<timer, responder, call>>

StartsUnauthorized(r, m, cooled) ==
    /\ Starts(r, m)
    /\ PassesCooldown(cooled)
    /\ Reports("refusal")
    /\ result' = "refusal"
    /\ UNCHANGED <<timer, responder, call>>

\* A mode that always defers awaits the acknowledgement before the handler.
StartsDeferring(r, m, cooled) ==
    /\ m = "immediate"
    /\ Starts(r, m)
    /\ PassesCooldown(cooled)
    /\ phase' = "deferring"
    /\ Defers
    /\ UNCHANGED <<timer, response, call, result, completions>>

\* Mutant of DeferDue: the timer waits for as long as Discord does.
DeferDueLate(m) == IF m = "auto" THEN now + DeadlineMs ELSE None

DeferDue(m) == IF m = "auto" THEN now + AutoDeferAfter ELSE None

StartsHandling(r, m, cooled) ==
    /\ m # "immediate"
    /\ Starts(r, m)
    /\ PassesCooldown(cooled)
    /\ phase' = "handling"
    /\ timer' = DeferDue(m)
    /\ UNCHANGED <<response, responder, call, result, completions>>

\* replyUnknown: this build has no such command, button or form.
StartsUnroutable(r) ==
    /\ r \notin {"message", "unsendable"}
    /\ Starts(r, "auto")
    /\ phase' = "unroutable"
    /\ call' = [kind |-> "reply", content |-> "refusal", sentAt |-> now]
    /\ result' = "unroutable"
    /\ UNCHANGED <<timer, response, responder, completions, store>>

-----------------------------------------------------------------------------
(* run(): the handler, and the timer it races. *)

TimerFires ==
    /\ timer # None /\ now >= timer
    /\ timer' = None
    /\ Defers
    /\ UNCHANGED <<asked, phase, response, call, discord, result, history, completions, store, now>>

\* Mutant of Cleared: the timer is not cleared when the handler has finished.
ClearedNever == timer

Cleared == None

\* A fault is reported whether it is thrown or returned; so is a refusal that
\* is thrown, the owner-only check's among them.
HandlerFails(cause) ==
    /\ phase = "handling"
    /\ timer' = Cleared
    /\ result' = cause
    /\ Reports(cause)
    /\ UNCHANGED <<asked, responder, call, discord, history, store, now>>

HandlerAnswers(r) ==
    /\ phase = "handling"
    /\ timer' = Cleared
    /\ result' = r
    /\ phase' = "responding"
    /\ response' = r
    /\ UNCHANGED <<asked, responder, call, discord, history, completions, store, now>>

-----------------------------------------------------------------------------
(* The responder: respond, which waits for a defer that is under way. *)

DeferSettled == pending # "inFlight"

Responds == phase \in {"responding", "reporting"} /\ call = None /\ DeferSettled

NothingToSend ==
    \/ response = "none" /\ (acked \/ OnMessage)
    \/ route = "unsendable"

\* A form after an acknowledgement, or from a form, is a TypeError.
CannotOpen == response = "form" /\ ~ OnMessage /\ (acked \/ ~ CanOpenForm)

\* Mutant of CallFor: a reply is chosen without looking at the acknowledgement.
CallForFirst ==
    IF OnMessage THEN "send"
    ELSE IF response = "form" THEN "modal"
    ELSE IF response = "none" THEN "defer"
    ELSE IF InPlace /\ response \notin {"refusal", "incident"} THEN "update" ELSE "reply"

CallFor ==
    IF OnMessage THEN "send"
    ELSE IF response = "form" THEN "modal"
    ELSE IF response = "none" THEN "defer"
    ELSE IF InPlace /\ response \in {"refusal", "incident"}
         THEN IF acked THEN "followUp" ELSE "reply"
    ELSE IF acked THEN "edit"
    ELSE IF InPlace THEN "update" ELSE "reply"

\* A form cannot be sent to a channel; a sentence is sent instead.
Content == IF OnMessage /\ response = "form" THEN "refusal" ELSE response

\* respond() awaits a promise that was rejected.
RespondRejects ==
    /\ Responds
    /\ pending \notin {"settled", "inFlight"}
    /\ Throws(pending)
    /\ UNCHANGED <<asked, timer, responder, call, discord, result, history, store, now>>

RespondTypeError ==
    /\ Responds
    /\ pending \in {"settled", "inFlight"}
    /\ CannotOpen
    /\ Throws("fault")
    /\ UNCHANGED <<asked, timer, responder, call, discord, result, history, store, now>>

RespondNothing ==
    /\ Responds
    /\ pending \in {"settled", "inFlight"}
    /\ ~ CannotOpen
    /\ NothingToSend
    /\ Completes
    /\ UNCHANGED <<asked, timer, responder, call, discord, result, history, store, now>>

RespondSends ==
    /\ Responds
    /\ pending \in {"settled", "inFlight"}
    /\ ~ CannotOpen
    /\ ~ NothingToSend
    /\ call' = [kind |-> CallFor, content |-> Content, sentAt |-> now]
    /\ UNCHANGED <<asked, phase, timer, response, responder, discord, result, history,
                   completions, store, now>>

-----------------------------------------------------------------------------
(* Discord.  It takes one first reply, inside its deadline, and edits and  *)
(* follow-ups after it; a message in a channel is always taken.            *)

IsFirstReply(kind) == kind \in {"defer", "reply", "update", "modal"}

Refusal(kind) ==
    IF IsFirstReply(kind) /\ firstTaken THEN "duplicate"
    ELSE IF IsFirstReply(kind) /\ now - startedAt + lag >= DeadlineMs THEN "expired"
    ELSE IF kind \in {"edit", "followUp"} /\ ~ firstTaken THEN "premature" ELSE "none"

\* What the caller makes of a refusal: the first two are in GONE_CODES.
CauseOf(refusal) == IF refusal = "premature" THEN "fault" ELSE "gone"

\* The timer and the policy defer as planned, a silent response privately.
DeferredAs(content) == IF content = "none" THEN "ephemeral" ELSE visibility

\* An edit is seen by whoever saw the placeholder, whatever it says; a panel's
\* own audience is the panel's business.
Overheard(kind, content) ==
    IF kind = "send" \/ (kind = "edit" /\ ~ InPlace /\ placeholder = "public")
    THEN Words(content)
    ELSE IF kind \in {"reply", "followUp"} THEN PublicWords(content) ELSE {}

Accepts(kind, content) ==
    /\ Refusal(kind) = "none"
    /\ firstTaken' = (firstTaken \/ IsFirstReply(kind))
    /\ thinking' = IF kind = "defer" THEN ~ InPlace ELSE thinking /\ kind # "edit"
    /\ IF InPlace /\ kind \in {"edit", "update"}
       THEN panel' = content /\ UNCHANGED shown
       ELSE shown' = shown \cup Words(content) /\ UNCHANGED panel
    /\ placeholder' = IF kind = "defer" /\ ~ InPlace THEN DeferredAs(content) ELSE placeholder
    /\ overheard' = overheard \cup Overheard(kind, content)

Refuses(kind) ==
    /\ Refusal(kind) # "none"
    /\ refusals' = refusals \cup {Refusal(kind)}
    /\ UNCHANGED <<discord, troubled>>

\* The request, or the answer to it, is lost.
Loses(kind, content) ==
    /\ MayFail
    /\ troubled' = TRUE
    /\ Accepts(kind, content) \/ UNCHANGED discord
    /\ UNCHANGED refusals

\* The acknowledgement: deferReply, deferUpdate or, for a message, a typing
\* indicator, which shows nothing here and whose failure is swallowed.
DeferEnds(verdict) ==
    /\ pending' = verdict
    /\ IF phase # "deferring" THEN UNCHANGED <<phase, response, completions>>
       ELSE IF verdict = "settled" THEN phase' = "handling" /\ UNCHANGED <<response, completions>>
       ELSE Reports(verdict)
    /\ UNCHANGED <<asked, timer, acked, typedAt, call, result, store, now>>

DeferAccepted ==
    /\ pending = "inFlight"
    /\ IF OnMessage THEN UNCHANGED discord ELSE Accepts("defer", None)
    /\ DeferEnds("settled")
    /\ UNCHANGED history

DeferRefused ==
    /\ pending = "inFlight" /\ ~ OnMessage
    /\ Refuses("defer")
    /\ DeferEnds(CauseOf(Refusal("defer")))

DeferLost ==
    /\ pending = "inFlight" /\ ~ OnMessage
    /\ Loses("defer", None)
    /\ DeferEnds("fault")

\* respond's own call.
CallAccepted ==
    /\ call # None
    /\ Accepts(call.kind, call.content)
    /\ call' = None
    /\ acked' = (acked \/ phase # "unroutable")
    /\ IF phase = "unroutable" THEN phase' = "done" /\ UNCHANGED <<response, completions>>
       ELSE Completes
    /\ UNCHANGED <<asked, timer, pending, typedAt, result, history, store, now>>

CallRejected(cause) ==
    /\ call' = None
    /\ IF phase = "unroutable" THEN phase' = "done" /\ UNCHANGED <<response, completions>>
       ELSE Throws(cause)
    /\ UNCHANGED <<asked, timer, responder, result, store, now>>

CallRefused ==
    /\ call # None
    /\ Refuses(call.kind)
    /\ CallRejected(CauseOf(Refusal(call.kind)))

CallLost ==
    /\ call # None
    /\ Loses(call.kind, call.content)
    /\ CallRejected("fault")

-----------------------------------------------------------------------------
(* Around the interaction: its cooldown's other users, and the clock. *)

\* Bounds: attempts stop once this interaction is past its own, and once one
\* has been refused in the window, which is what a refused one changes.
OthersAttempt ==
    /\ phase = "new"
    /\ Open(window, now) => window.count <= Limit
    /\ Attempt
    /\ UNCHANGED <<asked, phase, timer, response, responder, call, discord, result, history,
                   completions, now>>

SweepsCooldowns ==
    /\ window' = SweepWindow(window, now)
    /\ UNCHANGED <<asked, phase, timer, response, responder, call, discord, result, history,
                   completions, admitted, now>>

Overdue ==
    \/ timer # None /\ now >= timer
    \/ call # None /\ now - call.sentAt >= CallMs
    \/ pending = "inFlight" /\ now - typedAt >= CallMs
    \/ Responds

\* Time does not pass a timer that is due, a call that has to have been
\* answered, or a continuation that is ready to run.
Tick ==
    /\ now < MaxNow
    /\ ~ Overdue
    /\ now' = now + 1
    /\ UNCHANGED <<asked, phase, timer, response, responder, call, discord, result, history,
                   completions, store>>

Handles ==
    \/ \E cause \in Causes : HandlerFails(cause)
    \/ \E r \in Responses : HandlerAnswers(r)

Continues ==
    \/ RespondRejects \/ RespondTypeError \/ RespondNothing \/ RespondSends
    \/ DeferAccepted \/ DeferRefused \/ DeferLost
    \/ CallAccepted \/ CallRefused \/ CallLost

Next ==
    \/ \E r \in Routes, m \in {"auto", "immediate", "never"} :
        \/ StartsTooFast(r, m)
        \/ \E cooled \in {FALSE, Cooled(r)} :
            StartsUnauthorized(r, m, cooled) \/ StartsDeferring(r, m, cooled)
                \/ StartsHandling(r, m, cooled)
    \/ \E r \in Routes : StartsUnroutable(r)
    \/ TimerFires
    \/ Handles
    \/ Continues
    \/ OthersAttempt
    \/ SweepsCooldowns
    \/ Tick

\* Handlers finish, calls to Discord settle, and the event loop runs what is
\* ready.  Nothing makes an interaction come.
Fairness == WF_vars(Handles) /\ WF_vars(Continues)

Spec == Init /\ [][Next]_vars /\ Fairness

-----------------------------------------------------------------------------
TypeOK ==
    /\ route \in Routes /\ mode \in {"auto", "immediate", "never"} /\ {startedAt, lag, typedAt, now} \subseteq Nat
    /\ phase \in {"new", "deferring", "handling", "responding", "reporting", "unroutable", "done"}
    /\ timer \in Nat \cup {None}
    /\ response \in Said \cup {"none", None}
    /\ {acked, firstTaken, thinking, troubled} \subseteq BOOLEAN
    /\ pending \in {"settled", "inFlight", "fault", "gone"}
    /\ call \in {None} \cup Calls
    /\ overheard \subseteq shown /\ placeholder \in {None, "public", "ephemeral"}
    /\ shown \subseteq Said /\ visibility \in {"public", "ephemeral"} /\ panel \in Said \cup {None}
    /\ refusals \subseteq {"duplicate", "expired", "premature"}
    /\ window \in [count : Nat, expiresAt : Nat] \cup {None}

\* The timer and the handler never both send a first reply, and nothing is
\* edited that is not there yet: Discord refuses a call as a duplicate or as
\* premature only when an answer of its own was lost
\* (context-factory.ts:183-191).
OneFirstReply ==
    /\ TypeOK
    /\ {"duplicate", "premature"} \cap refusals # {} => troubled

\* However long the handler runs, an interaction that may defer is answered
\* inside Discord's deadline: a lost call apart, and an interaction that came
\* too late for the timer and the round trip to fit (defer-policy.ts:38-44).
AnsweredInTime ==
    "expired" \in refusals =>
        troubled \/ mode = "never" \/ lag + AutoDeferAfter + CallMs >= DeadlineMs

\* The words an interaction may end with, from how it went.
LastWords ==
    IF result = "answer" THEN {"answer"}
    ELSE IF result \in {"refusal", "unroutable"} \/ (result = "form" /\ OnMessage) THEN {"refusal"}
    ELSE IF result = "fault" \/ mode = "immediate" \/ ~ CanOpenForm THEN {"incident"}
    ELSE IF mode = "never" THEN {"form"} ELSE {"form", "incident"}

\* A failure never takes the place of the panel it came from; and when no call
\* is lost or late, every interaction whose target still exists ends with the
\* one thing it has to say, said once, and with no "thinking..." left over
\* (pipeline.ts:77-78, context-factory.ts:225-287).
SaysOneThing ==
    /\ panel \notin {"refusal", "incident"}
    /\ phase = "done" /\ ~ troubled /\ "expired" \notin refusals /\ result \notin {"none", "gone"}
        /\ route # "unsendable"
        => /\ ~ thinking
           /\ \E word \in LastWords : shown \cup ({panel} \ {None}) = {word}

\* The weakness the store admits to, and no more: at most twice the limit is
\* let in within any window, one short of it since the first attempt opens the
\* window (memory.cooldown.ts:14-17).
CooldownHolds ==
    \A t \in -1..now :
        Cardinality({i \in DOMAIN admitted : admitted[i] > t /\ admitted[i] <= t + WindowMs})
            <= 2 * Limit - 1

\* Others overhear a failure only where the command was typed, or under a
\* placeholder that was public before the failure came: a command's, which is
\* public unless it is defined otherwise (command.contract.ts:185), or an
\* immediate public defer's.  The defer fixes who sees the answer; after a
\* private one, others see nothing (render.ts:95-96, context-factory.ts:214-223,
\* 264-267).
FailuresAreWhispered ==
    /\ overheard \cap {"refusal", "incident"} # {} =>
        OnMessage \/ (placeholder = "public" /\ (route = "command" \/ mode = "immediate"))
    /\ placeholder = "ephemeral" => overheard = {}

\* Every interaction that started is finished and recorded, once.
EveryInteractionCompletes ==
    phase \notin {"new", "done"} ~> phase = "done" /\ completions = (IF result = "unroutable" THEN 0 ELSE 1)
=============================================================================
