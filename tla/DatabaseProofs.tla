---------------------------- MODULE DatabaseProofs ----------------------------
(***************************************************************************)
(* What Database promises for any number of callers and connections, any   *)
(* number of attempts, of statements in a transaction and of connections   *)
(* that break.  A call is always one of few shapes (GoodCall); a           *)
(* connection is in a transaction only while its holder is (ConnsHeld).    *)
(* On top of that, what was applied for a caller and what the server may   *)
(* still run for it fit what became of its call (EInv): the abstract work  *)
(* of AtomicWork follows.                                                  *)
(***************************************************************************)
EXTENDS Database, FiniteSetTheorems, SequenceTheorems, TLAPS

Attempts == 0..MaxAttempts
Counts == 0..MaxSteps

CallRecords ==
    [kind: Kinds \cup {"none"},
     phase: {"new", "waiting", "flight", "sleep", "work", "leave", "done"},
     own: Conns \cup {None}, at: Conns \cup {None},
     stmt: {"none", "begin", "commit", "rollback", "select", "write"},
     pooled: BOOLEAN, attempt: Attempts, steps: Counts, written: Counts,
     verdict: {"nothing", "done", "failed"}, told: {"nothing", "done", "failed"},
     lost: SUBSET {"connection", "transient"}, hid: BOOLEAN]

Sessions ==
    [link: {"closed", "open", "broken"}, holder: Callers \cup {None},
     tx: {"none", "open", "aborted"}, writes: [Callers -> Nat]]

Ended == {"leave", "done"}

\* What goes with a caller's phase: where it is and what it has sent.
PhaseFits(r) ==
    /\ r.phase = "new" <=> r.kind = "none"
    /\ r.phase = "new" => r = NewCall
    /\ r.phase = "waiting" => \/ r.pooled
                              \/ r.stmt = "none" /\ r.own = None /\ r.kind \in OnClient
    /\ r.phase = "flight" => r.stmt # "none" /\ (r.pooled \/ r.own # None)
    /\ r.phase = "sleep" => /\ r.attempt < MaxAttempts /\ r.stmt \in {"select", "write"}
                            /\ r.pooled \/ r.own # None
    /\ r.phase = "work" => r.own # None /\ r.stmt = "none"
    /\ r.phase \in Ended => r.stmt = "none"

\* What goes with a caller's statement.
StatementFits(r) ==
    /\ r.stmt = "none" => ~ r.pooled
    /\ r.stmt \in {"begin", "commit", "rollback"} =>
        r.kind = "transaction" /\ r.phase = "flight" /\ ~ r.pooled
    /\ r.pooled => r.stmt \in {"select", "write"} /\ (r.own # None => r.stmt = "select")

\* What goes with the connections a caller has: its own, for its transaction or
\* session, and one of the pool, for one statement.
PlacesFit(r) ==
    /\ r.own # None => r.kind \in OnClient /\ r.phase \notin {"new", "done"}
    /\ r.at # None <=> r.pooled /\ r.phase = "flight"
    /\ r.at # None => r.own # r.at

\* Every write counted was one of the work's steps.
StepsFit(r) ==
    r.kind \in OnClient /\ r.phase \notin Ended =>
        r.written + (IF r.stmt = "write" THEN 1 ELSE 0) <= r.steps

GoodCall(r) == r \in CallRecords /\ PhaseFits(r) /\ StatementFits(r) /\ PlacesFit(r) /\ StepsFit(r)

InTransaction(r) ==
    /\ r.kind = "transaction"
    /\ r.phase \in {"waiting", "sleep", "work", "flight"} /\ r.stmt # "begin"

\* A connection that is free is as good as new, and one in a transaction is held
\* by a caller that is and will end it.
ConnFits(k) ==
    LET s == conn[k] IN
    /\ s.holder = None => s.tx = "none" /\ s.link # "broken"
    /\ s.link # "open" => s.tx = "none"
    /\ s.link = "broken" => k = call[s.holder].own
    /\ s.tx # "none" => InTransaction(call[s.holder]) /\ k = call[s.holder].own
    /\ s.tx # "open" => s.writes = NoWrites
    /\ \A c \in Callers : s.writes[c] > 0 => s.holder = c

\* A connection is held by the caller that has it, and by nobody else.
HeldByUser(k) ==
    /\ conn[k].holder # None => k \in {call[conn[k].holder].own, call[conn[k].holder].at}
    /\ \A c \in Callers : k \in {call[c].own, call[c].at} => conn[k].holder = c

\* Whoever waits is in the queue once.
WaitersWait ==
    /\ waiters \in Seq(Callers)
    /\ \A i \in DOMAIN waiters : Phase(waiters[i]) = "waiting"
    /\ \A i, j \in DOMAIN waiters : waiters[i] = waiters[j] => i = j

RestTyped ==
    /\ pool \in {"open", "ending", "ended"}
    /\ applied \in [Callers -> Nat]
    /\ orphans \subseteq [id: 0..MaxBreaks, writes: [Callers -> Nat]]
    /\ breaks \in 0..MaxBreaks

CallsFit == DOMAIN call = Callers /\ \A c \in Callers : GoodCall(call[c])
ConnsHeld == conn \in [Conns -> Sessions] /\ \A k \in Conns : ConnFits(k) /\ HeldByUser(k)

IInv == call \in [Callers -> CallRecords] /\ CallsFit /\ ConnsHeld /\ WaitersWait /\ RestTyped

-----------------------------------------------------------------------------
(* What a call becomes. *)

LEMMA OneAttempt == 1 \in Attempts /\ 0 \in Attempts /\ 0 \in Counts
BY AttemptsAssumption, BoundsAssumption DEF Attempts, Counts

Rested(q) == [q EXCEPT !.stmt = "none", !.pooled = FALSE, !.at = None, !.attempt = 0]
Left(q, verdict, h) == [q EXCEPT !.phase = "leave", !.verdict = verdict,
                                 !.steps = 0, !.hid = h]
Sent(q, stmt) == [q EXCEPT !.stmt = stmt, !.pooled = FALSE,
                           !.attempt = 1, !.phase = "flight"]
Queued(q, stmt) == [q EXCEPT !.stmt = stmt, !.pooled = TRUE,
                             !.attempt = 1, !.phase = "waiting"]
Thrown(q) == [q EXCEPT !.at = None, !.steps = 0, !.hid = FALSE, !.written = 0]
Asleep(q) == [q EXCEPT !.at = None, !.phase = "sleep"]
Working(q, h, n) == [q EXCEPT !.phase = "work", !.hid = h, !.written = n]
Woken(q, n, p) == [q EXCEPT !.attempt = n, !.phase = p]
Served(q, k) == [q EXCEPT !.at = k, !.phase = "flight"]
Begun(q, k) == [Sent(q, "begin") EXCEPT !.own = k]
Opened(q, k) == [q EXCEPT !.own = k, !.phase = "work"]
Writing(q, n) == [Sent(q, "write") EXCEPT !.steps = n]
Reading(q, n) == [Queued(q, "select") EXCEPT !.steps = n]
Asked(q, stmt, kind) == [Queued(q, stmt) EXCEPT !.kind = kind]
Wanted(q, kind) == [q EXCEPT !.phase = "waiting", !.kind = kind]
Settled(q) == [q EXCEPT !.phase = "done", !.told = q.verdict, !.own = None]
Misled(q, l) == [q EXCEPT !.lost = l]

LEMMA RestedFields ==
    ASSUME NEW q \in CallRecords
    PROVE  Rested(q) \in CallRecords /\ Rested(q).hid = q.hid /\ Rested(q).written = q.written
BY OneAttempt DEF Rested, CallRecords

LEMMA LeftFields ==
    ASSUME NEW q \in CallRecords, NEW v \in {"done", "failed"}, NEW h \in BOOLEAN,
           NEW s, s = Left(Rested(q), v, h)
    PROVE  /\ s \in CallRecords
           /\ s.stmt = "none" /\ ~ s.pooled /\ s.at = None /\ s.attempt = 0
           /\ s.phase = "leave" /\ s.verdict = v /\ s.steps = 0 /\ s.hid = h
           /\ s.kind = q.kind /\ s.own = q.own /\ s.written = q.written
           /\ s.told = q.told /\ s.lost = q.lost
BY OneAttempt DEF Left, Rested, CallRecords

LEMMA WorkingFields ==
    ASSUME NEW q \in CallRecords, NEW h \in BOOLEAN, NEW n \in Counts,
           NEW s, s = Working(Rested(q), h, n)
    PROVE  /\ s \in CallRecords
           /\ s.stmt = "none" /\ ~ s.pooled /\ s.at = None /\ s.attempt = 0
           /\ s.phase = "work" /\ s.hid = h /\ s.written = n /\ s.kind = q.kind
           /\ s.own = q.own /\ s.steps = q.steps /\ s.verdict = q.verdict
           /\ s.told = q.told /\ s.lost = q.lost
BY OneAttempt DEF Working, Rested, CallRecords

LEMMA SentFields ==
    ASSUME NEW q \in CallRecords, NEW stmt \in {"begin", "commit", "rollback", "write"},
           NEW s, s = Sent(q, stmt)
    PROVE  /\ s \in CallRecords
           /\ s.stmt = stmt /\ ~ s.pooled /\ s.attempt = 1 /\ s.phase = "flight"
           /\ s.kind = q.kind /\ s.own = q.own /\ s.at = q.at /\ s.steps = q.steps
           /\ s.written = q.written /\ s.verdict = q.verdict /\ s.told = q.told
           /\ s.lost = q.lost /\ s.hid = q.hid
BY OneAttempt DEF Sent, CallRecords

LEMMA ThrownFields ==
    ASSUME NEW q \in CallRecords,
           NEW s, s = Thrown(Sent(q, "rollback"))
    PROVE  /\ s \in CallRecords
           /\ s.stmt = "rollback" /\ ~ s.pooled /\ s.attempt = 1 /\ s.phase = "flight"
           /\ s.at = None /\ s.steps = 0 /\ ~ s.hid /\ s.written = 0 /\ s.kind = q.kind
           /\ s.own = q.own /\ s.verdict = q.verdict /\ s.told = q.told
           /\ s.lost = q.lost
BY OneAttempt DEF Thrown, Sent, CallRecords

LEMMA AsleepFields ==
    ASSUME NEW q \in CallRecords,
           NEW s, s = Asleep(q)
    PROVE  /\ s \in CallRecords
           /\ s.at = None /\ s.phase = "sleep" /\ s.kind = q.kind /\ s.own = q.own
           /\ s.stmt = q.stmt /\ s.pooled = q.pooled /\ s.attempt = q.attempt
           /\ s.steps = q.steps /\ s.written = q.written /\ s.verdict = q.verdict
           /\ s.told = q.told /\ s.lost = q.lost /\ s.hid = q.hid
BY OneAttempt DEF Asleep, CallRecords

LEMMA WokenFields ==
    ASSUME NEW q \in CallRecords, NEW n \in Attempts, NEW p \in {"waiting", "flight"},
           NEW s, s = Woken(q, n, p)
    PROVE  /\ s \in CallRecords
           /\ s.attempt = n /\ s.phase = p /\ s.kind = q.kind /\ s.own = q.own
           /\ s.at = q.at /\ s.stmt = q.stmt /\ s.pooled = q.pooled /\ s.steps = q.steps
           /\ s.written = q.written /\ s.verdict = q.verdict /\ s.told = q.told
           /\ s.lost = q.lost /\ s.hid = q.hid
BY OneAttempt DEF Woken, CallRecords

LEMMA ServedFields ==
    ASSUME NEW q \in CallRecords, NEW k \in Conns,
           NEW s, s = Served(q, k)
    PROVE  /\ s \in CallRecords
           /\ s.at = k /\ s.phase = "flight" /\ s.kind = q.kind /\ s.own = q.own
           /\ s.stmt = q.stmt /\ s.pooled = q.pooled /\ s.attempt = q.attempt
           /\ s.steps = q.steps /\ s.written = q.written /\ s.verdict = q.verdict
           /\ s.told = q.told /\ s.lost = q.lost /\ s.hid = q.hid
BY OneAttempt DEF Served, CallRecords

LEMMA BegunFields ==
    ASSUME NEW q \in CallRecords, NEW k \in Conns,
           NEW s, s = Begun(q, k)
    PROVE  /\ s \in CallRecords
           /\ s.stmt = "begin" /\ ~ s.pooled /\ s.attempt = 1 /\ s.phase = "flight"
           /\ s.own = k /\ s.kind = q.kind /\ s.at = q.at /\ s.steps = q.steps
           /\ s.written = q.written /\ s.verdict = q.verdict /\ s.told = q.told
           /\ s.lost = q.lost /\ s.hid = q.hid
BY OneAttempt DEF Begun, Sent, CallRecords

LEMMA OpenedFields ==
    ASSUME NEW q \in CallRecords, NEW k \in Conns,
           NEW s, s = Opened(q, k)
    PROVE  /\ s \in CallRecords
           /\ s.own = k /\ s.phase = "work" /\ s.kind = q.kind /\ s.at = q.at
           /\ s.stmt = q.stmt /\ s.pooled = q.pooled /\ s.attempt = q.attempt
           /\ s.steps = q.steps /\ s.written = q.written /\ s.verdict = q.verdict
           /\ s.told = q.told /\ s.lost = q.lost /\ s.hid = q.hid
BY OneAttempt DEF Opened, CallRecords

LEMMA WritingFields ==
    ASSUME NEW q \in CallRecords, NEW n \in Counts,
           NEW s, s = Writing(q, n)
    PROVE  /\ s \in CallRecords
           /\ s.stmt = "write" /\ ~ s.pooled /\ s.attempt = 1 /\ s.phase = "flight"
           /\ s.steps = n /\ s.kind = q.kind /\ s.own = q.own /\ s.at = q.at
           /\ s.written = q.written /\ s.verdict = q.verdict /\ s.told = q.told
           /\ s.lost = q.lost /\ s.hid = q.hid
BY OneAttempt DEF Writing, Sent, CallRecords

LEMMA ReadingFields ==
    ASSUME NEW q \in CallRecords, NEW n \in Counts,
           NEW s, s = Reading(q, n)
    PROVE  /\ s \in CallRecords
           /\ s.stmt = "select" /\ s.pooled /\ s.attempt = 1 /\ s.phase = "waiting"
           /\ s.steps = n /\ s.kind = q.kind /\ s.own = q.own /\ s.at = q.at
           /\ s.written = q.written /\ s.verdict = q.verdict /\ s.told = q.told
           /\ s.lost = q.lost /\ s.hid = q.hid
BY OneAttempt DEF Reading, Queued, CallRecords

LEMMA AskedFields ==
    ASSUME NEW q \in CallRecords, NEW stmt \in {"select", "write"}, NEW kind \in Kinds,
           NEW s, s = Asked(q, stmt, kind)
    PROVE  /\ s \in CallRecords
           /\ s.stmt = stmt /\ s.pooled /\ s.attempt = 1 /\ s.phase = "waiting"
           /\ s.kind = kind /\ s.own = q.own /\ s.at = q.at /\ s.steps = q.steps
           /\ s.written = q.written /\ s.verdict = q.verdict /\ s.told = q.told
           /\ s.lost = q.lost /\ s.hid = q.hid
BY OneAttempt DEF Asked, Queued, CallRecords

LEMMA WantedFields ==
    ASSUME NEW q \in CallRecords, NEW kind \in Kinds,
           NEW s, s = Wanted(q, kind)
    PROVE  /\ s \in CallRecords
           /\ s.phase = "waiting" /\ s.kind = kind /\ s.own = q.own /\ s.at = q.at
           /\ s.stmt = q.stmt /\ s.pooled = q.pooled /\ s.attempt = q.attempt
           /\ s.steps = q.steps /\ s.written = q.written /\ s.verdict = q.verdict
           /\ s.told = q.told /\ s.lost = q.lost /\ s.hid = q.hid
BY OneAttempt DEF Wanted, CallRecords

LEMMA SettledFields ==
    ASSUME NEW q \in CallRecords,
           NEW s, s = Settled(q)
    PROVE  /\ s \in CallRecords
           /\ s.phase = "done" /\ s.told = q.verdict /\ s.own = None /\ s.kind = q.kind
           /\ s.at = q.at /\ s.stmt = q.stmt /\ s.pooled = q.pooled
           /\ s.attempt = q.attempt /\ s.steps = q.steps /\ s.written = q.written
           /\ s.verdict = q.verdict /\ s.lost = q.lost /\ s.hid = q.hid
BY OneAttempt DEF Settled, CallRecords

LEMMA MisledFields ==
    ASSUME NEW q \in CallRecords, NEW l \in SUBSET {"connection", "transient"},
           NEW s, s = Misled(q, l)
    PROVE  /\ s \in CallRecords
           /\ s.lost = l /\ s.kind = q.kind /\ s.phase = q.phase /\ s.own = q.own
           /\ s.at = q.at /\ s.stmt = q.stmt /\ s.pooled = q.pooled
           /\ s.attempt = q.attempt /\ s.steps = q.steps /\ s.written = q.written
           /\ s.verdict = q.verdict /\ s.told = q.told /\ s.hid = q.hid
BY OneAttempt DEF Misled, CallRecords


-----------------------------------------------------------------------------
(* What may follow when a statement failed, and when it succeeded. *)

\* The same as AfterFailure and AfterSuccess, of a record.
Failing(q, error, s) ==
    \/ q.stmt \in {"begin", "commit"} /\ s = Sent(q, "rollback")
    \/ q.stmt \in {"none", "rollback"} /\ s = Left(Rested(q), "failed", FALSE)
    \/ /\ q.stmt \in {"select", "write"} /\ q.attempt < MaxAttempts
       /\ error = "connection" \/ (error = "transient" /\ q.stmt = "select")
       /\ s = Asleep(q)
    \/ /\ q.stmt \in {"select", "write"} /\ q.own # None /\ q.kind = "transaction"
       /\ s = Thrown(Sent(q, "rollback"))
    \/ /\ q.stmt \in {"select", "write"} /\ q.own # None
       /\ \E h \in BOOLEAN : /\ s = Working(Rested(q), h, q.written)
                             /\ h <=> q.hid \/ ~ q.pooled
    \/ /\ q.stmt \in {"select", "write"} /\ (q.own = None \/ q.kind # "transaction")
       /\ s = Left(Rested(q), "failed", FALSE)

Succeeding(q, s) ==
    \/ q.stmt = "begin" /\ s = Working(Rested(q), q.hid, q.written)
    \/ q.stmt = "commit" /\ s = Left(Rested(q), "done", q.hid)
    \/ q.stmt = "rollback" /\ s = Left(Rested(q), "failed", FALSE)
    \/ /\ q.stmt \in {"select", "write"} /\ q.own # None
       /\ s = Working(Rested(q), q.hid, IF q.stmt = "write" THEN q.written + 1 ELSE q.written)
    \/ q.stmt \in {"select", "write"} /\ q.own = None /\ s = Left(Rested(q), "done", q.hid)

LEMMA LeaveIs ==
    ASSUME NEW c \in Callers, call[c] \in CallRecords
    PROVE  /\ Leave(c, "failed") = Left(Rested(call[c]), "failed", FALSE)
           /\ Leave(c, "done") = Left(Rested(call[c]), "done", call[c].hid)
<1>1. Resting(c) = Rested(call[c]) /\ Rested(call[c]) \in CallRecords
  BY RestedFields DEF Resting, Rested
<1>2. Rested(call[c]).hid = call[c].hid
  BY RestedFields
<1>3. call[c].hid \in BOOLEAN
  BY DEF CallRecords
<1>4. /\ (Rested(call[c]).hid /\ "failed" = "done") = FALSE
      /\ (Rested(call[c]).hid /\ "done" = "done") = call[c].hid
  BY <1>2, <1>3
<1>5. QED
  BY <1>1, <1>4 DEF Leave, Left

LEMMA ThrowIs ==
    ASSUME NEW c \in Callers, call[c] \in CallRecords
    PROVE  Throw(c) = IF call[c].kind = "transaction" THEN Thrown(Sent(call[c], "rollback"))
                      ELSE Left(Rested(call[c]), "failed", FALSE)
BY LeaveIs DEF Throw, Send, Sent, Thrown

LEMMA WorkingIs ==
    ASSUME NEW q \in CallRecords
    PROVE  /\ [q EXCEPT !.phase = "work"] = Working(q, q.hid, q.written)
           /\ \A h : [q EXCEPT !.phase = "work", !.hid = h] = Working(q, h, q.written)
           /\ \A n : [q EXCEPT !.phase = "work", !.written = n] = Working(q, q.hid, n)
BY DEF Working, CallRecords

LEMMA AfterFailureIs ==
    ASSUME NEW c \in Callers, call[c] \in CallRecords, NEW error,
           NEW s \in AfterFailure(c, error)
    PROVE  Failing(call[c], error, s)
<1> DEFINE q == call[c]
<1>1. q.stmt \in {"begin", "commit", "none", "rollback", "select", "write"}
  BY DEF CallRecords
<1>2. CASE q.stmt \in {"begin", "commit"}
  BY <1>2 DEF AfterFailure, Failing, Send, Sent
<1>3. CASE q.stmt \in {"none", "rollback"}
  BY <1>3, LeaveIs DEF AfterFailure, Failing
<1>4. CASE q.stmt \in {"select", "write"}
  <2>1. \/ MayRetry(c, error) /\ s = Asleep(q)
        \/ q.own # None /\ s = Throw(c)
        \/ q.own # None /\ s = [Resting(c) EXCEPT !.phase = "work", !.hid = @ \/ ~ q.pooled]
        \/ q.own = None /\ s = Leave(c, "failed")
    BY <1>4 DEF AfterFailure, Pinned, Asleep
  <2>2. CASE MayRetry(c, error) /\ s = Asleep(q)
    <3>1. /\ q.attempt < MaxAttempts
          /\ error = "connection" \/ (error = "transient" /\ q.stmt = "select")
      BY <2>2 DEF MayRetry
    <3>2. QED
      BY <1>4, <2>2, <3>1 DEF Failing
  <2>3. CASE q.own # None /\ s = Throw(c)
    BY <1>4, <2>3, ThrowIs DEF Failing
  <2>4. CASE q.own # None /\ s = [Resting(c) EXCEPT !.phase = "work", !.hid = @ \/ ~ q.pooled]
    <3> DEFINE h == Resting(c).hid \/ ~ q.pooled
    <3>1. Resting(c) = Rested(q) /\ Rested(q) \in CallRecords
      BY RestedFields DEF Resting, Rested
    <3>2. Rested(q).hid = q.hid /\ Rested(q).written = q.written
      BY RestedFields
    <3>3. h \in BOOLEAN /\ (h <=> q.hid \/ ~ q.pooled)
      BY <3>1, <3>2, Zenon
    <3>4. s = [Rested(q) EXCEPT !.phase = "work", !.hid = h]
      BY <2>4, <3>1
    <3> HIDE DEF h, q
    <3>5. s = Working(Rested(q), h, q.written)
      BY <3>1, <3>2, <3>4, WorkingIs
    <3>6. QED
      BY <1>4, <2>4, <3>3, <3>5 DEF Failing, q
  <2>5. CASE q.own = None /\ s = Leave(c, "failed")
    BY <1>4, <2>5, LeaveIs DEF Failing
  <2>6. QED
    BY <2>1, <2>2, <2>3, <2>4, <2>5
<1>5. QED
  BY <1>1, <1>2, <1>3, <1>4

LEMMA AfterSuccessIs ==
    ASSUME NEW c \in Callers, call[c] \in CallRecords, call[c].stmt # "none"
    PROVE  Succeeding(call[c], AfterSuccess(c))
<1> DEFINE q == call[c]
           s == AfterSuccess(c)
<1>1. q.stmt \in {"begin", "commit", "rollback", "select", "write"}
  BY DEF CallRecords
<1>2. Resting(c) = Rested(q) /\ Rested(q) \in CallRecords
  BY RestedFields DEF Resting, Rested
<1>3. Rested(q).hid = q.hid /\ Rested(q).written = q.written
  BY RestedFields
<1>4. CASE q.stmt = "begin"
  BY <1>2, <1>3, <1>4, WorkingIs DEF AfterSuccess, Succeeding
<1>5. CASE q.stmt \in {"commit", "rollback"}
  BY <1>5, LeaveIs DEF AfterSuccess, Succeeding
<1>6. CASE q.stmt \in {"select", "write"}
  <2>1. CASE q.own # None
    <3>1. s = [Rested(q) EXCEPT !.phase = "work",
                                !.written = IF q.stmt = "write" THEN q.written + 1 ELSE q.written]
      BY <1>2, <1>3, <1>6, <2>1 DEF AfterSuccess, Pinned
    <3>2. s = Working(Rested(q), q.hid, IF q.stmt = "write" THEN q.written + 1 ELSE q.written)
      BY <1>2, <1>3, <3>1, WorkingIs
    <3>3. QED
      BY <1>6, <2>1, <3>2 DEF Succeeding
  <2>2. CASE q.own = None
    BY <1>6, <2>2, LeaveIs DEF AfterSuccess, Succeeding, Pinned
  <2>3. QED
    BY <2>1, <2>2
<1>7. QED
  BY <1>1, <1>4, <1>5, <1>6


-----------------------------------------------------------------------------
(* A good call becomes a good call. *)

\* What stays of a call whatever comes of its statement.
Goes(s, q) ==
    /\ s.kind = q.kind /\ s.own = q.own /\ s.told = q.told
    /\ s.at = None /\ s.phase \in {"flight", "leave", "sleep", "work"}

LEMMA LeftIsGood ==
    ASSUME NEW q, GoodCall(q), q.phase \notin {"new", "done"},
           NEW v \in {"done", "failed"}, NEW h \in BOOLEAN,
           NEW s, s = Left(Rested(q), v, h)
    PROVE  GoodCall(s) /\ Goes(s, q)
<1>1. q \in CallRecords
  BY DEF GoodCall
<1>2. /\ s \in CallRecords /\ s.kind = q.kind /\ s.own = q.own /\ s.told = q.told
      /\ s.lost = q.lost /\ s.stmt = "none" /\ s.at = None /\ s.phase = "leave" /\ ~ s.pooled
  BY <1>1, LeftFields
<1>3. QED
  BY <1>2 DEF GoodCall, Goes, PhaseFits, StatementFits, PlacesFit, StepsFit, Ended

LEMMA SentIsGood ==
    ASSUME NEW q, GoodCall(q), q.own # None, q.phase \in {"flight", "work"}, q.at = None,
           q.kind = "transaction", NEW stmt \in {"commit", "rollback"},
           NEW s, s = Sent(q, stmt)
    PROVE  GoodCall(s) /\ Goes(s, q) /\ InTransaction(s)
<1>1. q \in CallRecords
  BY DEF GoodCall
<1>2. /\ s \in CallRecords /\ s.kind = q.kind /\ s.own = q.own /\ s.told = q.told
      /\ s.lost = q.lost /\ s.stmt = stmt /\ s.at = q.at /\ s.phase = "flight" /\ ~ s.pooled
      /\ s.written = q.written /\ s.steps = q.steps
  BY <1>1, SentFields
<1>3. StepsFit(s)
  <2>1. q.written \in Nat /\ q.steps \in Nat
    BY <1>1, BoundsAssumption DEF CallRecords, Counts
  <2>2. q.written + (IF q.stmt = "write" THEN 1 ELSE 0) <= q.steps
    BY DEF GoodCall, StepsFit, OnClient, Ended
  <2>3. q.written <= q.steps
    BY <2>1, <2>2
  <2>4. QED
    BY <1>2, <2>1, <2>3 DEF StepsFit
<1>4. QED
  BY <1>2, <1>3 DEF GoodCall, Goes, InTransaction, PhaseFits, StatementFits, PlacesFit, Ended

LEMMA ThrownIsGood ==
    ASSUME NEW q, GoodCall(q), q.own # None, q.phase \in {"waiting", "flight", "work"},
           q.kind = "transaction", NEW s, s = Thrown(Sent(q, "rollback"))
    PROVE  GoodCall(s) /\ Goes(s, q) /\ InTransaction(s)
<1>1. q \in CallRecords
  BY DEF GoodCall
<1>2. /\ s \in CallRecords /\ s.kind = q.kind /\ s.own = q.own /\ s.told = q.told
      /\ s.lost = q.lost /\ s.stmt = "rollback" /\ s.at = None /\ s.phase = "flight"
      /\ ~ s.pooled /\ s.written = 0 /\ s.steps = 0
  BY <1>1, ThrownFields
<1>3. QED
  BY <1>2 DEF GoodCall, Goes, InTransaction, PhaseFits, StatementFits, PlacesFit, StepsFit, Ended

LEMMA AsleepIsGood ==
    ASSUME NEW q, GoodCall(q), q.phase \in {"waiting", "flight"}, q.attempt < MaxAttempts,
           q.stmt \in {"select", "write"}, NEW s, s = Asleep(q)
    PROVE  GoodCall(s) /\ Goes(s, q) /\ (InTransaction(q) => InTransaction(s))
<1>1. q \in CallRecords
  BY DEF GoodCall
<1>2. /\ s \in CallRecords /\ s.kind = q.kind /\ s.own = q.own /\ s.told = q.told
      /\ s.lost = q.lost /\ s.stmt = q.stmt /\ s.at = None /\ s.phase = "sleep"
      /\ s.pooled = q.pooled /\ s.written = q.written /\ s.steps = q.steps
      /\ s.attempt = q.attempt
  BY <1>1, AsleepFields
<1>3. QED
  BY <1>2 DEF GoodCall, Goes, InTransaction, PhaseFits, StatementFits, PlacesFit, StepsFit, Ended

LEMMA WorkingIsGood ==
    ASSUME NEW q, GoodCall(q), q.own # None, q.phase \in {"waiting", "flight"},
           NEW h \in BOOLEAN, NEW n \in Nat,
           n <= q.written + (IF q.stmt = "write" THEN 1 ELSE 0),
           NEW s, s = Working(Rested(q), h, n)
    PROVE  GoodCall(s) /\ Goes(s, q) /\ (q.kind = "transaction" => InTransaction(s))
<1>1. q \in CallRecords
  BY DEF GoodCall
<1>2. q.written \in Nat /\ q.steps \in Nat /\ q.steps <= MaxSteps
  BY <1>1, BoundsAssumption DEF CallRecords, Counts
<1>3. n <= q.steps
  BY <1>2 DEF GoodCall, StepsFit, PlacesFit, Ended
<1>4. n \in Counts
  BY <1>2, <1>3, BoundsAssumption DEF Counts
<1>5. /\ s \in CallRecords /\ s.kind = q.kind /\ s.own = q.own /\ s.told = q.told
      /\ s.lost = q.lost /\ s.stmt = "none" /\ s.at = None /\ s.phase = "work"
      /\ ~ s.pooled /\ s.written = n /\ s.steps = q.steps
  BY <1>1, <1>4, WorkingFields
<1>6. StepsFit(s)
  BY <1>3, <1>5 DEF StepsFit
<1>7. QED
  BY <1>5, <1>6 DEF GoodCall, Goes, InTransaction, PhaseFits, StatementFits, PlacesFit, Ended

\* Whatever comes of a statement that failed, the call is good, and a transaction
\* goes on until its ROLLBACK.
LEMMA FailingIsGood ==
    ASSUME NEW q, GoodCall(q), q.phase \in {"waiting", "flight"}, NEW error, NEW s,
           Failing(q, error, s)
    PROVE  /\ GoodCall(s) /\ Goes(s, q)
           /\ q.own # None /\ q.kind = "transaction" /\ q.stmt # "rollback" => InTransaction(s)
<1> DEFINE Goal == /\ GoodCall(s) /\ Goes(s, q)
                   /\ q.own # None /\ q.kind = "transaction" /\ q.stmt # "rollback" =>
                        InTransaction(s)
<1>1. CASE q.stmt \in {"begin", "commit"} /\ s = Sent(q, "rollback")
  <2>1. q.own # None /\ q.phase \in {"flight", "work"} /\ q.at = None /\ q.kind = "transaction"
    BY <1>1 DEF GoodCall, StatementFits, PhaseFits, PlacesFit
  <2>2. QED
    BY <1>1, <2>1, SentIsGood
<1>2. CASE q.stmt \in {"none", "rollback"} /\ s = Left(Rested(q), "failed", FALSE)
  <2>1. q.own # None => q.stmt = "rollback"
    BY <1>2 DEF GoodCall, PhaseFits, StatementFits
  <2>2. QED
    BY <1>2, <2>1, LeftIsGood
<1>3. CASE q.stmt \in {"select", "write"} /\ q.attempt < MaxAttempts /\ s = Asleep(q)
  <2>1. q.kind = "transaction" => InTransaction(q)
    BY <1>3 DEF InTransaction
  <2>2. QED
    BY <1>3, <2>1, AsleepIsGood
<1>4. CASE q.own # None /\ q.kind = "transaction" /\ s = Thrown(Sent(q, "rollback"))
  BY <1>4, ThrownIsGood
<1>5. CASE q.own # None /\ \E h \in BOOLEAN : s = Working(Rested(q), h, q.written)
  <2>1. q.written \in Nat
    BY BoundsAssumption DEF GoodCall, CallRecords, Counts
  <2>2. q.written <= q.written + (IF q.stmt = "write" THEN 1 ELSE 0)
    BY <2>1
  <2>3. PICK h \in BOOLEAN : s = Working(Rested(q), h, q.written)
    BY <1>5
  <2>4. QED
    BY <1>5, <2>1, <2>2, <2>3, WorkingIsGood
<1>6. CASE (q.own = None \/ q.kind # "transaction") /\ s = Left(Rested(q), "failed", FALSE)
  BY <1>6, LeftIsGood
<1>7. QED
  BY <1>1, <1>2, <1>3, <1>4, <1>5, <1>6 DEF Failing

\* Whatever comes of a statement that succeeded, the call is good, and a
\* transaction goes on until its COMMIT or its ROLLBACK.
LEMMA SucceedingIsGood ==
    ASSUME NEW q, GoodCall(q), q.phase = "flight", NEW s, Succeeding(q, s)
    PROVE  /\ GoodCall(s) /\ Goes(s, q)
           /\ q.own # None /\ q.kind = "transaction" /\ q.stmt \notin {"commit", "rollback"} =>
                InTransaction(s)
<1>0. q.written \in Nat /\ q.hid \in BOOLEAN
  BY BoundsAssumption DEF GoodCall, CallRecords, Counts
<1>1. CASE q.stmt = "begin" /\ s = Working(Rested(q), q.hid, q.written)
  <2>1. q.own # None
    BY <1>1 DEF GoodCall, StatementFits, PhaseFits
  <2>2. q.written <= q.written + (IF q.stmt = "write" THEN 1 ELSE 0)
    BY <1>0
  <2>3. QED
    BY <1>0, <1>1, <2>1, <2>2, WorkingIsGood
<1>2. CASE q.stmt \in {"commit", "rollback"} /\ \E v \in {"done", "failed"}, h \in BOOLEAN :
                                                    s = Left(Rested(q), v, h)
  BY <1>2, LeftIsGood
<1>3. CASE q.own # None /\ s = Working(Rested(q), q.hid,
                                IF q.stmt = "write" THEN q.written + 1 ELSE q.written)
  <2> DEFINE n == IF q.stmt = "write" THEN q.written + 1 ELSE q.written
  <2>1. n \in Nat /\ n <= q.written + (IF q.stmt = "write" THEN 1 ELSE 0)
    BY <1>0
  <2>2. s = Working(Rested(q), q.hid, n)
    BY <1>3
  <2> HIDE DEF n
  <2>3. QED
    BY <1>0, <1>3, <2>1, <2>2, WorkingIsGood
<1>4. CASE q.own = None /\ s = Left(Rested(q), "done", q.hid)
  BY <1>0, <1>4, LeftIsGood
<1>5. QED
  BY <1>0, <1>1, <1>2, <1>3, <1>4 DEF Succeeding

-----------------------------------------------------------------------------
(* The calls, the queue and the connections after a step of caller c, which    *)
(* was the call q and becomes the call s.                                      *)

LEMMA CallsStep ==
    ASSUME IInv, NEW c \in Callers, NEW s, GoodCall(s), call' = [call EXCEPT ![c] = s]
    PROVE  /\ call' \in [Callers -> CallRecords] /\ CallsFit' /\ call'[c] = s
           /\ \A d \in Callers \ {c} : call'[d] = call[d]
<1>1. call \in [Callers -> CallRecords] /\ s \in CallRecords
  BY DEF IInv, GoodCall
<1>2. /\ call' \in [Callers -> CallRecords] /\ call'[c] = s
      /\ \A d \in Callers \ {c} : call'[d] = call[d]
  BY <1>1
<1>3. \A d \in Callers : GoodCall(call'[d])
  BY <1>2 DEF IInv, CallsFit
<1>4. QED
  BY <1>2, <1>3 DEF CallsFit

LEMMA StillWaiting ==
    ASSUME IInv, NEW c \in Callers, NEW s, call' = [call EXCEPT ![c] = s],
           call[c].phase # "waiting", waiters' = waiters
    PROVE  WaitersWait'
<1>1. \A i \in DOMAIN waiters : waiters[i] \in Callers /\ waiters[i] # c
  BY DEF IInv, WaitersWait, Phase
<1>2. \A i \in DOMAIN waiters : call'[waiters[i]] = call[waiters[i]]
  BY <1>1 DEF IInv
<1>3. QED
  BY <1>1, <1>2 DEF IInv, WaitersWait, Phase

LEMMA LastInLine ==
    ASSUME IInv, NEW c \in Callers, NEW s, call' = [call EXCEPT ![c] = s],
           call[c].phase # "waiting", s.phase = "waiting", waiters' = Append(waiters, c)
    PROVE  WaitersWait'
<1> DEFINE n == Len(waiters)
<1>1. waiters \in Seq(Callers) /\ n \in Nat /\ DOMAIN waiters = 1..n
  BY DEF IInv, WaitersWait
<1>2. \A i \in 1..n : waiters[i] \in Callers /\ waiters[i] # c
  BY <1>1 DEF IInv, WaitersWait, Phase
<1>3. /\ waiters' \in Seq(Callers) /\ DOMAIN waiters' = 1..(n + 1)
      /\ waiters'[n + 1] = c /\ \A i \in 1..n : waiters'[i] = waiters[i]
  BY <1>1
<1>4. \A i \in 1..(n + 1) : Phase(waiters[i])' = "waiting"
  <2>1. call'[c] = s /\ \A d \in Callers \ {c} : call'[d] = call[d]
    BY DEF IInv
  <2>2. QED
    BY <1>1, <1>2, <1>3, <2>1 DEF IInv, WaitersWait, Phase
<1>5. \A i, j \in 1..(n + 1) : waiters'[i] = waiters'[j] => i = j
  <2>1. \A i, j \in 1..n : waiters[i] = waiters[j] => i = j
    BY <1>1 DEF IInv, WaitersWait
  <2>2. QED
    BY <1>1, <1>2, <1>3, <2>1
<1>6. QED
  BY <1>3, <1>4, <1>5 DEF WaitersWait

LEMMA RemovedAt ==
    ASSUME NEW S, NEW w \in Seq(S), NEW i \in DOMAIN w
    PROVE  /\ RemoveAt(w, i) \in Seq(S) /\ DOMAIN RemoveAt(w, i) = 1..(Len(w) - 1)
           /\ \A j \in 1..(Len(w) - 1) : RemoveAt(w, i)[j] = w[IF j < i THEN j ELSE j + 1]
<1> DEFINE n == Len(w)
           a == SubSeq(w, 1, i - 1)
           b == SubSeq(w, i + 1, n)
<1>1. n \in Nat /\ DOMAIN w = 1..n /\ i \in 1..n
  OBVIOUS
<1>2. /\ a \in Seq(S) /\ Len(a) = i - 1 /\ \A j \in 1..(i - 1) : a[j] = w[j]
      /\ b \in Seq(S) /\ Len(b) = n - i /\ \A j \in 1..(n - i) : b[j] = w[i + j]
  BY <1>1
<1> HIDE DEF a, b
<1>3. /\ a \o b \in Seq(S) /\ Len(a \o b) = n - 1
      /\ \A j \in 1..(n - 1) : (a \o b)[j] = IF j < i THEN a[j] ELSE b[j - (i - 1)]
  <2>1. /\ a \o b \in Seq(S) /\ Len(a \o b) = Len(a) + Len(b)
        /\ \A j \in 1..(Len(a) + Len(b)) : (a \o b)[j] = IF j <= Len(a) THEN a[j] ELSE b[j - Len(a)]
    BY <1>2, ConcatProperties
  <2>2. Len(a) + Len(b) = n - 1 /\ \A j \in 1..(n - 1) : j <= Len(a) <=> j < i
    BY <1>1, <1>2
  <2>3. QED
    BY <1>2, <2>1, <2>2
<1>4. \A j \in 1..(n - 1) : (a \o b)[j] = w[IF j < i THEN j ELSE j + 1]
  <2> TAKE j \in 1..(n - 1)
  <2>1. CASE j < i
    BY <1>1, <1>2, <1>3, <2>1
  <2>2. CASE ~ (j < i)
    <3>1. j - (i - 1) \in 1..(n - i) /\ i + (j - (i - 1)) = j + 1
      BY <1>1, <2>2
    <3>2. QED
      BY <1>2, <1>3, <2>2, <3>1
  <2>3. QED
    BY <2>1, <2>2
<1>5. RemoveAt(w, i) = a \o b
  BY DEF RemoveAt, a, b
<1>6. DOMAIN (a \o b) = 1..(n - 1)
  BY <1>3
<1>7. QED
  BY <1>3, <1>4, <1>5, <1>6

LEMMA OutOfLine ==
    ASSUME IInv, NEW c \in Callers, NEW s, call' = [call EXCEPT ![c] = s],
           NEW i \in DOMAIN waiters, waiters[i] = c, waiters' = RemoveAt(waiters, i)
    PROVE  WaitersWait'
<1> DEFINE n == Len(waiters)
           from(j) == IF j < i THEN j ELSE j + 1
<1>1. waiters \in Seq(Callers) /\ n \in Nat /\ DOMAIN waiters = 1..n /\ i \in 1..n
  BY DEF IInv, WaitersWait
<1>2. /\ waiters' \in Seq(Callers) /\ DOMAIN waiters' = 1..(n - 1)
      /\ \A j \in 1..(n - 1) : waiters'[j] = waiters[from(j)]
  BY <1>1, RemovedAt
<1>3. \A j \in 1..(n - 1) : from(j) \in 1..n /\ from(j) # i
  BY <1>1
<1>4. \A j, k \in 1..(n - 1) : from(j) = from(k) => j = k
  BY <1>1
<1> HIDE DEF from
<1>5. \A j, k \in 1..n : waiters[j] = waiters[k] => j = k
  BY <1>1 DEF IInv, WaitersWait
<1>6. \A j \in 1..(n - 1) : waiters'[j] \in Callers \ {c} /\ Phase(waiters'[j]) = "waiting"
  BY <1>1, <1>2, <1>3, <1>5 DEF IInv, WaitersWait
<1>7. \A d \in Callers \ {c} : call'[d] = call[d]
  BY DEF IInv
<1>8. \A j \in 1..(n - 1) : Phase(waiters[j])' = "waiting"
  BY <1>6, <1>7 DEF Phase
<1>9. \A j, k \in 1..(n - 1) : waiters'[j] = waiters'[k] => j = k
  BY <1>2, <1>3, <1>4, <1>5
<1>10. QED
  BY <1>2, <1>8, <1>9 DEF WaitersWait

\* The session t that connection k becomes with the call s of caller c.
SessionFits(c, k, s, t) ==
    /\ t \in Sessions /\ t.holder \in {c, None}
    /\ t.holder = c <=> k \in {s.own, s.at}
    /\ t.holder = None => t.tx = "none" /\ t.link # "broken"
    /\ t.link # "open" => t.tx = "none"
    /\ t.link = "broken" => k = s.own
    /\ t.tx # "none" => InTransaction(s) /\ k = s.own
    /\ t.tx # "open" => t.writes = NoWrites
    /\ \A d \in Callers : t.writes[d] > 0 => t.holder = d

\* The other connections stay with the caller as they are.
OthersFit(c, k, s) ==
    \A j \in Conns \ {k} : /\ (j = s.own <=> j = call[c].own) /\ (j = s.at <=> j = call[c].at)
                           /\ j = s.own /\ conn[j].tx # "none" => InTransaction(s)

\* One connection may change with the call.
LEMMA ConnStep ==
    ASSUME IInv, NEW c \in Callers, NEW k \in Conns, NEW s, NEW t,
           call' = [call EXCEPT ![c] = s], conn' = [conn EXCEPT ![k] = t],
           conn[k].holder \in {c, None}, SessionFits(c, k, s, t), OthersFit(c, k, s)
    PROVE  ConnsHeld'
<1>1. c # None /\ call \in [Callers -> CallRecords] /\ conn \in [Conns -> Sessions]
  BY CallersAssumption DEF IInv, ConnsHeld
<1>2. call'[c] = s /\ \A d \in Callers \ {c} : call'[d] = call[d]
  BY <1>1
<1>3. conn' \in [Conns -> Sessions] /\ conn'[k] = t /\ \A j \in Conns \ {k} : conn'[j] = conn[j]
  BY <1>1 DEF SessionFits
<1>4. ConnFits(k)' /\ HeldByUser(k)'
  <2>1. ConnFits(k)'
    BY <1>1, <1>2, <1>3 DEF ConnFits, SessionFits
  <2>2. \A d \in Callers \ {c} : k \notin {call'[d].own, call'[d].at}
    BY <1>1, <1>2, CallersAssumption DEF IInv, ConnsHeld, HeldByUser
  <2>3. conn'[k].holder # None => k \in {call'[conn'[k].holder].own, call'[conn'[k].holder].at}
    BY <1>2, <1>3 DEF SessionFits
  <2>4. \A d \in Callers : k \in {call'[d].own, call'[d].at} => conn'[k].holder = d
    BY <1>2, <1>3, <2>2 DEF SessionFits
  <2>5. QED
    BY <2>1, <2>3, <2>4 DEF HeldByUser
<1>5. ASSUME NEW j \in Conns \ {k}
      PROVE  ConnFits(j)' /\ HeldByUser(j)'
  <2>1. ConnFits(j) /\ HeldByUser(j) /\ conn[j] \in Sessions
    BY <1>1 DEF IInv, ConnsHeld
  <2>2. conn[j].holder = c => j \in {call[c].own, call[c].at}
    BY <1>1, <2>1 DEF HeldByUser
  <2>3. HeldByUser(j)'
    BY <1>1, <1>2, <1>3, <2>1, <2>2 DEF HeldByUser, Sessions, OthersFit
  <2>4. ConnFits(j)'
    BY <1>1, <1>2, <1>3, <2>1, <2>2 DEF ConnFits, Sessions, OthersFit
  <2>5. QED
    BY <2>3, <2>4
<1>6. QED
  BY <1>3, <1>4, <1>5 DEF ConnsHeld

\* No connection changes, and the call keeps those it has.
LEMMA ConnsKept ==
    ASSUME IInv, NEW c \in Callers, NEW s, call' = [call EXCEPT ![c] = s], conn' = conn,
           s.own = call[c].own, s.at = call[c].at,
           \A j \in Conns : j = s.own /\ conn[j].tx # "none" => InTransaction(s)
    PROVE  ConnsHeld'
<1>1. c # None /\ call \in [Callers -> CallRecords] /\ conn \in [Conns -> Sessions]
  BY CallersAssumption DEF IInv, ConnsHeld
<1>2. call'[c] = s /\ \A d \in Callers \ {c} : call'[d] = call[d]
  BY <1>1
<1>3. ASSUME NEW j \in Conns
      PROVE  ConnFits(j)' /\ HeldByUser(j)'
  <2>1. ConnFits(j) /\ HeldByUser(j) /\ conn[j] \in Sessions
    BY <1>1 DEF IInv, ConnsHeld
  <2>2. HeldByUser(j)'
    BY <1>1, <1>2, <2>1 DEF HeldByUser, Sessions
  <2>3. ConnFits(j)'
    BY <1>1, <1>2, <2>1 DEF ConnFits, Sessions
  <2>4. QED
    BY <2>2, <2>3
<1>4. QED
  BY <1>1, <1>3 DEF ConnsHeld

-----------------------------------------------------------------------------
(* The actions *)

\* What is known of a caller before its step.
LEMMA Before ==
    ASSUME IInv, NEW c \in Callers
    PROVE  /\ call[c] \in CallRecords /\ GoodCall(call[c])
           /\ call[c].written \in Nat /\ call[c].steps \in Nat /\ call[c].attempt \in Nat
           /\ \A k \in Conns : /\ conn[k] \in Sessions /\ ConnFits(k)
                               /\ conn[k].holder = c <=> k \in {call[c].own, call[c].at}
<1>1. call[c] \in CallRecords /\ GoodCall(call[c])
  BY DEF IInv, CallsFit
<1>2. call[c].written \in Nat /\ call[c].steps \in Nat /\ call[c].attempt \in Nat
  BY <1>1, AttemptsAssumption, BoundsAssumption DEF CallRecords, Counts, Attempts
<1>3. ASSUME NEW k \in Conns
      PROVE  /\ conn[k] \in Sessions /\ ConnFits(k)
             /\ conn[k].holder = c <=> k \in {call[c].own, call[c].at}
  <2>1. conn[k] \in Sessions /\ ConnFits(k) /\ HeldByUser(k)
    BY DEF IInv, ConnsHeld
  <2>2. QED
    BY <2>1, CallersAssumption DEF HeldByUser
<1>4. QED
  BY <1>1, <1>2, <1>3

\* The rest stays as it is.
LEMMA RestKept ==
    ASSUME IInv, UNCHANGED <<pool, applied, orphans, breaks>>
    PROVE  RestTyped'
BY DEF IInv, RestTyped

LEMMA WantedIsGood ==
    ASSUME NEW q, GoodCall(q), q.phase = "new", NEW kind \in OnClient,
           NEW s, s = Wanted(q, kind)
    PROVE  GoodCall(s) /\ s.own = None /\ s.at = None /\ s.phase = "waiting"
<1>1. /\ q \in CallRecords /\ q.own = None /\ q.at = None /\ q.stmt = "none" /\ ~ q.pooled
      /\ q.written = 0 /\ q.steps = 0 /\ kind \in Kinds /\ kind # "none"
  BY DEF NewCall, GoodCall, PhaseFits, Kinds, OnClient
<1>2. /\ s \in CallRecords /\ s.phase = "waiting" /\ s.kind = kind /\ s.own = None
      /\ s.at = None /\ s.stmt = "none" /\ ~ s.pooled /\ s.written = 0 /\ s.steps = 0
  BY <1>1, WantedFields
<1>3. QED
  BY <1>1, <1>2 DEF GoodCall, PhaseFits, StatementFits, PlacesFit, StepsFit, Ended

LEMMA AskedIsGood ==
    ASSUME NEW q, GoodCall(q), q.phase = "new", NEW stmt \in {"select", "write"},
           NEW kind \in Kinds \ OnClient, NEW s, s = Asked(q, stmt, kind)
    PROVE  GoodCall(s) /\ s.own = None /\ s.at = None /\ s.phase = "waiting"
<1>1. q \in CallRecords /\ q.own = None /\ q.at = None /\ kind # "none"
  BY DEF NewCall, GoodCall, PhaseFits, Kinds
<1>2. /\ s \in CallRecords /\ s.phase = "waiting" /\ s.kind = kind /\ s.own = None
      /\ s.at = None /\ s.stmt = stmt /\ s.pooled
  BY <1>1, AskedFields
<1>3. QED
  BY <1>1, <1>2 DEF GoodCall, PhaseFits, StatementFits, PlacesFit, StepsFit, Ended

LEMMA Starting ==
    ASSUME IInv, NEW c \in Callers, Start(c)
    PROVE  IInv'
<1>1. GoodCall(call[c]) /\ call[c].phase = "new" /\ conn' = conn
  BY Before DEF Start, Phase
<1>2. PICK kind \in Kinds :
        call' = [call EXCEPT ![c] =
                [(IF kind \in OnClient THEN [@ EXCEPT !.phase = "waiting"]
                  ELSE SendByPool(c, IF kind = "read" THEN "select" ELSE "write"))
                 EXCEPT !.kind = kind]]
  BY DEF Start
<1> DEFINE e == [(IF kind \in OnClient THEN [call[c] EXCEPT !.phase = "waiting"]
                  ELSE SendByPool(c, IF kind = "read" THEN "select" ELSE "write"))
                 EXCEPT !.kind = kind]
<1>3. call' = [call EXCEPT ![c] = e]
  BY <1>2
<1>4. GoodCall(e) /\ e.own = None /\ e.at = None /\ e.phase = "waiting"
  <2>1. CASE kind \in OnClient
    <3>1. e = Wanted(call[c], kind)
      BY <2>1 DEF Wanted
    <3> HIDE DEF e
    <3>2. QED
      BY <1>1, <2>1, <3>1, WantedIsGood
  <2>2. CASE kind \notin OnClient
    <3>1. PICK stmt \in {"select", "write"} : e = Asked(call[c], stmt, kind)
      BY <2>2 DEF SendByPool, Queued, Asked
    <3> HIDE DEF e
    <3>2. QED
      BY <1>1, <1>2, <2>2, <3>1, AskedIsGood
  <2>3. QED
    BY <2>1, <2>2
<1> HIDE DEF e
<1>5. call[c].own = None /\ call[c].at = None
  BY <1>1 DEF GoodCall, PhaseFits, NewCall
<1>6. call' \in [Callers -> CallRecords] /\ CallsFit'
  BY <1>3, <1>4, CallsStep
<1>7. WaitersWait'
  BY <1>1, <1>3, <1>4, LastInLine DEF Start
<1>8. ConnsHeld'
  BY <1>1, <1>3, <1>4, <1>5, ConnsKept, CallersAssumption
<1>9. RestTyped'
  BY RestKept DEF Start
<1>10. QED
  BY <1>6, <1>7, <1>8, <1>9 DEF IInv

\* A statement of a caller fails without the server, and no connection changes.
LEMMA FailingKeeps ==
    ASSUME IInv, NEW c \in Callers, NEW error, NEW s \in AfterFailure(c, error),
           call[c].phase \in {"waiting", "flight"}, call[c].at = None,
           \A j \in Conns : j = call[c].own => conn[j].tx = "none" \/ call[c].stmt # "rollback",
           call' = [call EXCEPT ![c] = s], conn' = conn
    PROVE  call' \in [Callers -> CallRecords] /\ CallsFit' /\ ConnsHeld'
<1>1. GoodCall(call[c]) /\ call[c] \in CallRecords
  BY Before
<1>2. Failing(call[c], error, s)
  BY <1>1, AfterFailureIs
<1>3. /\ GoodCall(s) /\ Goes(s, call[c])
      /\ call[c].own # None /\ call[c].kind = "transaction" /\ call[c].stmt # "rollback" =>
            InTransaction(s)
  BY <1>1, <1>2, FailingIsGood
<1>4. \A j \in Conns : j = s.own /\ conn[j].tx # "none" => InTransaction(s)
  <2> SUFFICES ASSUME NEW j \in Conns, j = call[c].own, conn[j].tx # "none"
               PROVE  InTransaction(s)
    BY <1>3 DEF Goes
  <2>1. conn[j].holder = c /\ ConnFits(j)
    BY Before
  <2>2. InTransaction(call[c]) /\ call[c].own # None
    BY <2>1, CallersAssumption DEF ConnFits
  <2>3. QED
    BY <1>3, <2>2 DEF InTransaction
<1>5. call' \in [Callers -> CallRecords] /\ CallsFit'
  BY <1>3, CallsStep
<1>6. s.own = call[c].own /\ s.at = call[c].at
  BY <1>3 DEF Goes
<1>7. ConnsHeld'
  BY <1>4, <1>6, ConnsKept
<1>8. QED
  BY <1>5, <1>7

LEMMA NotConnecting ==
    ASSUME IInv, NEW c \in Callers, CannotConnect(c)
    PROVE  IInv'
<1>0. PICK error : \E s \in AfterFailure(c, error) : call' = [call EXCEPT ![c] = s]
  BY DEF CannotConnect
<1>1. PICK s \in AfterFailure(c, error) : call' = [call EXCEPT ![c] = s]
  BY <1>0
<1>2. PICK i \in DOMAIN waiters : waiters[i] = c /\ waiters' = RemoveAt(waiters, i)
  BY DEF CannotConnect
<1>3. call[c].phase = "waiting" /\ call[c].at = None /\ call[c].stmt # "rollback" /\ conn' = conn
  BY Before DEF CannotConnect, Phase, GoodCall, PlacesFit, StatementFits
<1>4. call' \in [Callers -> CallRecords] /\ CallsFit' /\ ConnsHeld'
  BY <1>1, <1>3, FailingKeeps
<1>5. WaitersWait'
  BY <1>1, <1>2, OutOfLine
<1>6. RestTyped'
  BY RestKept DEF CannotConnect
<1>7. QED
  BY <1>4, <1>5, <1>6 DEF IInv

LEMMA FailingOnBroken ==
    ASSUME IInv, NEW c \in Callers, FailsOnBroken(c)
    PROVE  IInv'
<1>0. PICK error : \E s \in AfterFailure(c, error) : call' = [call EXCEPT ![c] = s]
  BY DEF FailsOnBroken
<1>1. PICK s \in AfterFailure(c, error) : call' = [call EXCEPT ![c] = s]
  BY <1>0
<1>2. GoodCall(call[c]) /\ call[c].phase = "flight" /\ conn[Via(c)].link = "broken" /\ conn' = conn
  BY Before DEF FailsOnBroken, Phase
<1>3. Via(c) \in Conns /\ Via(c) \in {call[c].own, call[c].at}
  BY <1>2 DEF Via, GoodCall, CallRecords, PhaseFits, PlacesFit
<1>4. Via(c) = call[c].own /\ conn[Via(c)].tx = "none"
  BY <1>2, <1>3, Before DEF ConnFits
<1>5. call[c].at = None
  BY <1>2, <1>4 DEF Via, GoodCall, PlacesFit
<1>6. call' \in [Callers -> CallRecords] /\ CallsFit' /\ ConnsHeld'
  BY <1>1, <1>2, <1>4, <1>5, FailingKeeps
<1>7. WaitersWait'
  BY <1>1, <1>2, StillWaiting DEF FailsOnBroken
<1>8. RestTyped'
  BY RestKept DEF FailsOnBroken
<1>9. QED
  BY <1>6, <1>7, <1>8 DEF IInv

LEMMA WokenIsGood ==
    ASSUME NEW q, GoodCall(q), q.phase = "sleep", NEW n \in Attempts,
           NEW p \in {"waiting", "flight"}, p = "waiting" <=> q.pooled,
           NEW s, s = Woken(q, n, p)
    PROVE  /\ GoodCall(s) /\ s.own = q.own /\ s.at = q.at /\ s.phase = p
           /\ InTransaction(q) => InTransaction(s)
<1>1. q \in CallRecords
  BY DEF GoodCall
<1>2. /\ s \in CallRecords /\ s.phase = p /\ s.kind = q.kind /\ s.own = q.own /\ s.at = q.at
      /\ s.stmt = q.stmt /\ s.pooled = q.pooled /\ s.written = q.written /\ s.steps = q.steps
  BY <1>1, WokenFields
<1>3. QED
  BY <1>1, <1>2
  DEF GoodCall, PhaseFits, StatementFits, PlacesFit, StepsFit, Ended, InTransaction

LEMMA Retrying ==
    ASSUME IInv, NEW c \in Callers, Retry(c)
    PROVE  IInv'
<1> DEFINE p == IF call[c].pooled THEN "waiting" ELSE "flight"
           n == call[c].attempt + 1
           s == Woken(call[c], n, p)
<1>1. GoodCall(call[c]) /\ call[c].phase = "sleep" /\ call[c].at = None /\ conn' = conn
  BY Before DEF Retry, Phase, GoodCall, PlacesFit
<1>2. n \in Attempts
  BY <1>1, Before, AttemptsAssumption DEF GoodCall, PhaseFits, Attempts
<1>3. call' = [call EXCEPT ![c] = s]
  BY DEF Retry, Woken
<1>4. p \in {"waiting", "flight"} /\ (p = "waiting" <=> call[c].pooled)
  OBVIOUS
<1>5. /\ GoodCall(s) /\ s.own = call[c].own /\ s.at = call[c].at /\ s.phase = p
      /\ InTransaction(call[c]) => InTransaction(s)
  <2> HIDE DEF n, p
  <2>1. QED
    BY <1>1, <1>2, <1>4, WokenIsGood
<1> HIDE DEF s
<1>6. \A j \in Conns : j = s.own /\ conn[j].tx # "none" => InTransaction(s)
  BY <1>5, Before DEF ConnFits
<1>7. call' \in [Callers -> CallRecords] /\ CallsFit'
  BY <1>3, <1>5, CallsStep
<1>8. WaitersWait'
  <2>1. CASE call[c].pooled
    BY <1>1, <1>3, <1>5, <2>1, LastInLine DEF Retry
  <2>2. CASE ~ call[c].pooled
    BY <1>1, <1>3, <2>2, StillWaiting DEF Retry
  <2>3. QED
    BY <2>1, <2>2
<1>9. ConnsHeld'
  BY <1>1, <1>3, <1>5, <1>6, ConnsKept
<1>10. RestTyped'
  BY RestKept DEF Retry
<1>11. QED
  BY <1>7, <1>8, <1>9, <1>10 DEF IInv

LEMMA WritingIsGood ==
    ASSUME NEW q, GoodCall(q), q.phase = "work", q.steps < MaxSteps,
           NEW s, s = Writing(q, q.steps + 1)
    PROVE  /\ GoodCall(s) /\ s.own = q.own /\ s.at = q.at /\ s.phase # "waiting"
           /\ InTransaction(q) => InTransaction(s)
<1>1. /\ q \in CallRecords /\ q.own # None /\ q.stmt = "none" /\ q.at = None
      /\ q.written \in Nat /\ q.steps \in Nat /\ q.steps + 1 \in Counts
      /\ q.written + 0 <= q.steps
  BY BoundsAssumption
  DEF GoodCall, PhaseFits, PlacesFit, StepsFit, CallRecords, Counts, Ended
<1>2. /\ s \in CallRecords /\ s.phase = "flight" /\ s.kind = q.kind /\ s.own = q.own
      /\ s.at = None /\ s.stmt = "write" /\ ~ s.pooled /\ s.written = q.written
      /\ s.steps = q.steps + 1
  BY <1>1, WritingFields
<1>3. s.written + 1 <= s.steps
  BY <1>1, <1>2
<1>4. StepsFit(s) /\ PhaseFits(s) /\ StatementFits(s) /\ PlacesFit(s)
  BY <1>1, <1>2, <1>3 DEF GoodCall, PhaseFits, StatementFits, PlacesFit, StepsFit, Ended
<1>5. QED
  BY <1>1, <1>2, <1>4 DEF GoodCall, InTransaction

LEMMA ReadingIsGood ==
    ASSUME NEW q, GoodCall(q), q.phase = "work", q.steps < MaxSteps,
           NEW s, s = Reading(q, q.steps + 1)
    PROVE  /\ GoodCall(s) /\ s.own = q.own /\ s.at = q.at /\ s.phase = "waiting"
           /\ InTransaction(q) => InTransaction(s)
<1>1. /\ q \in CallRecords /\ q.own # None /\ q.stmt = "none" /\ q.at = None
      /\ q.written \in Nat /\ q.steps \in Nat /\ q.steps + 1 \in Counts
      /\ q.written + 0 <= q.steps
  BY BoundsAssumption
  DEF GoodCall, PhaseFits, PlacesFit, StepsFit, CallRecords, Counts, Ended
<1>2. /\ s \in CallRecords /\ s.phase = "waiting" /\ s.kind = q.kind /\ s.own = q.own
      /\ s.at = None /\ s.stmt = "select" /\ s.pooled /\ s.written = q.written
      /\ s.steps = q.steps + 1
  BY <1>1, ReadingFields
<1>3. s.written + 0 <= s.steps
  BY <1>1, <1>2
<1>4. StepsFit(s) /\ PhaseFits(s) /\ StatementFits(s) /\ PlacesFit(s)
  BY <1>1, <1>2, <1>3 DEF GoodCall, PhaseFits, StatementFits, PlacesFit, StepsFit, Ended
<1>5. QED
  BY <1>1, <1>2, <1>4 DEF GoodCall, InTransaction

LEMMA SendingInWork ==
    ASSUME IInv, NEW c \in Callers, WorkSends(c)
    PROVE  IInv'
<1>1. GoodCall(call[c]) /\ call[c].phase = "work" /\ call[c].steps < MaxSteps /\ conn' = conn
  BY Before DEF WorkSends, Phase
<1>2. PICK s : /\ \/ s = Writing(call[c], call[c].steps + 1) /\ waiters' = waiters
                  \/ s = Reading(call[c], call[c].steps + 1) /\ waiters' = Append(waiters, c)
               /\ call' = [call EXCEPT ![c] = s]
  BY DEF WorkSends, Send, Sent, SendByPool, Queued, Writing, Reading
<1>3. /\ GoodCall(s) /\ s.own = call[c].own /\ s.at = call[c].at
      /\ InTransaction(call[c]) => InTransaction(s)
      /\ (s.phase = "waiting" /\ waiters' = Append(waiters, c)) \/ waiters' = waiters
  BY <1>1, <1>2, WritingIsGood, ReadingIsGood
<1>4. \A j \in Conns : j = s.own /\ conn[j].tx # "none" => InTransaction(s)
  BY <1>3, Before DEF ConnFits
<1>5. call' \in [Callers -> CallRecords] /\ CallsFit'
  BY <1>2, <1>3, CallsStep
<1>6. WaitersWait'
  BY <1>1, <1>2, <1>3, LastInLine, StillWaiting
<1>7. ConnsHeld'
  BY <1>1, <1>2, <1>3, <1>4, ConnsKept
<1>8. RestTyped'
  BY RestKept DEF WorkSends
<1>9. QED
  BY <1>5, <1>6, <1>7, <1>8 DEF IInv

LEMMA EndingWork ==
    ASSUME IInv, NEW c \in Callers, WorkEnds(c)
    PROVE  IInv'
<1> DEFINE q == call[c]
<1>1. GoodCall(q) /\ q \in CallRecords /\ q.phase = "work" /\ conn' = conn
  BY Before DEF WorkEnds, Phase
<1>2. q.own # None /\ q.at = None /\ q.hid \in BOOLEAN
  BY <1>1 DEF GoodCall, PhaseFits, PlacesFit, CallRecords
<1>3. PICK s \in {Throw(c), IF q.kind = "transaction" THEN Send(c, "commit") ELSE Leave(c, "done")} :
        call' = [call EXCEPT ![c] = s]
  BY DEF WorkEnds
<1>4. \/ q.kind = "transaction" /\ s = Thrown(Sent(q, "rollback"))
      \/ q.kind = "transaction" /\ s = Sent(q, "commit")
      \/ q.kind # "transaction" /\ s = Left(Rested(q), "failed", FALSE)
      \/ q.kind # "transaction" /\ s = Left(Rested(q), "done", q.hid)
  BY <1>1, <1>3, ThrowIs, LeaveIs DEF Send, Sent
<1> HIDE DEF q
<1>5. GoodCall(s) /\ Goes(s, q) /\ (q.kind = "transaction" => InTransaction(s))
  BY <1>1, <1>2, <1>4, ThrownIsGood, SentIsGood, LeftIsGood
<1> USE DEF q
<1>6. \A j \in Conns : j = s.own /\ conn[j].tx # "none" => InTransaction(s)
  BY <1>5, Before DEF ConnFits, Goes, InTransaction
<1>7. call' \in [Callers -> CallRecords] /\ CallsFit'
  BY <1>3, <1>5, CallsStep
<1>8. WaitersWait'
  BY <1>1, <1>3, StillWaiting DEF WorkEnds
<1>9. ConnsHeld'
  BY <1>1, <1>2, <1>3, <1>5, <1>6, ConnsKept DEF Goes
<1>10. RestTyped'
  BY RestKept DEF WorkEnds
<1>11. QED
  BY <1>7, <1>8, <1>9, <1>10 DEF IInv

LEMMA PlaceIsFree ==
    ASSUME NEW k \in Places
    PROVE  k \in Conns /\ conn[k].holder = None
BY DEF Places

LEMMA ServedIsGood ==
    ASSUME NEW q, GoodCall(q), q.phase = "waiting", q.pooled, NEW k \in Conns, k # q.own,
           k # None, NEW s, s = Served(q, k)
    PROVE  /\ GoodCall(s) /\ s.own = q.own /\ s.at = k /\ s.phase = "flight"
           /\ InTransaction(q) => InTransaction(s)
<1>1. q \in CallRecords /\ q.at = None /\ q.stmt \in {"select", "write"}
  BY DEF GoodCall, PlacesFit, StatementFits
<1>2. /\ s \in CallRecords /\ s.phase = "flight" /\ s.kind = q.kind /\ s.own = q.own
      /\ s.at = k /\ s.stmt = q.stmt /\ s.written = q.written /\ s.steps = q.steps
  BY <1>1, ServedFields
<1>3. s.pooled
  BY <1>1, ServedFields
<1>4. StepsFit(s) /\ PhaseFits(s) /\ StatementFits(s) /\ PlacesFit(s)
  BY <1>1, <1>2, <1>3 DEF GoodCall, PhaseFits, StatementFits, PlacesFit, StepsFit, Ended
<1>5. QED
  BY <1>1, <1>2, <1>4 DEF GoodCall, InTransaction

LEMMA BegunIsGood ==
    ASSUME NEW q, GoodCall(q), q.phase = "waiting", ~ q.pooled, q.kind = "transaction",
           NEW k \in Conns, k # None, NEW s, s = Begun(q, k)
    PROVE  GoodCall(s) /\ q.own = None /\ q.at = None /\ s.own = k /\ s.at = None
           /\ s.phase = "flight"
<1>1. /\ q \in CallRecords /\ q.own = None /\ q.at = None /\ q.stmt = "none"
      /\ q.written + 0 <= q.steps
  BY DEF GoodCall, PhaseFits, PlacesFit, StepsFit, OnClient, Ended
<1>2. /\ s \in CallRecords /\ s.phase = "flight" /\ s.kind = "transaction" /\ s.own = k
      /\ s.at = None /\ s.stmt = "begin" /\ ~ s.pooled /\ s.written = q.written
      /\ s.steps = q.steps
  BY <1>1, BegunFields
<1>3. s.written + 0 <= s.steps
  BY <1>1, <1>2
<1>4. StepsFit(s) /\ PhaseFits(s) /\ StatementFits(s) /\ PlacesFit(s)
  BY <1>1, <1>2, <1>3 DEF PhaseFits, StatementFits, PlacesFit, StepsFit, Ended, OnClient
<1>5. QED
  BY <1>1, <1>2, <1>4 DEF GoodCall

LEMMA OpenedIsGood ==
    ASSUME NEW q, GoodCall(q), q.phase = "waiting", ~ q.pooled, q.kind # "transaction",
           NEW k \in Conns, k # None, NEW s, s = Opened(q, k)
    PROVE  GoodCall(s) /\ q.own = None /\ q.at = None /\ s.own = k /\ s.at = None
           /\ s.phase = "work"
<1>1. /\ q \in CallRecords /\ q.own = None /\ q.at = None /\ q.stmt = "none"
      /\ q.kind = "session" /\ q.written + 0 <= q.steps
  BY DEF GoodCall, PhaseFits, PlacesFit, StepsFit, OnClient, Ended
<1>2. /\ s \in CallRecords /\ s.phase = "work" /\ s.kind = "session" /\ s.own = k
      /\ s.at = None /\ s.stmt = "none" /\ ~ s.pooled /\ s.written = q.written
      /\ s.steps = q.steps
  BY <1>1, OpenedFields
<1>3. s.written + 0 <= s.steps
  BY <1>1, <1>2
<1>4. StepsFit(s) /\ PhaseFits(s) /\ StatementFits(s) /\ PlacesFit(s)
  BY <1>1, <1>2, <1>3 DEF PhaseFits, StatementFits, PlacesFit, StepsFit, Ended, OnClient
<1>5. QED
  BY <1>1, <1>2, <1>4 DEF GoodCall

LEMMA Serving ==
    ASSUME IInv, NEW c \in Callers, Serve(c)
    PROVE  IInv'
<1>1. PICK k \in Places :
        /\ conn' = [conn EXCEPT ![k].link = "open", ![k].holder = c]
        /\ call' = [call EXCEPT ![c] =
            IF call[c].pooled THEN [@ EXCEPT !.at = k, !.phase = "flight"]
            ELSE IF call[c].kind = "transaction" THEN [Send(c, "begin") EXCEPT !.own = k]
            ELSE [@ EXCEPT !.own = k, !.phase = "work"]]
  BY DEF Serve
<1>2. k \in Conns /\ conn[k].holder = None /\ k # None
  BY PlaceIsFree, CallersAssumption
<1>3. waiters \in Seq(Callers) /\ waiters # <<>> /\ waiters[1] = c /\ 1 \in DOMAIN waiters
  BY DEF Serve, IInv, WaitersWait
<1>4. GoodCall(call[c]) /\ call[c].phase = "waiting"
  BY <1>3, Before DEF IInv, WaitersWait, Phase
<1> DEFINE s == IF call[c].pooled THEN Served(call[c], k)
                ELSE IF call[c].kind = "transaction" THEN Begun(call[c], k)
                ELSE Opened(call[c], k)
           t == [conn[k] EXCEPT !.link = "open", !.holder = c]
<1>5. call' = [call EXCEPT ![c] = s]
  BY <1>1 DEF Served, Begun, Opened, Send, Sent
<1>6. k # call[c].own /\ k # call[c].at
  BY <1>2, Before, CallersAssumption
<1>7. /\ GoodCall(s)
      /\ \/ s.own = call[c].own /\ s.at = k /\ call[c].at = None
            /\ (InTransaction(call[c]) => InTransaction(s))
         \/ s.own = k /\ s.at = None /\ call[c].own = None /\ call[c].at = None
  <2>1. CASE call[c].pooled
    <3>1. call[c].at = None
      BY <1>4 DEF GoodCall, PlacesFit
    <3>2. s = Served(call[c], k)
      BY <2>1
    <3> HIDE DEF s
    <3>3. QED
      BY <1>2, <1>4, <1>6, <2>1, <3>1, <3>2, ServedIsGood
  <2>2. CASE ~ call[c].pooled /\ call[c].kind = "transaction"
    <3>1. s = Begun(call[c], k)
      BY <2>2
    <3> HIDE DEF s
    <3>2. QED
      BY <1>2, <1>4, <2>2, <3>1, BegunIsGood
  <2>3. CASE ~ call[c].pooled /\ call[c].kind # "transaction"
    <3>1. s = Opened(call[c], k)
      BY <2>3
    <3> HIDE DEF s
    <3>2. QED
      BY <1>2, <1>4, <2>3, <3>1, OpenedIsGood
  <2>4. QED
    BY <2>1, <2>2, <2>3
<1> HIDE DEF s
<1>8. /\ conn[k] \in Sessions /\ conn[k].tx = "none" /\ conn[k].link # "broken"
      /\ conn[k].writes = NoWrites
  BY <1>2, Before DEF ConnFits
<1>9. conn' = [conn EXCEPT ![k] = t]
  BY <1>1, <1>2 DEF IInv, ConnsHeld
<1>10. /\ t \in Sessions /\ t.link = "open" /\ t.holder = c /\ t.tx = "none"
       /\ t.writes = NoWrites
  BY <1>8 DEF Sessions
<1> HIDE DEF t
<1>11. \A d \in Callers : t.writes[d] = 0
  BY <1>10 DEF NoWrites
<1>12. ConnsHeld'
  <2>1. OthersFit(c, k, s)
    BY <1>7, Before, CallersAssumption DEF ConnFits, OthersFit
  <2>2. c # None /\ k \in {s.own, s.at}
    BY <1>7, CallersAssumption
  <2>3. SessionFits(c, k, s, t)
    BY <1>10, <1>11, <2>2 DEF SessionFits
  <2>4. QED
    BY <1>2, <1>5, <1>9, <2>1, <2>3, ConnStep
<1>13. call' \in [Callers -> CallRecords] /\ CallsFit'
  BY <1>5, <1>7, CallsStep
<1>14. WaitersWait'
  <2>1. waiters' = RemoveAt(waiters, 1)
    <3>1. waiters' = Tail(waiters)
      BY DEF Serve
    <3>2. SubSeq(waiters, 1, 1 - 1) = <<>>
      BY <1>3
    <3>3. SubSeq(waiters, 1 + 1, Len(waiters)) = Tail(waiters)
      BY <1>3, TailIsSubSeq
    <3>4. Tail(waiters) \in Seq(Callers)
      BY <1>3
    <3>5. <<>> \o Tail(waiters) = Tail(waiters)
      BY <3>4, ConcatEmptySeq
    <3>6. QED
      BY <3>1, <3>2, <3>3, <3>5 DEF RemoveAt
  <2>2. QED
    BY <1>3, <1>5, <2>1, OutOfLine
<1>15. RestTyped'
  BY RestKept DEF Serve
<1>16. QED
  BY <1>12, <1>13, <1>14, <1>15 DEF IInv

-----------------------------------------------------------------------------
(* What a statement makes of its connection. *)

LEMMA FreshSession ==
    /\ Closed \in Sessions /\ NoWrites \in [Callers -> Nat]
    /\ Closed.link = "closed" /\ Closed.holder = None /\ Closed.tx = "none"
    /\ Closed.writes = NoWrites /\ \A d \in Callers : NoWrites[d] = 0
BY DEF Closed, Sessions, NoWrites

LEMMA SessionReleased ==
    ASSUME NEW x \in Sessions, x.tx = "none", x.writes = NoWrites, NEW t, t = Released(x)
    PROVE  /\ t \in Sessions /\ t.holder = None /\ t.tx = "none" /\ t.link # "broken"
           /\ t.writes = NoWrites
<1>1. CASE t = Closed
  BY <1>1, FreshSession
<1>2. CASE x.link = "open" /\ t = [x EXCEPT !.holder = None]
  BY <1>2 DEF Sessions
<1>3. QED
  BY <1>1, <1>2 DEF Released

LEMMA Adding ==
    ASSUME NEW f \in [Callers -> Nat], NEW g \in [Callers -> Nat]
    PROVE  Plus(f, g) \in [Callers -> Nat] /\ \A d \in Callers : Plus(f, g)[d] = f[d] + g[d]
BY DEF Plus

LEMMA OneWrite ==
    ASSUME NEW c \in Callers
    PROVE  /\ OneOf(c) \in [Callers -> Nat] /\ OneOf(c)[c] = 1
           /\ \A d \in Callers \ {c} : OneOf(c)[d] = 0
BY DEF OneOf, NoWrites

LEMMA EffectTyped ==
    ASSUME NEW c \in Callers, NEW x \in Sessions
    PROVE  EffectOn(x, c) \in [Callers -> Nat]
<1>1. x.writes \in [Callers -> Nat]
  BY DEF Sessions
<1>2. QED
  BY <1>1, OneWrite, FreshSession DEF EffectOn

\* What the server did to the session of c when it took c's statement.
LEMMA SessionRan ==
    ASSUME NEW c \in Callers, NEW x \in Sessions, x.link = "open", x.holder = c,
           x.tx # "open" => x.writes = NoWrites,
           \A d \in Callers : x.writes[d] > 0 => d = c,
           NEW t, t = RunOn(x, c)
    PROVE  /\ t \in Sessions /\ t.link = "open" /\ t.holder = c
           /\ t.tx # "open" => t.writes = NoWrites
           /\ \A d \in Callers : t.writes[d] > 0 => d = c
           /\ t.tx # "none" => /\ call[c].stmt \notin {"commit", "rollback"}
                               /\ x.tx # "none" \/ call[c].stmt = "begin"
           /\ call[c].stmt \in {"select", "write"} /\ x.tx = "none" => t = x
<1>1. CASE call[c].stmt = "begin"
  <2>1. t = [x EXCEPT !.tx = "open"]
    BY <1>1 DEF RunOn
  <2>2. t \in Sessions /\ t.link = "open" /\ t.holder = c /\ t.tx = "open" /\ t.writes = x.writes
    BY <2>1 DEF Sessions
  <2>3. QED
    BY <1>1, <2>2
<1>2. CASE call[c].stmt \in {"commit", "rollback"}
  <2>1. t = [x EXCEPT !.tx = "none", !.writes = NoWrites]
    BY <1>2 DEF RunOn
  <2>2. t \in Sessions /\ t.link = "open" /\ t.holder = c /\ t.tx = "none" /\ t.writes = NoWrites
    BY <2>1, FreshSession DEF Sessions
  <2>3. QED
    BY <1>2, <2>2, FreshSession
<1>3. CASE call[c].stmt = "write" /\ x.tx = "open"
  <2> DEFINE w == Plus(x.writes, OneOf(c))
  <2>1. t = [x EXCEPT !.writes = w]
    BY <1>3 DEF RunOn
  <2>2. /\ x.writes \in [Callers -> Nat] /\ w \in [Callers -> Nat]
        /\ \A d \in Callers : w[d] = x.writes[d] + OneOf(c)[d]
    BY OneWrite, Adding DEF Sessions
  <2> HIDE DEF w
  <2>3. t \in Sessions /\ t.link = "open" /\ t.holder = c /\ t.tx = "open" /\ t.writes = w
    BY <1>3, <2>1, <2>2 DEF Sessions
  <2>4. \A d \in Callers : w[d] > 0 => d = c
    BY <2>2, OneWrite
  <2>5. QED
    BY <1>3, <2>3, <2>4
<1>4. CASE /\ call[c].stmt \notin {"begin", "commit", "rollback"}
           /\ ~ (call[c].stmt = "write" /\ x.tx = "open")
  <2>1. t = x
    BY <1>4 DEF RunOn
  <2>2. QED
    BY <1>4, <2>1
<1>5. QED
  BY <1>1, <1>2, <1>3, <1>4

\* The connection a statement runs on: one of the pool, outside any transaction,
\* or the caller's own.
LEMMA OnItsConnection ==
    ASSUME IInv, NEW c \in Callers, call[c].phase = "flight", conn[Via(c)].link = "open"
    PROVE  /\ Via(c) \in Conns /\ conn[Via(c)] \in Sessions /\ conn[Via(c)].holder = c
           /\ conn[Via(c)].tx # "open" => conn[Via(c)].writes = NoWrites
           /\ \A d \in Callers : conn[Via(c)].writes[d] > 0 => d = c
           /\ conn[Via(c)].tx # "none" =>
                InTransaction(call[c]) /\ ~ call[c].pooled /\ call[c].own # None
           /\ call[c].pooled => /\ Via(c) = call[c].at /\ Via(c) # call[c].own
                                /\ call[c].stmt \in {"select", "write"}
           /\ ~ call[c].pooled => Via(c) = call[c].own /\ call[c].at = None
           /\ call[c].stmt # "none"
<1>1. GoodCall(call[c]) /\ call[c] \in CallRecords
  BY Before
<1>2. call[c].pooled => /\ Via(c) = call[c].at /\ Via(c) # call[c].own /\ Via(c) # None
                        /\ call[c].stmt \in {"select", "write"}
  BY <1>1 DEF Via, GoodCall, PlacesFit, StatementFits
<1>3. ~ call[c].pooled => Via(c) = call[c].own /\ call[c].at = None /\ Via(c) # None
  BY <1>1 DEF Via, GoodCall, PlacesFit, PhaseFits
<1>4. call[c].stmt # "none"
  BY <1>1 DEF GoodCall, PhaseFits
<1>5. Via(c) \in Conns /\ Via(c) \in {call[c].own, call[c].at}
  BY <1>1, <1>2, <1>3 DEF CallRecords
<1>6. /\ conn[Via(c)] \in Sessions /\ conn[Via(c)].holder = c /\ ConnFits(Via(c))
  BY <1>5, Before
<1>7. conn[Via(c)].tx # "none" => InTransaction(call[c]) /\ Via(c) = call[c].own
  BY <1>6 DEF ConnFits
<1>8. \A d \in Callers : conn[Via(c)].writes[d] > 0 => d = c
  BY <1>6 DEF ConnFits
<1>9. conn[Via(c)].tx # "open" => conn[Via(c)].writes = NoWrites
  BY <1>6 DEF ConnFits
<1>10. Via(c) # None
  BY <1>5, CallersAssumption
<1>11. QED
  BY <1>2, <1>3, <1>4, <1>5, <1>6, <1>7, <1>8, <1>9, <1>10

\* The invariant after a statement of c, which made the session t of its
\* connection, and the call s of c.
LEMMA StatementTaken ==
    ASSUME IInv, NEW c \in Callers, call[c].phase = "flight", conn[Via(c)].link = "open",
           NEW s, GoodCall(s), Goes(s, call[c]), call' = [call EXCEPT ![c] = s],
           NEW t \in Sessions, conn' = [conn EXCEPT ![Via(c)] = t], waiters' = waiters,
           call[c].pooled => /\ t.holder = None /\ t.tx = "none" /\ t.link # "broken"
                             /\ call[c].own # None /\ InTransaction(call[c]) => InTransaction(s),
           ~ call[c].pooled => t.holder = c /\ (t.tx # "none" => InTransaction(s)),
           t.link # "open" => t.tx = "none",
           t.tx # "open" => t.writes = NoWrites,
           \A d \in Callers : t.writes[d] > 0 => d = c
    PROVE  call' \in [Callers -> CallRecords] /\ CallsFit' /\ ConnsHeld' /\ WaitersWait'
<1> DEFINE k == Via(c)
<1>1. /\ k \in Conns /\ conn[k].holder = c
      /\ call[c].pooled => k = call[c].at /\ k # call[c].own
      /\ ~ call[c].pooled => k = call[c].own /\ call[c].at = None
  BY OnItsConnection
<1>2. c # None /\ k # None /\ None \notin Conns
  BY <1>1, CallersAssumption
<1>3. s.own = call[c].own /\ s.at = None
  BY DEF Goes
<1> HIDE DEF k
<1>4. SessionFits(c, k, s, t)
  <2>1. CASE call[c].pooled
    BY <1>1, <1>2, <1>3, <2>1, FreshSession DEF SessionFits
  <2>2. CASE ~ call[c].pooled
    BY <1>1, <1>2, <1>3, <2>2 DEF SessionFits
  <2>3. QED
    BY <2>1, <2>2
<1>5. OthersFit(c, k, s)
  <2>1. CASE call[c].pooled
    <3>1. \A j \in Conns : j = call[c].own /\ conn[j].tx # "none" =>
            call[c].own # None /\ InTransaction(call[c])
      BY <1>2, Before DEF ConnFits
    <3>2. QED
      BY <1>1, <1>2, <1>3, <2>1, <3>1 DEF OthersFit
  <2>2. CASE ~ call[c].pooled
    BY <1>1, <1>2, <1>3, <2>2 DEF OthersFit
  <2>3. QED
    BY <2>1, <2>2
<1>6. conn' = [conn EXCEPT ![k] = t]
  BY DEF k
<1>7. ConnsHeld'
  BY <1>1, <1>4, <1>5, <1>6, ConnStep
<1>8. call' \in [Callers -> CallRecords] /\ CallsFit'
  BY CallsStep
<1>9. WaitersWait'
  BY StillWaiting
<1>10. QED
  BY <1>7, <1>8, <1>9

LEMMA Accepting ==
    ASSUME IInv, NEW c \in Callers, Accepts(c)
    PROVE  IInv'
<1> DEFINE x == conn[Via(c)]
           s == AfterSuccess(c)
           r == RunOn(x, c)
           t == IF call[c].pooled THEN Released(r) ELSE r
<1>1. /\ call[c].phase = "flight" /\ conn[Via(c)].link = "open"
      /\ GoodCall(call[c]) /\ call[c] \in CallRecords
  BY Before DEF Accepts, Phase
<1>2. /\ Via(c) \in Conns /\ x \in Sessions /\ x.holder = c
      /\ x.tx # "open" => x.writes = NoWrites
      /\ \A d \in Callers : x.writes[d] > 0 => d = c
      /\ x.tx # "none" => InTransaction(call[c]) /\ ~ call[c].pooled /\ call[c].own # None
      /\ call[c].pooled => call[c].stmt \in {"select", "write"}
      /\ call[c].stmt # "none"
  BY <1>1, OnItsConnection
<1>3. call' = [call EXCEPT ![c] = s] /\ conn' = [conn EXCEPT ![Via(c)] = t]
  BY DEF Accepts
<1>4. /\ GoodCall(s) /\ Goes(s, call[c])
      /\ call[c].own # None /\ call[c].kind = "transaction"
            /\ call[c].stmt \notin {"commit", "rollback"} => InTransaction(s)
  <2>1. Succeeding(call[c], s)
    BY <1>1, <1>2, AfterSuccessIs
  <2> HIDE DEF s
  <2>2. QED
    BY <1>1, <2>1, SucceedingIsGood
<1> HIDE DEF s
<1>5. /\ r \in Sessions /\ r.link = "open" /\ r.holder = c
      /\ r.tx # "open" => r.writes = NoWrites
      /\ \A d \in Callers : r.writes[d] > 0 => d = c
      /\ r.tx # "none" => /\ call[c].stmt \notin {"commit", "rollback"}
                          /\ x.tx # "none" \/ call[c].stmt = "begin"
      /\ call[c].stmt \in {"select", "write"} /\ x.tx = "none" => r = x
  <2> HIDE DEF x
  <2>1. x.link = "open"
    BY <1>1 DEF x
  <2>2. QED
    BY <1>2, <2>1, SessionRan
<1>6. call[c].stmt = "begin" => call[c].own # None /\ call[c].kind = "transaction"
  BY <1>1 DEF GoodCall, StatementFits, PhaseFits
<1> HIDE DEF x, r
<1>7. /\ t \in Sessions
      /\ call[c].pooled => /\ t.holder = None /\ t.tx = "none" /\ t.link # "broken"
                           /\ call[c].own # None /\ InTransaction(call[c]) => InTransaction(s)
      /\ ~ call[c].pooled => t.holder = c /\ (t.tx # "none" => InTransaction(s))
      /\ t.link # "open" => t.tx = "none"
      /\ t.tx # "open" => t.writes = NoWrites
      /\ \A d \in Callers : t.writes[d] > 0 => d = c
  <2>1. CASE call[c].pooled
    <3>1. r.tx = "none" /\ r.writes = NoWrites
      BY <1>2, <1>5, <2>1
    <3>2. t = Released(r)
      BY <2>1
    <3> HIDE DEF t
    <3>3. t \in Sessions /\ t.holder = None /\ t.tx = "none" /\ t.link # "broken" /\ t.writes = NoWrites
      BY <1>5, <3>1, <3>2, SessionReleased
    <3>4. call[c].own # None /\ InTransaction(call[c]) => InTransaction(s)
      BY <1>2, <1>4, <2>1 DEF InTransaction
    <3>5. QED
      BY <2>1, <3>3, <3>4, FreshSession
  <2>2. CASE ~ call[c].pooled
    <3>1. t = r
      BY <2>2
    <3> HIDE DEF t
    <3>2. r.tx # "none" => InTransaction(s)
      BY <1>2, <1>4, <1>5, <1>6 DEF InTransaction
    <3>3. QED
      BY <1>5, <2>2, <3>1, <3>2
  <2>3. QED
    BY <2>1, <2>2
<1> HIDE DEF t
<1>8. call' \in [Callers -> CallRecords] /\ CallsFit' /\ ConnsHeld' /\ WaitersWait'
  BY <1>1, <1>3, <1>4, <1>7, StatementTaken DEF Accepts
<1>9. RestTyped'
  <2>1. applied' = Plus(applied, EffectOn(x, c)) /\ applied \in [Callers -> Nat]
    BY DEF Accepts, IInv, RestTyped, x
  <2>2. applied' \in [Callers -> Nat]
    BY <1>2, <2>1, EffectTyped, Adding
  <2>3. QED
    BY <2>2 DEF Accepts, IInv, RestTyped
<1>10. QED
  BY <1>8, <1>9 DEF IInv

\* A statement failed: of what may follow, s is good, and a transaction that is
\* not being rolled back goes on.
LEMMA StatementFailed ==
    ASSUME IInv, NEW c \in Callers, call[c].phase = "flight", NEW error,
           NEW s \in AfterFailure(c, error)
    PROVE  /\ GoodCall(s) /\ Goes(s, call[c])
           /\ call[c].own # None /\ InTransaction(call[c]) /\ call[c].stmt # "rollback" =>
                InTransaction(s)
<1>1. GoodCall(call[c]) /\ call[c] \in CallRecords
  BY Before
<1>2. Failing(call[c], error, s)
  BY <1>1, AfterFailureIs
<1>3. QED
  BY <1>1, <1>2, FailingIsGood DEF InTransaction

LEMMA Refusing ==
    ASSUME IInv, NEW c \in Callers, Refuses(c)
    PROVE  IInv'
<1> DEFINE x == conn[Via(c)]
           v == IF x.tx = "none" \/ call[c].stmt = "commit" THEN "none" ELSE "aborted"
           t == IF call[c].pooled THEN Closed ELSE [x EXCEPT !.tx = v, !.writes = NoWrites]
<1>1. /\ call[c].phase = "flight" /\ conn[Via(c)].link = "open"
      /\ call[c].stmt \in {"select", "write", "commit"}
  BY DEF Refuses, Phase
<1>2. /\ Via(c) \in Conns /\ x \in Sessions /\ x.holder = c /\ x.link = "open"
      /\ x.tx # "none" => InTransaction(call[c]) /\ call[c].own # None
      /\ call[c].pooled => call[c].stmt \in {"select", "write"}
  BY <1>1, OnItsConnection
<1>3. conn' = [conn EXCEPT ![Via(c)] = t]
  BY DEF Refuses
<1>4. PICK s \in AfterFailure(c, "other") : call' = [call EXCEPT ![c] = s]
  BY DEF Refuses
<1>5. /\ GoodCall(s) /\ Goes(s, call[c])
      /\ call[c].own # None /\ InTransaction(call[c]) => InTransaction(s)
  BY <1>1, <1>4, StatementFailed
<1> HIDE DEF x
<1>6. /\ t \in Sessions
      /\ call[c].pooled => t.holder = None /\ t.tx = "none" /\ t.link # "broken"
      /\ ~ call[c].pooled => t.holder = c /\ (t.tx # "none" => InTransaction(s))
      /\ t.link # "open" => t.tx = "none"
      /\ t.tx # "open" => t.writes = NoWrites
      /\ \A d \in Callers : t.writes[d] > 0 => d = c
  <2>1. CASE call[c].pooled
    BY <2>1, FreshSession
  <2>2. CASE ~ call[c].pooled
    <3>1. t = [x EXCEPT !.tx = v, !.writes = NoWrites] /\ v \in {"none", "aborted"}
      BY <2>2
    <3>2. v # "none" => InTransaction(s)
      BY <1>2, <1>5
    <3> HIDE DEF t, v
    <3>3. t \in Sessions /\ t.holder = c /\ t.link = "open" /\ t.tx = v /\ t.writes = NoWrites
      BY <1>2, <3>1, FreshSession DEF Sessions
    <3>4. QED
      BY <2>2, <3>2, <3>3, FreshSession
  <2>3. QED
    BY <2>1, <2>2
<1> HIDE DEF t
<1>7. call' \in [Callers -> CallRecords] /\ CallsFit' /\ ConnsHeld' /\ WaitersWait'
  BY <1>1, <1>3, <1>4, <1>5, <1>6, StatementTaken DEF Refuses
<1>8. RestTyped'
  BY RestKept DEF Refuses
<1>9. QED
  BY <1>7, <1>8 DEF IInv

LEMMA MisledIsGood ==
    ASSUME NEW q, GoodCall(q), NEW l \in SUBSET {"connection", "transient"}, q.phase # "new",
           NEW s, s = Misled(q, l)
    PROVE  /\ GoodCall(s) /\ s.own = q.own /\ s.at = q.at /\ s.phase = q.phase
           /\ s.kind = q.kind /\ s.told = q.told
           /\ InTransaction(q) => InTransaction(s)
<1>1. q \in CallRecords
  BY DEF GoodCall
<1>2. /\ s \in CallRecords /\ s.phase = q.phase /\ s.kind = q.kind /\ s.own = q.own
      /\ s.at = q.at /\ s.stmt = q.stmt /\ s.pooled = q.pooled /\ s.written = q.written
      /\ s.steps = q.steps /\ s.attempt = q.attempt /\ s.told = q.told
  BY <1>1, MisledFields
<1>3. QED
  BY <1>1, <1>2
  DEF GoodCall, PhaseFits, StatementFits, PlacesFit, StepsFit, Ended, InTransaction

LEMMA Breaking ==
    ASSUME IInv, NEW c \in Callers, Breaks(c)
    PROVE  IInv'
<1> DEFINE x == conn[Via(c)]
           b == [Closed EXCEPT !.link = "broken", !.holder = c]
           t == IF call[c].pooled THEN Closed ELSE b
<1>1. call[c].phase = "flight" /\ conn[Via(c)].link = "open" /\ breaks < MaxBreaks
  BY DEF Breaks, Phase
<1>2. /\ Via(c) \in Conns /\ x \in Sessions
      /\ call[c].pooled => call[c].stmt \in {"select", "write"}
  BY <1>1, OnItsConnection
<1>3. conn' = [conn EXCEPT ![Via(c)] = t]
  BY DEF Breaks
<1>4. PICK error \in {"connection", "transient"} : \E runs \in BOOLEAN :
        \E after \in AfterFailure(c, error) :
            /\ orphans' = IF runs THEN orphans \cup {[id |-> breaks, writes |-> EffectOn(x, c)]}
                          ELSE orphans
            /\ call' = [call EXCEPT ![c] =
                IF runs THEN [after EXCEPT !.lost = @ \cup {error}] ELSE after]
  BY DEF Breaks
<1>5. PICK after \in AfterFailure(c, error) :
        /\ orphans' \in {orphans \cup {[id |-> breaks, writes |-> EffectOn(x, c)]}, orphans}
        /\ \/ call' = [call EXCEPT ![c] = Misled(after, after.lost \cup {error})]
           \/ call' = [call EXCEPT ![c] = after]
  BY <1>4 DEF Misled
<1>6. /\ GoodCall(after) /\ Goes(after, call[c])
      /\ call[c].own # None /\ InTransaction(call[c]) /\ call[c].stmt # "rollback" =>
            InTransaction(after)
  BY <1>1, <1>5, StatementFailed
<1>7. PICK s : /\ call' = [call EXCEPT ![c] = s] /\ GoodCall(s) /\ Goes(s, call[c])
               /\ call[c].own # None /\ InTransaction(call[c]) /\ call[c].stmt # "rollback" =>
                    InTransaction(s)
  <2>1. CASE call' = [call EXCEPT ![c] = after]
    BY <1>6, <2>1
  <2>2. CASE call' = [call EXCEPT ![c] = Misled(after, after.lost \cup {error})]
    <3> DEFINE l == after.lost \cup {error}
               m == Misled(after, l)
    <3>1. l \in SUBSET {"connection", "transient"} /\ after.phase # "new"
      BY <1>4, <1>6 DEF GoodCall, CallRecords, Goes
    <3> HIDE DEF l
    <3>2. /\ GoodCall(m) /\ m.own = after.own /\ m.at = after.at /\ m.phase = after.phase
          /\ m.kind = after.kind /\ m.told = after.told
          /\ InTransaction(after) => InTransaction(m)
      BY <1>6, <3>1, MisledIsGood
    <3>3. call' = [call EXCEPT ![c] = m]
      BY <2>2 DEF l
    <3> HIDE DEF m
    <3>4. Goes(m, call[c])
      BY <1>6, <3>2 DEF Goes
    <3>5. QED
      BY <1>6, <3>2, <3>3, <3>4
  <2>3. QED
    BY <1>5, <2>1, <2>2
<1> HIDE DEF x
<1>8. /\ t \in Sessions
      /\ call[c].pooled => t.holder = None /\ t.tx = "none" /\ t.link # "broken"
      /\ ~ call[c].pooled => t.holder = c /\ (t.tx # "none" => InTransaction(s))
      /\ t.link # "open" => t.tx = "none"
      /\ t.tx # "open" => t.writes = NoWrites
      /\ \A d \in Callers : t.writes[d] > 0 => d = c
  <2>1. CASE call[c].pooled
    BY <2>1, FreshSession
  <2>2. CASE ~ call[c].pooled
    <3>1. b \in Sessions /\ b.holder = c /\ b.link = "broken" /\ b.tx = "none" /\ b.writes = NoWrites
      BY FreshSession DEF Closed, Sessions
    <3>2. t = b
      BY <2>2
    <3> HIDE DEF t, b
    <3>3. QED
      BY <2>2, <3>1, <3>2, FreshSession
  <2>3. QED
    BY <2>1, <2>2
<1> HIDE DEF t
<1>9. call' \in [Callers -> CallRecords] /\ CallsFit' /\ ConnsHeld' /\ WaitersWait'
  BY <1>1, <1>2, <1>3, <1>7, <1>8, StatementTaken DEF Breaks
<1>10. RestTyped'
  <2>1. EffectOn(x, c) \in [Callers -> Nat]
    BY <1>2, EffectTyped
  <2>2. breaks \in Nat /\ breaks \in 0..MaxBreaks /\ breaks + 1 \in 0..MaxBreaks
    BY <1>1, BoundsAssumption DEF IInv, RestTyped
  <2>3. [id |-> breaks, writes |-> EffectOn(x, c)] \in [id: 0..MaxBreaks, writes: [Callers -> Nat]]
    BY <2>1, <2>2
  <2>4. orphans' \subseteq [id: 0..MaxBreaks, writes: [Callers -> Nat]]
    BY <1>5, <2>3 DEF IInv, RestTyped
  <2>5. QED
    BY <2>2, <2>4 DEF Breaks, IInv, RestTyped
<1>11. QED
  BY <1>9, <1>10 DEF IInv

\* A connection of c breaks, or goes back, while c sends nothing on it.
LEMMA ClientBreaking ==
    ASSUME IInv, NEW c \in Callers, ClientBreaks(c)
    PROVE  IInv'
<1> DEFINE k == call[c].own
           s == call[c]
           t == [Closed EXCEPT !.link = "broken", !.holder = c]
<1>1. GoodCall(s) /\ k # None /\ breaks < MaxBreaks
  BY Before DEF ClientBreaks, Pinned
<1>2. k \in Conns /\ conn[k].holder = c
  <2>1. k \in Conns
    BY <1>1 DEF GoodCall, CallRecords
  <2>2. QED
    BY <2>1, Before
<1>3. conn' = [conn EXCEPT ![k] = t] /\ call' = call
  BY DEF ClientBreaks
<1>4. /\ t \in Sessions /\ t.holder = c /\ t.link = "broken" /\ t.tx = "none"
      /\ t.writes = NoWrites
  BY FreshSession DEF Closed, Sessions
<1>5. call' = [call EXCEPT ![c] = s]
  BY <1>3 DEF IInv
<1> HIDE DEF t, s
<1>6. SessionFits(c, k, s, t)
  BY <1>2, <1>4, FreshSession, CallersAssumption DEF SessionFits, s
<1>7. OthersFit(c, k, s)
  BY Before DEF OthersFit, s
<1>8. ConnsHeld'
  <2> HIDE DEF k
  <2>1. QED
    BY <1>2, <1>3, <1>5, <1>6, <1>7, ConnStep
<1>9. call' \in [Callers -> CallRecords] /\ CallsFit'
  BY <1>1, <1>5, CallsStep
<1>10. WaitersWait' /\ RestTyped'
  BY <1>1, <1>3, BoundsAssumption DEF ClientBreaks, IInv, WaitersWait, RestTyped, Phase
<1>11. QED
  BY <1>8, <1>9, <1>10 DEF IInv

LEMMA SettledIsGood ==
    ASSUME NEW q, GoodCall(q), q.phase = "leave", NEW s, s = Settled(q)
    PROVE  GoodCall(s) /\ s.own = None /\ s.at = None /\ q.at = None /\ q.stmt = "none"
<1>1. q \in CallRecords /\ q.at = None /\ q.stmt = "none" /\ q.kind # "none"
  BY DEF GoodCall, PlacesFit, PhaseFits, Ended
<1>2. /\ s \in CallRecords /\ s.phase = "done" /\ s.kind = q.kind /\ s.own = None
      /\ s.at = None /\ s.stmt = "none"
  BY <1>1, SettledFields
<1>3. ~ s.pooled
  <2>1. ~ q.pooled
    BY <1>1 DEF GoodCall, StatementFits
  <2>2. s.pooled = q.pooled
    BY <1>1, SettledFields
  <2>3. QED
    BY <2>1, <2>2
<1>4. StepsFit(s) /\ PhaseFits(s) /\ StatementFits(s) /\ PlacesFit(s)
  BY <1>1, <1>2, <1>3 DEF PhaseFits, StatementFits, PlacesFit, StepsFit, Ended
<1>5. QED
  BY <1>1, <1>2, <1>4 DEF GoodCall

LEMMA Returning ==
    ASSUME IInv, NEW c \in Callers, Return(c)
    PROVE  IInv'
<1> DEFINE k == call[c].own
           s == Settled(call[c])
           t == Released(conn[k])
<1>1. GoodCall(call[c]) /\ call[c].phase = "leave"
  BY Before DEF Return, Phase
<1>2. call' = [call EXCEPT ![c] = s]
  BY DEF Return, Settled
<1>3. /\ GoodCall(s) /\ s.own = None /\ s.at = None /\ call[c].at = None
  BY <1>1, SettledIsGood
<1> HIDE DEF s
<1>4. ConnsHeld'
  <2>1. CASE k = None
    <3>1. conn' = conn
      BY <2>1 DEF Return, Pinned
    <3>2. \A j \in Conns : j = s.own /\ conn[j].tx # "none" => InTransaction(s)
      BY <1>3, CallersAssumption
    <3>3. QED
      BY <1>2, <1>3, <2>1, <3>1, <3>2, ConnsKept
  <2>2. CASE k # None
    <3>1. k \in Conns
      BY <1>1, <2>2 DEF GoodCall, CallRecords
    <3>2. conn[k] \in Sessions /\ conn[k].holder = c /\ ConnFits(k)
      BY <3>1, Before
    <3>3. conn[k].tx = "none" /\ conn[k].writes = NoWrites
      BY <1>1, <3>2 DEF ConnFits, InTransaction
    <3>4. /\ t \in Sessions /\ t.holder = None /\ t.tx = "none" /\ t.link # "broken"
          /\ t.writes = NoWrites
      BY <3>2, <3>3, SessionReleased
    <3>5. conn' = [conn EXCEPT ![k] = t]
      BY <2>2 DEF Return, Pinned
    <3> HIDE DEF t
    <3>6. SessionFits(c, k, s, t)
      BY <1>3, <3>1, <3>4, FreshSession, CallersAssumption DEF SessionFits
    <3>7. OthersFit(c, k, s)
      BY <1>3, CallersAssumption DEF OthersFit
    <3> HIDE DEF k
    <3>8. QED
      BY <1>2, <3>1, <3>2, <3>5, <3>6, <3>7, ConnStep
  <2>3. QED
    BY <2>1, <2>2
<1>5. call' \in [Callers -> CallRecords] /\ CallsFit'
  BY <1>2, <1>3, CallsStep
<1>6. WaitersWait'
  BY <1>1, <1>2, StillWaiting DEF Return
<1>7. RestTyped'
  BY RestKept DEF Return
<1>8. QED
  BY <1>4, <1>5, <1>6, <1>7 DEF IInv

LEMMA Closing ==
    ASSUME IInv, Close
    PROVE  IInv'
<1>1. /\ call' = call /\ waiters' = waiters
      /\ conn' = [k \in Conns |-> IF Idle(k) THEN Closed ELSE conn[k]]
  BY DEF Close
<1>2. conn \in [Conns -> Sessions] /\ conn' \in [Conns -> Sessions]
  BY <1>1, FreshSession DEF IInv, ConnsHeld
<1>3. ASSUME NEW k \in Conns
      PROVE  ConnFits(k)' /\ HeldByUser(k)'
  <2>1. ConnFits(k) /\ HeldByUser(k)
    BY DEF IInv, ConnsHeld
  <2>2. CASE Idle(k)
    <3>1. conn'[k] = Closed /\ conn[k].holder = None
      BY <1>1, <2>2 DEF Idle
    <3>2. ConnFits(k)'
      BY <3>1, FreshSession DEF ConnFits
    <3>3. HeldByUser(k)'
      BY <1>1, <2>1, <3>1, FreshSession DEF HeldByUser
    <3>4. QED
      BY <3>2, <3>3
  <2>3. CASE ~ Idle(k)
    <3>1. conn'[k] = conn[k]
      BY <1>1, <2>3
    <3>2. QED
      BY <1>1, <2>1, <3>1 DEF ConnFits, HeldByUser
  <2>4. QED
    BY <2>2, <2>3
<1>4. ConnsHeld'
  BY <1>2, <1>3 DEF ConnsHeld
<1>5. QED
  BY <1>1, <1>4 DEF Close, IInv, CallsFit, WaitersWait, RestTyped, Phase

LEMMA Same ==
    ASSUME IInv, UNCHANGED <<call, conn, waiters>>
    PROVE  call' \in [Callers -> CallRecords] /\ CallsFit' /\ ConnsHeld' /\ WaitersWait'
<1>1. \A k \in Conns : ConnFits(k)' /\ HeldByUser(k)'
  BY DEF IInv, ConnsHeld, ConnFits, HeldByUser
<1>2. QED
  BY <1>1 DEF IInv, CallsFit, ConnsHeld, WaitersWait, Phase

LEMMA RunningOrphans ==
    ASSUME IInv, OrphanRuns
    PROVE  IInv'
<1>1. PICK o \in orphans : /\ applied' = Plus(applied, o.writes) /\ orphans' = orphans \ {o}
                           /\ UNCHANGED <<call, conn, waiters, pool, breaks>>
  BY DEF OrphanRuns
<1>2. o.writes \in [Callers -> Nat] /\ applied \in [Callers -> Nat]
  BY DEF IInv, RestTyped
<1>3. applied' \in [Callers -> Nat]
  BY <1>1, <1>2, Adding
<1>4. RestTyped'
  BY <1>1, <1>3 DEF IInv, RestTyped
<1>5. QED
  BY <1>1, <1>4, Same DEF IInv

-----------------------------------------------------------------------------
(* The invariant *)

LEMMA NewCallIsGood == GoodCall(NewCall)
<1>1. /\ NewCall \in CallRecords /\ NewCall.kind = "none" /\ NewCall.phase = "new"
      /\ NewCall.own = None /\ NewCall.at = None /\ NewCall.stmt = "none"
      /\ ~ NewCall.pooled
  BY OneAttempt DEF NewCall, CallRecords
<1>2. NewCall.kind \notin OnClient
  BY <1>1 DEF OnClient
<1>3. QED
  BY <1>1, <1>2 DEF GoodCall, PhaseFits, StatementFits, PlacesFit, StepsFit, Ended

LEMMA InitOK == Init => IInv
<1> SUFFICES ASSUME Init
             PROVE  IInv
  OBVIOUS
<1>1. call \in [Callers -> CallRecords] /\ \A c \in Callers : call[c] = NewCall
  BY NewCallIsGood DEF Init, GoodCall
<1>2. CallsFit
  BY <1>1, NewCallIsGood DEF CallsFit
<1>3. conn \in [Conns -> Sessions] /\ \A k \in Conns : conn[k] = Closed
  BY FreshSession DEF Init
<1>4. \A c \in Callers : call[c].own = None /\ call[c].at = None
  BY <1>1 DEF NewCall
<1>5. ConnsHeld
  BY <1>3, <1>4, FreshSession, CallersAssumption DEF ConnsHeld, ConnFits, HeldByUser
<1>6. WaitersWait
  BY DEF Init, WaitersWait
<1>7. RestTyped
  BY FreshSession, BoundsAssumption DEF Init, RestTyped
<1>8. QED
  BY <1>1, <1>2, <1>5, <1>6, <1>7 DEF IInv

LEMMA NextOK == IInv /\ [Next]_vars => IInv'
<1> SUFFICES ASSUME IInv, [Next]_vars
             PROVE  IInv'
  OBVIOUS
<1>1. ASSUME NEW c \in Callers, Start(c)
      PROVE  IInv'
  BY <1>1, Starting
<1>2. ASSUME NEW c \in Callers, Step(c)
      PROVE  IInv'
  BY <1>2, Serving, NotConnecting, Accepting, Refusing, FailingOnBroken, Retrying,
     SendingInWork, EndingWork, Returning DEF Step
<1>3. ASSUME NEW c \in Callers, Breaks(c) \/ ClientBreaks(c)
      PROVE  IInv'
  BY <1>3, Breaking, ClientBreaking
<1>4. CASE OrphanRuns \/ Close
  BY <1>4, RunningOrphans, Closing
<1>5. CASE Drained
  BY <1>5, Same DEF Drained, IInv, RestTyped
<1>6. CASE UNCHANGED vars
  BY <1>6, Same DEF vars, IInv, RestTyped
<1>7. QED
  BY <1>1, <1>2, <1>3, <1>4, <1>5, <1>6 DEF Next

\* In every state a call is of a shape the code can leave it in, a connection is
\* held by its user, and whoever waits is in the queue once.
THEOREM Inductive == Spec => []IInv
BY InitOK, NextOK, PTL DEF Spec

LEMMA HygieneHolds == IInv => PoolHygiene
<1> SUFFICES ASSUME IInv
             PROVE  PoolHygiene
  OBVIOUS
<1>1. TypeOK
  BY DEF TypeOK, IInv, ConnsHeld, WaitersWait, RestTyped, CallRecords, Sessions, Attempts, Counts
<1>2. ASSUME NEW k \in Conns
      PROVE  /\ conn[k].holder = None => conn[k].tx = "none" /\ conn[k].writes = NoWrites
             /\ conn[k].holder # None => k \in {call[conn[k].holder].own, call[conn[k].holder].at}
             /\ \A c \in Callers : conn[k].writes[c] > 0 => conn[k].holder = c
  BY DEF IInv, ConnsHeld, ConnFits, HeldByUser
<1>3. ASSUME NEW c \in Callers, NEW k \in Conns, k \in {call[c].own, call[c].at}
      PROVE  conn[k].holder = c /\ Phase(c) # "done"
  <2>1. conn[k].holder = c /\ GoodCall(call[c]) /\ k # None
    BY <1>3, Before, CallersAssumption
  <2>2. Phase(c) # "done"
    BY <1>3, <2>1 DEF GoodCall, PlacesFit, Phase
  <2>3. QED
    BY <2>1, <2>2
<1>4. QED
  BY <1>1, <1>2, <1>3 DEF PoolHygiene

\* However many callers and connections there are and whatever breaks, a
\* connection is held by exactly the caller that uses it, and one that lies in the
\* pool is in no transaction.
THEOREM Hygiene == Spec => []PoolHygiene
BY Inductive, HygieneHolds, PTL

-----------------------------------------------------------------------------
(* What a caller's work has done *)

\* The session c has to itself, and what the server may still run for c.
Own(c) == IF call[c].own = None THEN Closed ELSE conn[call[c].own]
Owed(c) == {o \in orphans : o.writes[c] > 0}

\* What goes with a caller's kind and with its verdict.
KindFits(q) ==
    /\ q.kind \in {"read", "write"} /\ q.phase \notin Ended =>
        q.pooled /\ q.stmt = IF q.kind = "read" THEN "select" ELSE "write"
    /\ q.kind \in OnClient /\ q.own = None /\ q.phase \notin Ended =>
        q.stmt = "none" /\ q.written = 0
    /\ q.stmt = "begin" => q.written = 0
    /\ q.phase \notin Ended <=> q.verdict = "nothing"
    /\ q.told = IF q.phase = "done" THEN q.verdict ELSE "nothing"

\* A statement that writes, through the pool: at most one effect an attempt, and
\* another attempt only after a connection error.
WriteHas(q, a, n) ==
    /\ a + n <= (IF q.phase \in {"waiting", "flight"} THEN q.attempt - 1
                 ELSE IF q.phase = "sleep" THEN q.attempt ELSE MaxAttempts)
    /\ a + n > 0 /\ q.phase \notin Ended => "connection" \in q.lost
    /\ a + n > 1 => "connection" \in q.lost
    /\ a + n > 0 /\ q.verdict = "failed" => q.lost # {}
    /\ q.verdict = "done" => a > 0

\* A transaction that was not committed, or whose COMMIT was answered by nobody.
Unanswered(q, a, n) ==
    \/ a = 0 /\ n = 0
    \/ q.lost # {} /\ q.written > 0 /\ ((a = 0 /\ n = 1) \/ (a = q.written /\ n = 0))

TransactionHas(q, a, n) ==
    /\ q.phase \notin Ended /\ q.stmt # "rollback" => a = 0 /\ n = 0
    /\ q.stmt = "rollback" \/ q.verdict = "failed" => Unanswered(q, a, n)
    /\ q.verdict = "done" => n = 0 /\ (a = q.written \/ (q.hid /\ a = 0))

\* A transaction that goes on is open at the server, with all it wrote, unless the
\* work has hidden the failure of a statement or the client broke.
Holds(q, x, m) ==
    InTransaction(q) /\ q.stmt # "rollback" =>
        /\ x.link = "open" => x.tx # "none"
        /\ x.tx = "open" => m = q.written
        /\ x.tx = "aborted" => q.hid

\* A session loses the answer to one write at most, and its client with it.
SessionHas(q, x, a, n) ==
    /\ a >= q.written
    /\ \/ a + n = q.written
       \/ /\ a + n = q.written + 1 /\ q.lost # {} /\ q.written < MaxSteps
          /\ q.phase = "done" \/ x.link = "broken"

Has(q, x, a, n) ==
    /\ q.kind \in {"none", "read"} => a = 0 /\ n = 0
    /\ q.kind = "write" => WriteHas(q, a, n)
    /\ q.kind = "transaction" => TransactionHas(q, a, n)
    /\ q.kind = "session" => SessionHas(q, x, a, n)

Fit(q, x, m, a, n) == KindFits(q) /\ Has(q, x, a, n) /\ Holds(q, x, m)

Effects(c) ==
    /\ Fit(call[c], Own(c), Own(c).writes[c], applied[c], Cardinality(Owed(c)))
    /\ \A o \in Owed(c) :
        o.writes[c] = IF call[c].kind = "transaction" THEN call[c].written ELSE 1

\* What broke is told apart, and was one caller's.
OrphansFit ==
    /\ IsFiniteSet(orphans)
    /\ \A o \in orphans : o.id < breaks
    /\ \A o, p \in orphans : o.id = p.id => o = p
    /\ \A o \in orphans : \E c \in Callers : \A d \in Callers : o.writes[d] > 0 <=> d = c

\* The invariant about effects: what has been applied for a caller, and what the
\* server may still run for it, go with its kind, its verdict and its session.
EInv == IInv /\ OrphansFit /\ \A c \in Callers : Effects(c)

\* What no step of a call takes back before it returns.
Moved(u, q) ==
    /\ u.kind = q.kind /\ u.told = q.told
    /\ q.verdict # "nothing" => u.verdict = q.verdict
    /\ q.phase \in Ended \/ q.stmt = "rollback" => u.written = q.written

-----------------------------------------------------------------------------
(* The work of a call, and what becomes of it *)

LEMMA Numbers ==
    ASSUME NEW q \in CallRecords
    PROVE  /\ q.attempt \in Nat /\ q.attempt <= MaxAttempts /\ MaxAttempts \in Nat
           /\ q.written \in Nat /\ q.written <= MaxSteps /\ MaxSteps \in Nat
           /\ q.steps \in Nat /\ q.steps <= MaxSteps
BY AttemptsAssumption, BoundsAssumption DEF CallRecords, Counts, Attempts

\* How a call leaves.
LEMMA LeavesFailed ==
    ASSUME NEW q \in CallRecords, NEW s, s = Left(Rested(q), "failed", FALSE)
    PROVE  /\ s \in CallRecords /\ s.stmt = "none" /\ s.phase = "leave" /\ s.kind = q.kind
           /\ s.written = q.written /\ s.verdict = "failed" /\ s.told = q.told
           /\ s.own = q.own /\ s.lost = q.lost /\ ~ s.hid
BY OneAttempt DEF Left, Rested, CallRecords

LEMMA LeavesDone ==
    ASSUME NEW q \in CallRecords, NEW s, s = Left(Rested(q), "done", q.hid)
    PROVE  /\ s \in CallRecords /\ s.stmt = "none" /\ s.phase = "leave" /\ s.kind = q.kind
           /\ s.written = q.written /\ s.verdict = "done" /\ s.told = q.told
           /\ s.own = q.own /\ s.lost = q.lost /\ s.hid = q.hid
<1> DEFINE v == "done"
           h == q.hid
<1>1. v \in {"done", "failed"} /\ h \in BOOLEAN /\ s = Left(Rested(q), v, h)
  BY DEF CallRecords
<1> HIDE DEF v, h
<1>2. /\ s \in CallRecords /\ s.stmt = "none" /\ s.phase = "leave" /\ s.kind = q.kind
      /\ s.written = q.written /\ s.verdict = v /\ s.told = q.told
      /\ s.own = q.own /\ s.lost = q.lost /\ s.hid = h
  BY <1>1, LeftFields
<1>3. QED
  BY <1>2 DEF v, h

\* A session whose statement failed: with it an answer may have been lost.
LEMMA SessionFails ==
    ASSUME NEW q \in CallRecords, StatementFits(q), PlacesFit(q), StepsFit(q), KindFits(q),
           q.kind = "session", q.phase \notin Ended, NEW x, NEW y, NEW a \in Nat, NEW n \in Nat,
           NEW k \in {0, 1}, SessionHas(q, x, a, n),
           NEW l, q.lost \subseteq l, NEW u, u.written = q.written, u.lost = l,
           k = 1 => /\ l # {} /\ q.stmt = "write" /\ ~ q.pooled
                    /\ x.link # "broken" /\ y.link = "broken",
           x.link = "broken" => y.link = "broken"
    PROVE  SessionHas(u, y, a, n + k)
<1>1. CASE k = 0
  BY <1>1 DEF SessionHas, Ended
<1>2. CASE k = 1
  <2>1. q.written + 1 <= MaxSteps
    BY <1>2, Numbers DEF StepsFit, OnClient, Ended
  <2>2. a + n = q.written
    BY <1>2 DEF SessionHas, Ended
  <2>3. QED
    BY <1>2, <2>1, <2>2, Numbers DEF SessionHas
<1>3. QED
  BY <1>1, <1>2

\* What a failed statement, or a wait for a connection, leaves of the effects: u is
\* what becomes of the call, with what it lost (k is 1 if an answer was lost).
LEMMA FailedFits ==
    ASSUME NEW q, GoodCall(q), q.phase \in {"waiting", "flight"}, NEW x, NEW y,
           NEW m \in Nat, NEW m2 \in Nat, NEW a \in Nat, NEW n \in Nat, NEW k \in {0, 1},
           Fit(q, x, m, a, n), NEW error, NEW s, Failing(q, error, s),
           NEW l \in SUBSET {"connection", "transient"}, q.lost \subseteq l,
           NEW u, u = Misled(s, l),
           k = 1 => /\ error \in l /\ q.phase = "flight" /\ q.stmt \in {"write", "commit"}
                    /\ ~ q.pooled => x.link = "open" /\ y.link = "broken"
                    /\ q.kind = "transaction" => q.stmt = "commit" /\ q.written > 0,
           x.link = "broken" => y.link = "broken",
           y.link = "open" => /\ x.link = "open"
                              /\ x.tx # "none" /\ q.stmt # "commit" => y.tx # "none",
           y.tx = "open" => x.tx = "open" /\ m2 = m,
           y.tx = "aborted" =>
                \/ x.tx = "aborted"
                \/ q.stmt \in {"select", "write"} /\ ~ q.pooled /\ error = "other"
    PROVE  Fit(u, y, m2, a, n + k)
<1>0. q \in CallRecords /\ q.hid \in BOOLEAN /\ q.pooled \in BOOLEAN
  BY DEF GoodCall, CallRecords
<1>1. /\ PhaseFits(q) /\ StatementFits(q) /\ PlacesFit(q) /\ StepsFit(q)
      /\ KindFits(q) /\ Has(q, x, a, n) /\ Holds(q, x, m)
  BY DEF GoodCall, Fit
<1>2. CASE q.stmt \in {"begin", "commit"} /\ s = Sent(q, "rollback")
  <2>1. /\ u.stmt = "rollback" /\ u.phase = "flight" /\ u.kind = q.kind
        /\ u.written = q.written /\ u.verdict = q.verdict /\ u.told = q.told
        /\ u.lost = l /\ ~ u.pooled /\ u.own = q.own
    BY <1>0, <1>2, SentFields, MisledFields
  <2>2. q.kind = "transaction" /\ q.phase = "flight"
    BY <1>1, <1>2 DEF StatementFits
  <2>3. QED
    BY <1>0, <1>1, <1>2, <2>1, <2>2, Numbers
    DEF Fit, KindFits, Has, Holds, TransactionHas, Unanswered, InTransaction, Ended, PhaseFits
<1>3. CASE q.stmt \in {"none", "rollback"} /\ s = Left(Rested(q), "failed", FALSE)
  <2>0. /\ s \in CallRecords /\ s.stmt = "none" /\ s.phase = "leave" /\ s.kind = q.kind
        /\ s.written = q.written /\ s.verdict = "failed" /\ s.told = q.told /\ s.own = q.own
    BY <1>0, <1>3, LeavesFailed
  <2>1. /\ u.stmt = "none" /\ u.phase = "leave" /\ u.kind = q.kind
        /\ u.written = q.written /\ u.verdict = "failed" /\ u.told = q.told
        /\ u.lost = l /\ u.own = q.own
    BY <2>0, MisledFields
  <2>2. q.kind \in OnClient /\ (q.kind = "session" => q.stmt = "none") /\ k = 0
    BY <1>1, <1>3 DEF PhaseFits, StatementFits, KindFits, Ended, OnClient
  <2>3. KindFits(u)
    BY <1>1, <1>3, <2>1, <2>2 DEF KindFits, Ended, OnClient
  <2>4. Holds(u, y, m2)
    BY <2>1 DEF Holds, InTransaction
  <2>5. Has(u, y, a, n)
    BY <1>1, <1>3, <2>1, <2>2, <1>0, Numbers
    DEF Has, TransactionHas, SessionHas, Unanswered, InTransaction, Ended, OnClient, PhaseFits
  <2>6. QED
    BY <2>2, <2>3, <2>4, <2>5 DEF Fit
<1>4. CASE /\ q.stmt \in {"select", "write"} /\ q.attempt < MaxAttempts
           /\ error = "connection" \/ (error = "transient" /\ q.stmt = "select")
           /\ s = Asleep(q)
  <2>1. /\ u.stmt = q.stmt /\ u.phase = "sleep" /\ u.kind = q.kind
        /\ u.written = q.written /\ u.verdict = q.verdict /\ u.told = q.told
        /\ u.lost = l /\ u.own = q.own /\ u.pooled = q.pooled /\ u.attempt = q.attempt
        /\ u.hid = q.hid
    BY <1>0, <1>4, AsleepFields, MisledFields
  <2>2. k = 1 => error = "connection" /\ q.stmt = "write"
    BY <1>4
  <2>3. KindFits(u)
    BY <1>1, <2>1 DEF KindFits, Ended, OnClient, PhaseFits
  <2>4. Holds(u, y, m2)
    BY <1>1, <1>4, <2>1 DEF Holds, InTransaction
  <2>5. Has(u, y, a, n + k)
    <3>1. CASE q.kind = "write"
      BY <1>0, <1>1, <1>4, <2>1, <2>2, <3>1, Numbers DEF Has, WriteHas, Ended
    <3>2. CASE q.kind = "transaction"
      BY <1>0, <1>1, <1>4, <2>1, <2>2, <3>2, Numbers DEF Has, TransactionHas, KindFits, Ended
    <3>3. CASE q.kind = "session"
      <4>1. q.phase \notin Ended /\ (k = 1 => l # {} /\ ~ q.pooled)
        BY <1>1, <1>4, <2>2, <3>3 DEF Ended, StatementFits, KindFits, OnClient
      <4>2. SessionHas(u, y, a, n + k)
        BY <1>0, <1>1, <2>1, <2>2, <3>3, <4>1, SessionFails DEF Has
      <4>3. QED
        BY <2>1, <3>3, <4>2 DEF Has
    <3>4. CASE q.kind \in {"none", "read"}
      BY <1>0, <1>1, <1>4, <2>1, <2>2, <3>4, Numbers DEF Has, KindFits, PhaseFits, Ended
    <3>5. QED
      BY <1>0, <3>1, <3>2, <3>3, <3>4 DEF CallRecords, Kinds
  <2>6. QED
    BY <2>3, <2>4, <2>5 DEF Fit
<1>5. CASE /\ q.stmt \in {"select", "write"} /\ q.own # None /\ q.kind = "transaction"
           /\ s = Thrown(Sent(q, "rollback"))
  <2>1. /\ u.stmt = "rollback" /\ u.phase = "flight" /\ u.kind = q.kind
        /\ u.written = 0 /\ u.verdict = q.verdict /\ u.told = q.told
        /\ u.lost = l /\ ~ u.pooled /\ u.own = q.own
    BY <1>0, <1>5, ThrownFields, MisledFields
  <2>2. k = 0
    BY <1>5
  <2>3. QED
    BY <1>0, <1>1, <1>5, <2>1, <2>2, Numbers
    DEF Fit, KindFits, Has, Holds, TransactionHas, Unanswered, InTransaction, Ended
<1>6. CASE /\ q.stmt \in {"select", "write"} /\ q.own # None
           /\ \E h \in BOOLEAN : /\ s = Working(Rested(q), h, q.written)
                                 /\ h <=> q.hid \/ ~ q.pooled
  <2>0. PICK h \in BOOLEAN : s = Working(Rested(q), h, q.written) /\ (h <=> q.hid \/ ~ q.pooled)
    BY <1>6
  <2>1. /\ u.stmt = "none" /\ u.phase = "work" /\ u.kind = q.kind
        /\ u.written = q.written /\ u.verdict = q.verdict /\ u.told = q.told
        /\ u.lost = l /\ u.own = q.own /\ u.hid = h
    <3>1. q.written \in Counts
      BY <1>0 DEF CallRecords
    <3>2. /\ s \in CallRecords /\ s.stmt = "none" /\ s.phase = "work" /\ s.kind = q.kind
          /\ s.written = q.written /\ s.verdict = q.verdict /\ s.told = q.told
          /\ s.own = q.own /\ s.hid = h
      BY <1>0, <2>0, <3>1, WorkingFields
    <3>3. QED
      BY <3>2, MisledFields
  <2>2. q.kind \in OnClient
    BY <1>1, <1>6 DEF PlacesFit
  <2>3. KindFits(u)
    BY <1>1, <2>1, <2>2 DEF KindFits, Ended, OnClient, PhaseFits
  <2>4. Holds(u, y, m2)
    BY <1>1, <1>6, <2>0, <2>1 DEF Holds, InTransaction
  <2>5. Has(u, y, a, n + k)
    <3>1. CASE q.kind = "transaction"
      BY <1>0, <1>1, <1>6, <2>1, <3>1, Numbers DEF Has, TransactionHas, KindFits, Ended
    <3>2. CASE q.kind = "session"
      <4>1. q.phase \notin Ended /\ (k = 1 => l # {} /\ ~ q.pooled /\ q.stmt = "write")
        BY <1>1, <1>6, <3>2 DEF Ended, StatementFits
      <4>2. SessionHas(u, y, a, n + k)
        BY <1>0, <1>1, <2>1, <3>2, <4>1, SessionFails DEF Has
      <4>3. QED
        BY <2>1, <3>2, <4>2 DEF Has
    <3>3. QED
      BY <2>2, <3>1, <3>2 DEF OnClient
  <2>6. QED
    BY <2>3, <2>4, <2>5 DEF Fit
<1>7. CASE /\ q.stmt \in {"select", "write"} /\ (q.own = None \/ q.kind # "transaction")
           /\ s = Left(Rested(q), "failed", FALSE)
  <2>0. /\ s \in CallRecords /\ s.stmt = "none" /\ s.phase = "leave" /\ s.kind = q.kind
        /\ s.written = q.written /\ s.verdict = "failed" /\ s.told = q.told /\ s.own = q.own
    BY <1>0, <1>7, LeavesFailed
  <2>1. /\ u.stmt = "none" /\ u.phase = "leave" /\ u.kind = q.kind
        /\ u.written = q.written /\ u.verdict = "failed" /\ u.told = q.told
        /\ u.lost = l /\ u.own = q.own
    BY <2>0, MisledFields
  <2>2. q.kind # "transaction" /\ q.kind # "none"
    BY <1>1, <1>7 DEF KindFits, PhaseFits, Ended, OnClient
  <2>3. q.kind \in {"read", "write", "session"}
    BY <1>0, <2>2 DEF CallRecords, Kinds
  <2>4. k = 1 => q.stmt = "write"
    BY <1>7
  <2>5. KindFits(u)
    BY <1>1, <2>1 DEF KindFits, Ended, OnClient, PhaseFits
  <2>6. Holds(u, y, m2)
    BY <2>1 DEF Holds, InTransaction
  <2>7. Has(u, y, a, n + k)
    <3>1. CASE q.kind = "write"
      <4>1. WriteHas(q, a, n) /\ q.phase \notin Ended
        BY <1>1, <3>1 DEF Has, Ended
      <4>2. CASE k = 0
        BY <1>0, <2>1, <3>1, <4>1, <4>2, Numbers DEF WriteHas, Ended, Has
      <4>3. CASE k = 1
        BY <1>0, <2>1, <3>1, <4>1, <4>3, Numbers DEF WriteHas, Ended, Has
      <4>4. QED
        BY <4>2, <4>3
    <3>2. CASE q.kind = "session"
      <4>1. q.phase \notin Ended /\ (k = 1 => l # {} /\ ~ q.pooled)
        BY <1>1, <1>7, <2>4, <3>2 DEF Ended, StatementFits, KindFits, OnClient
      <4>2. SessionHas(u, y, a, n + k)
        BY <1>0, <1>1, <2>1, <2>4, <3>2, <4>1, SessionFails DEF Has
      <4>3. QED
        BY <2>1, <3>2, <4>2 DEF Has
    <3>3. CASE q.kind = "read"
      <4>1. a = 0 /\ n = 0 /\ q.stmt = "select"
        BY <1>1, <3>3 DEF Has, KindFits, Ended
      <4>2. k = 0
        BY <2>4, <4>1
      <4>3. QED
        BY <2>1, <3>3, <4>1, <4>2 DEF Has
    <3>4. QED
      BY <2>3, <3>1, <3>2, <3>3
  <2>8. QED
    BY <2>5, <2>6, <2>7 DEF Fit
<1>8. QED
  BY <1>2, <1>3, <1>4, <1>5, <1>6, <1>7 DEF Failing

\* What an answered statement has added to the effects, and made of its session.
LEMMA AnsweredFits ==
    ASSUME NEW q, GoodCall(q), q.phase = "flight", NEW x, NEW y,
           NEW m \in Nat, NEW m2 \in Nat, NEW a \in Nat, NEW n \in Nat, NEW e \in Nat,
           Fit(q, x, m, a, n), NEW s, Succeeding(q, s), y.link = x.link,
           x.tx \in {"none", "open", "aborted"},
           q.pooled => /\ y.tx = x.tx /\ m2 = m
                       /\ e = IF q.stmt = "write" THEN 1 ELSE 0,
           ~ q.pooled =>
                /\ x.link = "open" /\ (x.tx # "open" => m = 0)
                /\ x.tx = "none" \/ InTransaction(q)
                /\ q.stmt = "begin" => x.tx = "none" /\ m2 = m /\ e = 0 /\ y.tx = "open"
                /\ q.stmt = "commit" => y.tx = "none" /\ e = m
                /\ q.stmt = "rollback" => y.tx = "none" /\ e = 0
                /\ q.stmt = "select" => y.tx = x.tx /\ m2 = m /\ e = 0
                /\ q.stmt = "write" => /\ y.tx = x.tx
                                       /\ IF x.tx = "none" THEN e = 1 /\ m2 = m
                                          ELSE x.tx = "open" /\ e = 0 /\ m2 = m + 1
    PROVE  Fit(s, y, m2, a + e, n)
<1>0. q \in CallRecords /\ q.hid \in BOOLEAN /\ q.pooled \in BOOLEAN
  BY DEF GoodCall, CallRecords
<1>1. /\ PhaseFits(q) /\ StatementFits(q) /\ PlacesFit(q) /\ StepsFit(q)
      /\ KindFits(q) /\ Has(q, x, a, n) /\ Holds(q, x, m)
  BY DEF GoodCall, Fit
<1>2. CASE q.stmt = "begin" /\ s = Working(Rested(q), q.hid, q.written)
  <2>1. /\ s.stmt = "none" /\ s.phase = "work" /\ s.kind = q.kind
        /\ s.written = q.written /\ s.verdict = q.verdict /\ s.told = q.told
        /\ s.lost = q.lost /\ s.own = q.own /\ ~ s.pooled /\ s.hid = q.hid
    <3>1. q.written \in Counts
      BY <1>0 DEF CallRecords
    <3>2. QED
      BY <1>0, <1>2, <3>1, WorkingFields
  <2>2. q.kind = "transaction" /\ ~ q.pooled /\ q.own # None
    BY <1>1, <1>2 DEF StatementFits, PhaseFits
  <2>3. QED
    BY <1>0, <1>1, <1>2, <2>1, <2>2, Numbers
    DEF Fit, KindFits, Has, Holds, TransactionHas, InTransaction, Ended, PhaseFits
<1>3. CASE q.stmt \in {"commit", "rollback"}
  <2>1. q.kind = "transaction" /\ ~ q.pooled /\ q.own # None
    BY <1>1, <1>3 DEF StatementFits, PhaseFits
  <2>2. CASE q.stmt = "commit"
    <3>1. s = Left(Rested(q), "done", q.hid)
      BY <2>2 DEF Succeeding
    <3>2. /\ s.stmt = "none" /\ s.phase = "leave" /\ s.kind = q.kind
          /\ s.written = q.written /\ s.verdict = "done" /\ s.told = q.told
          /\ s.lost = q.lost /\ s.own = q.own /\ s.hid = q.hid
      BY <1>0, <3>1, LeavesDone
    <3>3. InTransaction(q) /\ x.tx # "none"
      BY <1>1, <2>1, <2>2 DEF InTransaction, Holds
    <3>4. QED
      BY <1>0, <1>1, <2>1, <2>2, <3>2, <3>3, Numbers
      DEF Fit, KindFits, Has, Holds, TransactionHas, InTransaction, Ended, PhaseFits
  <2>3. CASE q.stmt = "rollback"
    <3>1. s = Left(Rested(q), "failed", FALSE)
      BY <2>3 DEF Succeeding
    <3>2. /\ s.stmt = "none" /\ s.phase = "leave" /\ s.kind = q.kind
          /\ s.written = q.written /\ s.verdict = "failed" /\ s.told = q.told
          /\ s.lost = q.lost /\ s.own = q.own
      BY <1>0, <3>1, LeavesFailed
    <3>3. QED
      BY <1>0, <1>1, <2>1, <2>3, <3>2, Numbers
      DEF Fit, KindFits, Has, Holds, TransactionHas, Unanswered, InTransaction, Ended, PhaseFits
  <2>4. QED
    BY <1>3, <2>2, <2>3
<1>4. CASE /\ q.stmt \in {"select", "write"} /\ q.own # None
           /\ s = Working(Rested(q), q.hid, IF q.stmt = "write" THEN q.written + 1 ELSE q.written)
  <2>1. q.kind \in OnClient /\ (q.pooled => q.stmt = "select")
    BY <1>1, <1>4 DEF PlacesFit, StatementFits
  <2>2. (IF q.stmt = "write" THEN q.written + 1 ELSE q.written) \in Counts
    BY <1>0, <1>1, <2>1, Numbers DEF StepsFit, Counts, Ended
  <2>3. /\ s.stmt = "none" /\ s.phase = "work" /\ s.kind = q.kind
        /\ s.written = (IF q.stmt = "write" THEN q.written + 1 ELSE q.written)
        /\ s.verdict = q.verdict /\ s.told = q.told
        /\ s.lost = q.lost /\ s.own = q.own /\ ~ s.pooled /\ s.hid = q.hid
    BY <1>0, <1>4, <2>2, WorkingFields
  <2>4. CASE q.kind = "transaction"
    BY <1>0, <1>1, <1>4, <2>1, <2>3, <2>4, Numbers
    DEF Fit, KindFits, Has, Holds, TransactionHas, InTransaction, Ended, OnClient, PhaseFits
  <2>5. CASE q.kind = "session"
    BY <1>0, <1>1, <1>4, <2>1, <2>3, <2>5, Numbers
    DEF Fit, KindFits, Has, Holds, SessionHas, InTransaction, Ended, OnClient, PhaseFits
  <2>6. QED
    BY <2>1, <2>4, <2>5 DEF OnClient
<1>5. CASE q.stmt \in {"select", "write"} /\ q.own = None /\ s = Left(Rested(q), "done", q.hid)
  <2>1. /\ s.stmt = "none" /\ s.phase = "leave" /\ s.kind = q.kind
        /\ s.written = q.written /\ s.verdict = "done" /\ s.told = q.told
        /\ s.lost = q.lost /\ s.own = q.own
    BY <1>0, <1>5, LeavesDone
  <2>2. q.kind \in {"read", "write"} /\ q.pooled
    BY <1>0, <1>1, <1>5 DEF KindFits, PhaseFits, Ended, OnClient, CallRecords, Kinds
  <2>3. QED
    BY <1>0, <1>1, <1>5, <2>1, <2>2, Numbers
    DEF Fit, KindFits, Has, Holds, WriteHas, InTransaction, Ended, OnClient, PhaseFits
<1>6. QED
  BY <1>2, <1>3, <1>4, <1>5 DEF Succeeding

\* What a failed or an answered statement leaves as it is.
LEMMA FailedMoves ==
    ASSUME NEW q \in CallRecords, KindFits(q), q.phase \notin Ended,
           NEW error, NEW s, Failing(q, error, s),
           NEW l \in SUBSET {"connection", "transient"}, NEW u, u = Misled(s, l)
    PROVE  Moved(u, q)
<1>1. q.verdict = "nothing" /\ q.written \in Counts
  BY DEF KindFits, CallRecords
<1>2. CASE s = Sent(q, "rollback") \/ s = Asleep(q)
  <2>1. s \in CallRecords /\ s.kind = q.kind /\ s.told = q.told /\ s.written = q.written
    BY <1>2, SentFields, AsleepFields
  <2>2. u.kind = q.kind /\ u.told = q.told /\ u.written = q.written
    BY <2>1, MisledFields
  <2>3. QED
    BY <1>1, <2>2 DEF Moved
<1>3. CASE s = Left(Rested(q), "failed", FALSE)
  <2>1. s \in CallRecords /\ s.kind = q.kind /\ s.told = q.told /\ s.written = q.written
    BY <1>3, LeavesFailed
  <2>2. u.kind = q.kind /\ u.told = q.told /\ u.written = q.written
    BY <2>1, MisledFields
  <2>3. QED
    BY <1>1, <2>2 DEF Moved
<1>4. CASE s = Thrown(Sent(q, "rollback")) /\ q.stmt \in {"select", "write"}
  <2>1. s \in CallRecords /\ s.kind = q.kind /\ s.told = q.told
    BY <1>4, ThrownFields
  <2>2. u.kind = q.kind /\ u.told = q.told
    BY <2>1, MisledFields
  <2>3. QED
    BY <1>1, <1>4, <2>2 DEF Moved
<1>5. CASE \E h \in BOOLEAN : s = Working(Rested(q), h, q.written)
  <2>1. s \in CallRecords /\ s.kind = q.kind /\ s.told = q.told /\ s.written = q.written
    BY <1>1, <1>5, WorkingFields
  <2>2. u.kind = q.kind /\ u.told = q.told /\ u.written = q.written
    BY <2>1, MisledFields
  <2>3. QED
    BY <1>1, <2>2 DEF Moved
<1>6. QED
  BY <1>2, <1>3, <1>4, <1>5 DEF Failing

LEMMA FailedLost ==
    ASSUME NEW q, GoodCall(q), q.phase \in {"waiting", "flight"}, NEW error,
           NEW s, Failing(q, error, s)
    PROVE  s \in CallRecords /\ s.lost = q.lost /\ s.own = q.own
<1>1. q \in CallRecords /\ q.written \in Counts
  BY DEF GoodCall, CallRecords
<1>2. CASE s = Sent(q, "rollback") \/ s = Asleep(q)
  BY <1>1, <1>2, SentFields, AsleepFields
<1>3. CASE s = Left(Rested(q), "failed", FALSE)
  BY <1>1, <1>3, LeavesFailed
<1>4. CASE s = Thrown(Sent(q, "rollback"))
  BY <1>1, <1>4, ThrownFields
<1>5. CASE \E h \in BOOLEAN : s = Working(Rested(q), h, q.written)
  BY <1>1, <1>5, WorkingFields
<1>6. QED
  BY <1>2, <1>3, <1>4, <1>5 DEF Failing

\* A failed statement that had no effect.
LEMMA FailedQuietly ==
    ASSUME NEW q, GoodCall(q), q.phase \in {"waiting", "flight"}, NEW x, NEW y,
           NEW m \in Nat, NEW m2 \in Nat, NEW a \in Nat, NEW n \in Nat,
           Fit(q, x, m, a, n), NEW error, NEW s, Failing(q, error, s),
           x.link = "broken" => y.link = "broken",
           y.link = "open" => /\ x.link = "open"
                              /\ x.tx # "none" /\ q.stmt # "commit" => y.tx # "none",
           y.tx = "open" => x.tx = "open" /\ m2 = m,
           y.tx = "aborted" =>
                \/ x.tx = "aborted"
                \/ q.stmt \in {"select", "write"} /\ ~ q.pooled /\ error = "other"
    PROVE  Fit(s, y, m2, a, n) /\ Moved(s, q)
<1> DEFINE l == q.lost
           k == 0
<1>1. /\ q \in CallRecords /\ l \in SUBSET {"connection", "transient"}
      /\ s \in CallRecords /\ s.lost = l
  BY FailedLost DEF GoodCall, CallRecords
<1>2. s = Misled(s, l)
  BY <1>1 DEF Misled, CallRecords
<1>3. KindFits(q) /\ q.phase \notin Ended
  BY DEF Fit, Ended
<1>4. k \in {0, 1} /\ k # 1 /\ q.lost \subseteq l
  OBVIOUS
<1> HIDE DEF l, k
<1>5. Fit(s, y, m2, a, n + k)
  BY <1>1, <1>2, <1>4, FailedFits
<1>6. Moved(s, q)
  BY <1>1, <1>2, <1>3, FailedMoves
<1>7. QED
  BY <1>5, <1>6 DEF k

LEMMA AnsweredMoves ==
    ASSUME NEW q, GoodCall(q), KindFits(q), q.phase = "flight", NEW s, Succeeding(q, s)
    PROVE  Moved(s, q)
<1>1. q.verdict = "nothing" /\ q.written \in Counts /\ q \in CallRecords /\ q.phase \notin Ended
  BY DEF KindFits, CallRecords, GoodCall, Ended
<1>2. CASE s = Left(Rested(q), "failed", FALSE)
  BY <1>1, <1>2, LeavesFailed DEF Moved
<1>3. CASE s = Left(Rested(q), "done", q.hid)
  BY <1>1, <1>3, LeavesDone DEF Moved
<1>4. CASE q.stmt # "rollback" /\ \E h \in BOOLEAN, i \in Counts : s = Working(Rested(q), h, i)
  <2>1. s.kind = q.kind /\ s.told = q.told
    BY <1>1, <1>4, WorkingFields
  <2>2. QED
    BY <1>1, <1>4, <2>1 DEF Moved
<1>5. CASE /\ q.stmt # "rollback" /\ q.own # None
           /\ s = Working(Rested(q), q.hid, IF q.stmt = "write" THEN q.written + 1 ELSE q.written)
  <2> DEFINE h == q.hid
             i == IF q.stmt = "write" THEN q.written + 1 ELSE q.written
  <2>1. q.kind \in OnClient
    BY <1>5 DEF GoodCall, PlacesFit
  <2>2. h \in BOOLEAN /\ i \in Counts
    BY <1>1, <2>1, Numbers DEF CallRecords, GoodCall, StepsFit, Counts
  <2>3. s = Working(Rested(q), h, i)
    BY <1>5
  <2> HIDE DEF h, i
  <2>4. QED
    BY <1>4, <1>5, <2>2, <2>3
<1>6. q.stmt = "begin" => q.own # None
  BY DEF GoodCall, PhaseFits, StatementFits
<1>7. CASE q.stmt = "begin" /\ s = Working(Rested(q), q.hid, q.written)
  BY <1>5, <1>6, <1>7
<1>8. CASE /\ q.stmt \in {"select", "write"} /\ q.own # None
           /\ s = Working(Rested(q), q.hid, IF q.stmt = "write" THEN q.written + 1 ELSE q.written)
  BY <1>5, <1>8
<1>9. QED
  BY <1>2, <1>3, <1>7, <1>8 DEF Succeeding

-----------------------------------------------------------------------------
(* The other steps of a call *)

LEMMA AskedFits ==
    ASSUME NEW q, GoodCall(q), q.phase = "new", NEW x, NEW y, NEW m, NEW m2, NEW a, NEW n,
           Fit(q, x, m, a, n), NEW stmt \in {"select", "write"}, NEW kind \in {"read", "write"},
           stmt = IF kind = "read" THEN "select" ELSE "write", NEW u, u = Asked(q, stmt, kind)
    PROVE  Fit(u, y, m2, a, n)
<1>1. /\ q \in CallRecords /\ q.own = None /\ q.kind = "none" /\ kind \in Kinds
      /\ q.verdict = "nothing" /\ q.told = "nothing" /\ a = 0 /\ n = 0
  BY DEF GoodCall, PhaseFits, NewCall, Fit, KindFits, Has, Ended, Kinds
<1>2. /\ u.stmt = stmt /\ u.pooled /\ u.attempt = 1 /\ u.phase = "waiting" /\ u.kind = kind
      /\ u.own = None /\ u.verdict = "nothing" /\ u.told = "nothing"
  BY <1>1, AskedFields
<1>3. KindFits(u) /\ Holds(u, y, m2)
  BY <1>2 DEF KindFits, Holds, InTransaction, Ended, OnClient
<1>4. Has(u, y, a, n)
  BY <1>1, <1>2 DEF Has, WriteHas, Ended
<1>5. QED
  BY <1>3, <1>4 DEF Fit

LEMMA WantedFits ==
    ASSUME NEW q, GoodCall(q), q.phase = "new", NEW x, NEW y, NEW m, NEW m2, NEW a, NEW n,
           Fit(q, x, m, a, n), NEW kind \in OnClient, y.link = "closed", y.tx = "none",
           NEW u, u = Wanted(q, kind)
    PROVE  Fit(u, y, m2, a, n)
<1>1. /\ q \in CallRecords /\ q.own = None /\ q.kind = "none" /\ kind \in Kinds
      /\ q.verdict = "nothing" /\ q.told = "nothing" /\ a = 0 /\ n = 0
      /\ q.stmt = "none" /\ q.written = 0
  BY DEF GoodCall, PhaseFits, NewCall, Fit, KindFits, Has, Ended, Kinds, OnClient
<1>2. /\ u.stmt = "none" /\ u.phase = "waiting" /\ u.kind = kind /\ u.own = None
      /\ u.verdict = "nothing" /\ u.told = "nothing" /\ u.written = 0
  BY <1>1, WantedFields
<1>3. KindFits(u) /\ Holds(u, y, m2)
  BY <1>2 DEF KindFits, Holds, InTransaction, Ended, OnClient
<1>4. Has(u, y, a, n)
  BY <1>1, <1>2 DEF Has, TransactionHas, SessionHas, Ended, OnClient
<1>5. QED
  BY <1>3, <1>4 DEF Fit

LEMMA ServedFits ==
    ASSUME NEW q, GoodCall(q), q.phase = "waiting", NEW x, NEW m, NEW a, NEW n,
           Fit(q, x, m, a, n), NEW k \in Conns, NEW u, u = Served(q, k)
    PROVE  Fit(u, x, m, a, n) /\ Moved(u, q)
<1>1. q \in CallRecords
  BY DEF GoodCall
<1>2. /\ u.phase = "flight" /\ u.kind = q.kind /\ u.own = q.own /\ u.stmt = q.stmt
      /\ u.pooled = q.pooled /\ u.attempt = q.attempt /\ u.written = q.written
      /\ u.verdict = q.verdict /\ u.told = q.told /\ u.lost = q.lost /\ u.hid = q.hid
  BY <1>1, ServedFields
<1>3. KindFits(u) /\ Holds(u, x, m)
  BY <1>2 DEF Fit, KindFits, Holds, InTransaction, Ended
<1>4. Has(u, x, a, n)
  BY <1>2 DEF Fit, Has, WriteHas, TransactionHas, SessionHas, Unanswered, Ended
<1>5. QED
  BY <1>2, <1>3, <1>4 DEF Fit, Moved

LEMMA BegunFits ==
    ASSUME NEW q, GoodCall(q), q.phase = "waiting", ~ q.pooled, q.kind = "transaction",
           NEW x, NEW y, NEW m, NEW m2, NEW a, NEW n, Fit(q, x, m, a, n),
           NEW k \in Conns, NEW u, u = Begun(q, k)
    PROVE  Fit(u, y, m2, a, n) /\ Moved(u, q)
<1>1. q \in CallRecords /\ q.own = None /\ q.stmt = "none" /\ q.written = 0
  BY DEF GoodCall, PhaseFits, Fit, KindFits, Ended, OnClient
<1>2. /\ u.stmt = "begin" /\ u.phase = "flight" /\ u.kind = q.kind /\ u.own = k
      /\ u.written = q.written /\ u.verdict = q.verdict /\ u.told = q.told /\ u.lost = q.lost
  BY <1>1, BegunFields
<1>3. KindFits(u) /\ Holds(u, y, m2)
  BY <1>1, <1>2, CallersAssumption DEF Fit, KindFits, Holds, InTransaction, Ended
<1>4. Has(u, y, a, n)
  BY <1>1, <1>2 DEF Fit, KindFits, Has, TransactionHas, Ended
<1>5. QED
  BY <1>1, <1>2, <1>3, <1>4 DEF Fit, Moved, Ended

LEMMA OpenedFits ==
    ASSUME NEW q, GoodCall(q), q.phase = "waiting", ~ q.pooled, q.kind = "session",
           NEW x, NEW y, NEW m, NEW m2, NEW a, NEW n, Fit(q, x, m, a, n), x.link = "closed",
           NEW k \in Conns, NEW u, u = Opened(q, k)
    PROVE  Fit(u, y, m2, a, n) /\ Moved(u, q)
<1>1. q \in CallRecords /\ q.stmt = "none"
  BY DEF GoodCall, PhaseFits
<1>2. /\ u.stmt = "none" /\ u.phase = "work" /\ u.kind = q.kind /\ u.own = k
      /\ u.written = q.written /\ u.verdict = q.verdict /\ u.told = q.told /\ u.lost = q.lost
  BY <1>1, OpenedFields
<1>3. KindFits(u) /\ Holds(u, y, m2)
  BY <1>1, <1>2, CallersAssumption DEF Fit, KindFits, Holds, InTransaction, Ended
<1>4. Has(u, y, a, n)
  BY <1>1, <1>2 DEF Fit, KindFits, Has, SessionHas, Ended
<1>5. QED
  BY <1>1, <1>2, <1>3, <1>4 DEF Fit, Moved, Ended

LEMMA WokenFits ==
    ASSUME NEW q, GoodCall(q), q.phase = "sleep", NEW x, NEW m, NEW a \in Nat, NEW n \in Nat,
           Fit(q, x, m, a, n), NEW p \in {"waiting", "flight"},
           NEW i \in Attempts, i = q.attempt + 1, NEW u, u = Woken(q, i, p)
    PROVE  Fit(u, x, m, a, n) /\ Moved(u, q)
<1>1. q \in CallRecords
  BY DEF GoodCall
<1>2. /\ u.attempt = i /\ u.phase = p /\ u.kind = q.kind /\ u.own = q.own /\ u.stmt = q.stmt
      /\ u.pooled = q.pooled /\ u.written = q.written
      /\ u.verdict = q.verdict /\ u.told = q.told /\ u.lost = q.lost /\ u.hid = q.hid
  BY <1>1, WokenFields
<1>3. KindFits(u) /\ Holds(u, x, m)
  BY <1>2 DEF Fit, KindFits, Holds, InTransaction, Ended
<1>4. Has(u, x, a, n)
  BY <1>1, <1>2, Numbers DEF Fit, Has, WriteHas, TransactionHas, SessionHas, Unanswered, Ended
<1>5. QED
  BY <1>2, <1>3, <1>4 DEF Fit, Moved, Ended

\* The work sends a statement, or the COMMIT after it.
LEMMA SendingFits ==
    ASSUME NEW q, GoodCall(q), q.phase = "work", NEW x, NEW m, NEW a, NEW n,
           Fit(q, x, m, a, n), NEW u,
           u.phase \in {"waiting", "flight"}, u.stmt \in {"select", "write", "commit"},
           u.kind = q.kind, u.own = q.own, u.written = q.written, u.verdict = q.verdict,
           u.told = q.told, u.lost = q.lost, u.hid = q.hid
    PROVE  Fit(u, x, m, a, n) /\ Moved(u, q)
<1>1. q.own # None /\ q.stmt = "none" /\ q.kind \in OnClient
  BY DEF GoodCall, PhaseFits, PlacesFit
<1>2. KindFits(u) /\ Holds(u, x, m)
  BY <1>1 DEF Fit, KindFits, Holds, InTransaction, Ended, OnClient
<1>3. Has(u, x, a, n)
  BY <1>1 DEF Fit, KindFits, Has, TransactionHas, SessionHas, Ended, OnClient
<1>4. QED
  BY <1>1, <1>2, <1>3 DEF Fit, Moved, Ended

\* The work of a transaction throws.
LEMMA ThrownFits ==
    ASSUME NEW q, GoodCall(q), q.phase = "work", q.kind = "transaction",
           NEW x, NEW y, NEW m, NEW m2, NEW a, NEW n,
           Fit(q, x, m, a, n), NEW u, u = Thrown(Sent(q, "rollback"))
    PROVE  Fit(u, y, m2, a, n) /\ Moved(u, q)
<1>1. q \in CallRecords /\ q.own # None /\ q.stmt = "none"
  BY DEF GoodCall, PhaseFits
<1>2. /\ u.stmt = "rollback" /\ u.phase = "flight" /\ u.kind = q.kind /\ u.own = q.own
      /\ u.written = 0 /\ u.verdict = q.verdict /\ u.told = q.told /\ u.lost = q.lost
  BY <1>1, ThrownFields
<1>3. KindFits(u) /\ Holds(u, y, m2)
  BY <1>1, <1>2 DEF Fit, KindFits, Holds, InTransaction, Ended, OnClient
<1>4. Has(u, y, a, n)
  BY <1>1, <1>2 DEF Fit, KindFits, Has, TransactionHas, Unanswered, Ended
<1>5. QED
  BY <1>1, <1>2, <1>3, <1>4 DEF Fit, Moved, Ended

\* The work of a session ends.
LEMMA LeavingFits ==
    ASSUME NEW q, GoodCall(q), q.phase = "work", q.kind = "session",
           NEW x, NEW m, NEW a, NEW n, Fit(q, x, m, a, n),
           NEW u, u.stmt = "none", u.phase = "leave", u.kind = q.kind, u.own = q.own,
           u.written = q.written, u.verdict \in {"done", "failed"}, u.told = q.told,
           u.lost = q.lost
    PROVE  Fit(u, x, m, a, n) /\ Moved(u, q)
<1>1. q.own # None /\ q.stmt = "none"
  BY DEF GoodCall, PhaseFits
<1>2. KindFits(u) /\ Holds(u, x, m)
  BY <1>1 DEF Fit, KindFits, Holds, InTransaction, Ended, OnClient
<1>3. Has(u, x, a, n)
  BY <1>1 DEF Fit, Has, SessionHas
<1>4. QED
  BY <1>1, <1>2, <1>3 DEF Fit, Moved, KindFits, Ended

LEMMA SettledFits ==
    ASSUME NEW q, GoodCall(q), q.phase = "leave", NEW x, NEW y, NEW m, NEW m2, NEW a, NEW n,
           Fit(q, x, m, a, n), NEW u, u = Settled(q)
    PROVE  Fit(u, y, m2, a, n)
<1>1. q \in CallRecords
  BY DEF GoodCall
<1>2. /\ u.phase = "done" /\ u.told = q.verdict /\ u.own = None /\ u.kind = q.kind
      /\ u.stmt = q.stmt /\ u.pooled = q.pooled /\ u.attempt = q.attempt
      /\ u.written = q.written /\ u.verdict = q.verdict /\ u.lost = q.lost /\ u.hid = q.hid
  BY <1>1, SettledFields
<1>3. KindFits(u) /\ Holds(u, y, m2)
  BY <1>2 DEF Fit, KindFits, Holds, InTransaction, Ended
<1>4. Has(u, y, a, n)
  BY <1>2 DEF Fit, Has, WriteHas, TransactionHas, SessionHas, Unanswered, Ended
<1>5. QED
  BY <1>3, <1>4 DEF Fit

\* A client breaks while nothing is sent on it.
LEMMA BrokenFits ==
    ASSUME NEW q, NEW x, NEW y, NEW m, NEW m2, NEW a, NEW n, Fit(q, x, m, a, n),
           x.link # "broken", y.link = "broken", y.tx = "none"
    PROVE  Fit(q, y, m2, a, n)
BY DEF Fit, Has, Holds, SessionHas

-----------------------------------------------------------------------------
(* What the steps do to the effects of all callers *)

LEMMA OrphanCount ==
    ASSUME IInv, OrphansFit, NEW c \in Callers
    PROVE  /\ IsFiniteSet(Owed(c)) /\ Cardinality(Owed(c)) \in Nat
           /\ Cardinality(Owed(c)) = 0 <=> Owed(c) = {}
<1>1. Owed(c) \subseteq orphans
  BY DEF Owed
<1>2. IsFiniteSet(Owed(c))
  BY <1>1, FS_Subset DEF OrphansFit
<1>3. QED
  BY <1>2, FS_CardinalityType, FS_EmptySet

LEMMA OwnTyped ==
    ASSUME IInv, NEW c \in Callers
    PROVE  /\ Own(c) \in Sessions /\ Own(c).writes[c] \in Nat
           /\ Own(c).tx \in {"none", "open", "aborted"} /\ Own(c).link \in {"closed", "open", "broken"}
           /\ call[c].own = None => Own(c) = Closed
           /\ call[c].own # None => /\ call[c].own \in Conns /\ Own(c) = conn[call[c].own]
                                    /\ conn[call[c].own].holder = c
<1>1. call[c].own \in Conns \cup {None}
  BY Before DEF CallRecords
<1>2. CASE call[c].own = None
  BY <1>2, FreshSession DEF Own, Sessions
<1>3. CASE call[c].own # None
  <2>1. call[c].own \in Conns
    BY <1>1, <1>3
  <2>2. conn[call[c].own] \in Sessions /\ conn[call[c].own].holder = c
    BY <2>1, Before
  <2>3. QED
    BY <1>3, <2>1, <2>2 DEF Own, Sessions
<1>4. QED
  BY <1>2, <1>3

\* The connections change that c holds, or that nobody does.
ConnsOf(c) == \A k \in Conns : conn'[k] = conn[k] \/ conn[k].holder \in {c, None}

LEMMA OthersKept ==
    ASSUME IInv, NEW c \in Callers, NEW s, call' = [call EXCEPT ![c] = s], ConnsOf(c),
           NEW d \in Callers \ {c}
    PROVE  call'[d] = call[d] /\ Own(d)' = Own(d)
<1>1. call'[d] = call[d]
  OBVIOUS
<1>2. CASE call[d].own = None
  BY <1>1, <1>2 DEF Own
<1>3. CASE call[d].own # None
  <2>1. call[d].own \in Conns /\ conn[call[d].own].holder = d /\ d # None
    BY <1>3, OwnTyped, CallersAssumption
  <2>2. conn'[call[d].own] = conn[call[d].own]
    BY <2>1 DEF ConnsOf
  <2>3. QED
    BY <1>1, <2>2 DEF Own
<1>4. QED
  BY <1>2, <1>3

LEMMA EffectsKept ==
    ASSUME NEW d \in Callers, Effects(d), call'[d] = call[d], Own(d)' = Own(d),
           applied'[d] = applied[d], Owed(d)' = Owed(d)
    PROVE  Effects(d)'
BY DEF Effects

LEMMA OneCaller ==
    ASSUME EInv, IInv', NEW c \in Callers, NEW s, call' = [call EXCEPT ![c] = s], ConnsOf(c),
           \A d \in Callers \ {c} : applied'[d] = applied[d] /\ Owed(d)' = Owed(d),
           OrphansFit', Effects(c)'
    PROVE  EInv'
<1>1. ASSUME NEW d \in Callers \ {c}
      PROVE  Effects(d)'
  BY <1>1, OthersKept, EffectsKept DEF EInv
<1>2. QED
  BY <1>1 DEF EInv

\* What a step does to the caller's part of the abstract work.
Moves(c) ==
    /\ \A d \in Callers \ {c} : call'[d] = call[d] /\ applied'[d] = applied[d]
    /\ Moved(call'[c], call[c])
    /\ applied'[c] >= applied[c]
    /\ call[c].kind # "transaction" => applied'[c] <= applied[c] + 1

LEMMA WrittenStays ==
    ASSUME EInv, NEW c \in Callers, NEW s, Moved(s, call[c]), Owed(c) # {}
    PROVE  s.kind = call[c].kind /\ (s.kind = "transaction" => s.written = call[c].written)
<1>1. Cardinality(Owed(c)) # 0
  BY OrphanCount DEF EInv
<1>2. Has(call[c], Own(c), applied[c], Cardinality(Owed(c)))
  BY DEF EInv, Effects, Fit
<1>3. QED
  BY <1>1, <1>2 DEF Has, TransactionHas, Moved

\* A step of c without an effect.
LEMMA NothingDone ==
    ASSUME EInv, IInv', NEW c \in Callers, NEW s, call' = [call EXCEPT ![c] = s], ConnsOf(c),
           applied' = applied, orphans' = orphans, breaks' \in {breaks, breaks + 1},
           NEW y, y = Own(c)',
           Fit(s, y, y.writes[c], applied[c], Cardinality(Owed(c))),
           \/ Owed(c) = {}
           \/ Moved(s, call[c])
           \/ s.kind = call[c].kind /\ s.written = call[c].written
    PROVE  EInv' /\ (Moved(s, call[c]) => Moves(c))
<1>1. call'[c] = s
  BY DEF EInv, IInv
<1>2. \A d \in Callers : Owed(d)' = Owed(d)
  BY DEF Owed
<1>3. OrphansFit'
  <2>1. breaks \in Nat /\ breaks' \in Nat /\ breaks <= breaks'
    BY BoundsAssumption DEF EInv, IInv, RestTyped
  <2>2. \A o \in orphans : o.id \in Nat
    BY BoundsAssumption DEF EInv, IInv, RestTyped
  <2>3. QED
    BY <2>1, <2>2 DEF EInv, OrphansFit
<1>4. Effects(c)'
  <2>1. \A o \in Owed(c) : o.writes[c] = IF s.kind = "transaction" THEN s.written ELSE 1
    BY WrittenStays DEF EInv, Effects
  <2>2. QED
    BY <1>1, <1>2, <2>1 DEF Effects
<1>5. EInv'
  BY <1>2, <1>3, <1>4, OneCaller
<1>6. applied[c] \in Nat
  BY DEF EInv, IInv, RestTyped
<1>7. QED
  BY <1>1, <1>5, <1>6 DEF Moves, EInv, IInv

\* What is known of a caller's effects.
LEMMA Known ==
    ASSUME EInv, NEW c \in Callers
    PROVE  /\ IInv /\ GoodCall(call[c]) /\ call[c] \in CallRecords /\ applied[c] \in Nat
           /\ Cardinality(Owed(c)) \in Nat
           /\ Fit(call[c], Own(c), Own(c).writes[c], applied[c], Cardinality(Owed(c)))
           /\ KindFits(call[c])
BY OrphanCount, Before DEF EInv, IInv, RestTyped, Effects, Fit

LEMMA StartEffects ==
    ASSUME EInv, IInv', NEW c \in Callers, Start(c)
    PROVE  EInv'
<1>1. /\ GoodCall(call[c]) /\ call[c].phase = "new" /\ call[c].own = None
      /\ Fit(call[c], Own(c), Own(c).writes[c], applied[c], Cardinality(Owed(c)))
      /\ Cardinality(Owed(c)) = 0
  <2>1. call[c].phase = "new" /\ GoodCall(call[c])
    BY Known DEF Start, Phase
  <2>2. call[c].own = None /\ call[c].kind = "none"
    BY <2>1 DEF GoodCall, PhaseFits, NewCall
  <2>3. QED
    BY <2>1, <2>2, Known DEF Fit, Has
<1>2. PICK kind \in Kinds :
        call' = [call EXCEPT ![c] =
                [(IF kind \in OnClient THEN [@ EXCEPT !.phase = "waiting"]
                  ELSE SendByPool(c, IF kind = "read" THEN "select" ELSE "write"))
                 EXCEPT !.kind = kind]]
  BY DEF Start
<1> DEFINE s == [(IF kind \in OnClient THEN [call[c] EXCEPT !.phase = "waiting"]
                  ELSE SendByPool(c, IF kind = "read" THEN "select" ELSE "write"))
                 EXCEPT !.kind = kind]
<1>3. call' = [call EXCEPT ![c] = s]
  BY <1>2
<1>4. /\ s.own = None
      /\ Fit(s, Closed, Closed.writes[c], applied[c], Cardinality(Owed(c)))
  <2>1. CASE kind \in OnClient
    <3>1. s = Wanted(call[c], kind)
      BY <2>1 DEF Wanted
    <3> HIDE DEF s
    <3>2. kind \in Kinds /\ call[c] \in CallRecords
      BY Known
    <3>3. s.own = None
      BY <1>1, <3>1, <3>2, WantedFields
    <3>4. QED
      BY <1>1, <2>1, <3>1, <3>3, FreshSession, WantedFits
  <2>2. CASE kind \notin OnClient
    <3> DEFINE stmt == IF kind = "read" THEN "select" ELSE "write"
    <3>1. s = Asked(call[c], stmt, kind) /\ stmt \in {"select", "write"} /\ kind \in {"read", "write"}
      BY <1>2, <2>2 DEF SendByPool, Queued, Asked, Kinds, OnClient
    <3>2. stmt = IF kind = "read" THEN "select" ELSE "write"
      OBVIOUS
    <3> HIDE DEF s, stmt
    <3>3. call[c] \in CallRecords /\ kind \in Kinds
      BY Known
    <3>4. s.own = None
      BY <1>1, <3>1, <3>3, AskedFields
    <3>5. QED
      BY <1>1, <3>1, <3>2, <3>4, AskedFits
  <2>3. QED
    BY <2>1, <2>2
<1> HIDE DEF s
<1>5. Own(c)' = Closed
  BY <1>3, <1>4 DEF Own, EInv, IInv
<1>6. Owed(c) = {}
  BY <1>1, OrphanCount DEF EInv
<1>7. ConnsOf(c) /\ applied' = applied /\ orphans' = orphans /\ breaks' \in {breaks, breaks + 1}
  BY DEF Start, ConnsOf
<1>8. QED
  BY <1>3, <1>4, <1>5, <1>6, <1>7, NothingDone

LEMMA ServeEffects ==
    ASSUME EInv, IInv', NEW c \in Callers, Serve(c)
    PROVE  EInv' /\ Moves(c)
<1>1. PICK k \in Places :
        /\ conn' = [conn EXCEPT ![k].link = "open", ![k].holder = c]
        /\ call' = [call EXCEPT ![c] =
            IF call[c].pooled THEN [@ EXCEPT !.at = k, !.phase = "flight"]
            ELSE IF call[c].kind = "transaction" THEN [Send(c, "begin") EXCEPT !.own = k]
            ELSE [@ EXCEPT !.own = k, !.phase = "work"]]
  BY DEF Serve
<1>2. k \in Conns /\ conn[k].holder = None /\ k # None
  BY PlaceIsFree, CallersAssumption
<1>3. /\ GoodCall(call[c]) /\ call[c].phase = "waiting" /\ call[c] \in CallRecords
      /\ Fit(call[c], Own(c), Own(c).writes[c], applied[c], Cardinality(Owed(c)))
  <2>1. waiters \in Seq(Callers) /\ waiters # <<>> /\ waiters[1] = c /\ 1 \in DOMAIN waiters
    BY DEF Serve, EInv, IInv, WaitersWait
  <2>2. QED
    BY <2>1, Known DEF EInv, IInv, WaitersWait, Phase
<1> DEFINE s == IF call[c].pooled THEN Served(call[c], k)
                ELSE IF call[c].kind = "transaction" THEN Begun(call[c], k)
                ELSE Opened(call[c], k)
           t == [conn[k] EXCEPT !.link = "open", !.holder = c]
           y == Own(c)'
<1>4. call' = [call EXCEPT ![c] = s] /\ call'[c] = s
  BY <1>1 DEF Served, Begun, Opened, Send, Sent, EInv, IInv
<1>5. conn' = [conn EXCEPT ![k] = t]
  BY <1>1, <1>2 DEF EInv, IInv, ConnsHeld
<1> HIDE DEF t
<1>6. ConnsOf(c)
  BY <1>2, <1>5 DEF ConnsOf, EInv, IInv, ConnsHeld
<1>7. /\ Fit(s, y, y.writes[c], applied[c], Cardinality(Owed(c)))
      /\ Moved(s, call[c])
  <2>1. CASE call[c].pooled
    <3>1. s = Served(call[c], k)
      BY <2>1
    <3> HIDE DEF s
    <3>2. s.own = call[c].own
      BY <1>3, <1>2, <3>1, ServedFields
    <3>3. y = Own(c)
      <4>1. CASE call[c].own = None
        BY <1>4, <3>2, <4>1 DEF Own
      <4>2. CASE call[c].own # None
        <5>1. call[c].own \in Conns /\ call[c].own # k
          BY <1>2, <4>2, OwnTyped, CallersAssumption DEF EInv
        <5>2. conn'[call[c].own] = conn[call[c].own]
          BY <1>5, <5>1
        <5>3. QED
          BY <1>4, <3>2, <4>2, <5>2 DEF Own
      <4>3. QED
        BY <4>1, <4>2
    <3>4. QED
      BY <1>2, <1>3, <3>1, <3>3, ServedFits
  <2>2. CASE ~ call[c].pooled /\ call[c].kind = "transaction"
    <3>1. s = Begun(call[c], k)
      BY <2>2
    <3> HIDE DEF s, y
    <3>2. QED
      BY <1>2, <1>3, <2>2, <3>1, BegunFits
  <2>3. CASE ~ call[c].pooled /\ call[c].kind # "transaction"
    <3>1. s = Opened(call[c], k)
      BY <2>3
    <3>2. call[c].kind = "session" /\ call[c].own = None
      BY <1>3, <2>3 DEF GoodCall, PhaseFits, OnClient
    <3>3. Own(c).link = "closed"
      BY <3>2, FreshSession DEF Own
    <3> HIDE DEF s, y
    <3>4. QED
      BY <1>2, <1>3, <2>3, <3>1, <3>2, <3>3, OpenedFits
  <2>4. QED
    BY <2>1, <2>2, <2>3
<1> HIDE DEF s
<1>8. applied' = applied /\ orphans' = orphans /\ breaks' \in {breaks, breaks + 1}
  BY DEF Serve
<1>9. QED
  BY <1>4, <1>6, <1>7, <1>8, NothingDone

\* The session of a caller whose connection did not change.
LEMMA OwnKept ==
    ASSUME EInv, NEW c \in Callers, NEW s, call' = [call EXCEPT ![c] = s],
           s.own = call[c].own,
           call[c].own # None => conn'[call[c].own] = conn[call[c].own]
    PROVE  Own(c)' = Own(c)
BY DEF Own, EInv, IInv

LEMMA ConnectEffects ==
    ASSUME EInv, IInv', NEW c \in Callers, CannotConnect(c) \/ FailsOnBroken(c)
    PROVE  EInv' /\ Moves(c)
<1>1. PICK error : \E s \in AfterFailure(c, error) : call' = [call EXCEPT ![c] = s]
  BY DEF CannotConnect, FailsOnBroken
<1>2. PICK s \in AfterFailure(c, error) : call' = [call EXCEPT ![c] = s]
  BY <1>1
<1>3. /\ call[c].phase \in {"waiting", "flight"} /\ conn' = conn /\ applied' = applied
      /\ orphans' = orphans /\ breaks' = breaks
  BY DEF CannotConnect, FailsOnBroken, Phase
<1>4. /\ GoodCall(call[c]) /\ call[c] \in CallRecords /\ applied[c] \in Nat
      /\ Cardinality(Owed(c)) \in Nat /\ Own(c).writes[c] \in Nat
      /\ Fit(call[c], Own(c), Own(c).writes[c], applied[c], Cardinality(Owed(c)))
  BY Known, OwnTyped
<1>5. Failing(call[c], error, s)
  BY <1>2, <1>4, AfterFailureIs
<1>6. /\ Fit(s, Own(c), Own(c).writes[c], applied[c], Cardinality(Owed(c)))
      /\ Moved(s, call[c])
  <2> DEFINE q == call[c]
             x == Own(c)
             m == Own(c).writes[c]
             a == applied[c]
             n == Cardinality(Owed(c))
  <2>1. /\ GoodCall(q) /\ q.phase \in {"waiting", "flight"} /\ Failing(q, error, s)
        /\ m \in Nat /\ a \in Nat /\ n \in Nat /\ Fit(q, x, m, a, n)
    BY <1>3, <1>4, <1>5
  <2> HIDE DEF q, x, m, a, n
  <2>2. Fit(s, x, m, a, n) /\ Moved(s, q)
    BY <2>1, FailedQuietly
  <2>3. QED
    BY <2>2 DEF q, x, m, a, n
<1>7. s.own = call[c].own
  BY <1>3, <1>4, <1>5, FailedLost
<1>8. Own(c)' = Own(c)
  BY <1>2, <1>3, <1>7, OwnKept
<1>9. call'[c] = s /\ ConnsOf(c)
  BY <1>2, <1>3 DEF EInv, IInv, ConnsOf
<1>10. QED
  BY <1>2, <1>3, <1>6, <1>8, <1>9, NothingDone

LEMMA RetryEffects ==
    ASSUME EInv, IInv', NEW c \in Callers, Retry(c)
    PROVE  EInv' /\ Moves(c)
<1> DEFINE p == IF call[c].pooled THEN "waiting" ELSE "flight"
           i == call[c].attempt + 1
           s == Woken(call[c], i, p)
<1>1. /\ GoodCall(call[c]) /\ call[c].phase = "sleep" /\ call[c] \in CallRecords
      /\ applied[c] \in Nat /\ Cardinality(Owed(c)) \in Nat
      /\ Fit(call[c], Own(c), Own(c).writes[c], applied[c], Cardinality(Owed(c)))
  BY Known DEF Retry, Phase
<1>2. i \in Attempts /\ p \in {"waiting", "flight"}
  BY <1>1, Before, AttemptsAssumption DEF GoodCall, PhaseFits, Attempts, EInv
<1>3. call' = [call EXCEPT ![c] = s]
  BY DEF Retry, Woken
<1>4. i = call[c].attempt + 1
  OBVIOUS
<1> HIDE DEF i, p
<1>5. /\ Fit(s, Own(c), Own(c).writes[c], applied[c], Cardinality(Owed(c)))
      /\ Moved(s, call[c]) /\ s.own = call[c].own
  <2> DEFINE q == call[c]
             x == Own(c)
             m == Own(c).writes[c]
             a == applied[c]
             n == Cardinality(Owed(c))
  <2>1. /\ GoodCall(q) /\ q.phase = "sleep" /\ q \in CallRecords /\ i = q.attempt + 1
        /\ a \in Nat /\ n \in Nat /\ Fit(q, x, m, a, n) /\ s = Woken(q, i, p)
    BY <1>1, <1>4
  <2> HIDE DEF q, x, m, a, n, s
  <2>2. Fit(s, x, m, a, n) /\ Moved(s, q)
    BY <1>2, <2>1, WokenFits
  <2>3. s.own = q.own
    BY <1>2, <2>1, WokenFields
  <2>4. QED
    BY <2>2, <2>3 DEF q, x, m, a, n
<1> HIDE DEF s
<1>6. /\ conn' = conn /\ applied' = applied /\ orphans' = orphans /\ breaks' = breaks
      /\ ConnsOf(c)
  BY DEF Retry, ConnsOf
<1>7. Own(c)' = Own(c)
  BY <1>3, <1>5, <1>6, OwnKept
<1>8. QED
  BY <1>3, <1>5, <1>6, <1>7, NothingDone

LEMMA SendEffects ==
    ASSUME EInv, IInv', NEW c \in Callers, WorkSends(c)
    PROVE  EInv' /\ Moves(c)
<1>1. /\ GoodCall(call[c]) /\ call[c].phase = "work" /\ call[c] \in CallRecords
      /\ Fit(call[c], Own(c), Own(c).writes[c], applied[c], Cardinality(Owed(c)))
      /\ call[c].steps + 1 \in Counts
  BY Known, Numbers DEF WorkSends, Phase, Counts
<1>2. PICK s : /\ \/ s = Writing(call[c], call[c].steps + 1)
                  \/ s = Reading(call[c], call[c].steps + 1)
               /\ call' = [call EXCEPT ![c] = s]
  BY DEF WorkSends, Send, Sent, SendByPool, Queued, Writing, Reading
<1>3. /\ s.phase \in {"waiting", "flight"} /\ s.stmt \in {"select", "write", "commit"}
      /\ s.kind = call[c].kind /\ s.own = call[c].own /\ s.written = call[c].written
      /\ s.verdict = call[c].verdict /\ s.told = call[c].told /\ s.lost = call[c].lost
      /\ s.hid = call[c].hid
  <2>1. CASE s = Writing(call[c], call[c].steps + 1)
    BY <1>1, <2>1, WritingFields
  <2>2. CASE s = Reading(call[c], call[c].steps + 1)
    BY <1>1, <2>2, ReadingFields
  <2>3. QED
    BY <1>2, <2>1, <2>2
<1>4. /\ Fit(s, Own(c), Own(c).writes[c], applied[c], Cardinality(Owed(c)))
      /\ Moved(s, call[c])
  BY <1>1, <1>3, SendingFits
<1>5. /\ conn' = conn /\ applied' = applied /\ orphans' = orphans /\ breaks' = breaks
      /\ ConnsOf(c)
  BY DEF WorkSends, ConnsOf
<1>6. Own(c)' = Own(c)
  BY <1>2, <1>3, <1>5, OwnKept
<1>7. QED
  BY <1>2, <1>4, <1>5, <1>6, NothingDone

LEMMA EndEffects ==
    ASSUME EInv, IInv', NEW c \in Callers, WorkEnds(c)
    PROVE  EInv' /\ Moves(c)
<1> DEFINE q == call[c]
<1>1. /\ GoodCall(q) /\ q.phase = "work" /\ q \in CallRecords
      /\ Fit(q, Own(c), Own(c).writes[c], applied[c], Cardinality(Owed(c)))
      /\ q.kind \in OnClient
  BY Known DEF WorkEnds, Phase, GoodCall, PhaseFits, PlacesFit
<1>2. PICK s \in {Throw(c), IF q.kind = "transaction" THEN Send(c, "commit") ELSE Leave(c, "done")} :
        call' = [call EXCEPT ![c] = s]
  BY DEF WorkEnds
<1>3. \/ q.kind = "transaction" /\ s = Thrown(Sent(q, "rollback"))
      \/ q.kind = "transaction" /\ s = Sent(q, "commit")
      \/ q.kind = "session" /\ s = Left(Rested(q), "failed", FALSE)
      \/ q.kind = "session" /\ s = Left(Rested(q), "done", q.hid)
  BY <1>1, <1>2, ThrowIs, LeaveIs DEF Send, Sent, OnClient
<1> HIDE DEF q
<1>4. /\ Fit(s, Own(c), Own(c).writes[c], applied[c], Cardinality(Owed(c)))
      /\ Moved(s, q) /\ s.own = q.own
  <2>1. CASE q.kind = "transaction" /\ s = Thrown(Sent(q, "rollback"))
    BY <1>1, <2>1, ThrownFits, ThrownFields
  <2>2. CASE q.kind = "transaction" /\ s = Sent(q, "commit")
    BY <1>1, <2>2, SentFields, SendingFits
  <2>3. CASE q.kind = "session" /\ s = Left(Rested(q), "failed", FALSE)
    <3>1. /\ s.stmt = "none" /\ s.phase = "leave" /\ s.kind = q.kind /\ s.own = q.own
          /\ s.written = q.written /\ s.verdict \in {"done", "failed"} /\ s.told = q.told
          /\ s.lost = q.lost
      BY <1>1, <2>3, LeavesFailed
    <3>2. QED
      BY <1>1, <2>3, <3>1, LeavingFits
  <2>4. CASE q.kind = "session" /\ s = Left(Rested(q), "done", q.hid)
    <3>1. /\ s.stmt = "none" /\ s.phase = "leave" /\ s.kind = q.kind /\ s.own = q.own
          /\ s.written = q.written /\ s.verdict \in {"done", "failed"} /\ s.told = q.told
          /\ s.lost = q.lost
      BY <1>1, <2>4, LeavesDone
    <3>2. QED
      BY <1>1, <2>4, <3>1, LeavingFits
  <2>5. QED
    BY <1>3, <2>1, <2>2, <2>3, <2>4
<1>5. /\ conn' = conn /\ applied' = applied /\ orphans' = orphans /\ breaks' = breaks
      /\ ConnsOf(c)
  BY DEF WorkEnds, ConnsOf
<1>6. Own(c)' = Own(c)
  BY <1>2, <1>4, <1>5, OwnKept DEF q
<1>7. QED
  BY <1>2, <1>4, <1>5, <1>6, NothingDone DEF q

LEMMA ReturnEffects ==
    ASSUME EInv, IInv', NEW c \in Callers, Return(c)
    PROVE  EInv'
<1> DEFINE s == Settled(call[c])
<1>1. /\ GoodCall(call[c]) /\ call[c].phase = "leave" /\ call[c] \in CallRecords
      /\ Fit(call[c], Own(c), Own(c).writes[c], applied[c], Cardinality(Owed(c)))
  BY Known DEF Return, Phase
<1>2. call' = [call EXCEPT ![c] = s]
  BY DEF Return, Settled
<1>3. s.own = None /\ s.kind = call[c].kind /\ s.written = call[c].written
  BY <1>1, SettledFields
<1>4. Fit(s, Closed, Closed.writes[c], applied[c], Cardinality(Owed(c)))
  BY <1>1, SettledFits
<1> HIDE DEF s
<1>5. Own(c)' = Closed /\ call'[c] = s
  BY <1>2, <1>3 DEF Own, EInv, IInv
<1>6. ConnsOf(c)
  <2>1. CASE call[c].own = None
    BY <2>1 DEF Return, Pinned, ConnsOf
  <2>2. CASE call[c].own # None
    <3> DEFINE k == call[c].own
               t == Released(conn[k])
    <3>1. k \in Conns /\ conn[k].holder = c /\ conn' = [conn EXCEPT ![k] = t]
      BY <2>2, OwnTyped DEF Return, Pinned, EInv
    <3> HIDE DEF k, t
    <3>2. QED
      BY <3>1 DEF ConnsOf, EInv, IInv, ConnsHeld
  <2>3. QED
    BY <2>1, <2>2
<1>7. applied' = applied /\ orphans' = orphans /\ breaks' = breaks
  BY DEF Return
<1>8. QED
  BY <1>2, <1>3, <1>4, <1>5, <1>6, <1>7, NothingDone

LEMMA ClientBreakEffects ==
    ASSUME EInv, IInv', NEW c \in Callers, ClientBreaks(c)
    PROVE  EInv' /\ Moves(c)
<1> DEFINE k == call[c].own
           t == [Closed EXCEPT !.link = "broken", !.holder = c]
           s == call[c]
<1>1. /\ k \in Conns /\ conn[k].holder = c /\ conn[k].link = "open" /\ Own(c) = conn[k]
      /\ conn' = [conn EXCEPT ![k] = t] /\ k # None
  BY OwnTyped DEF ClientBreaks, Pinned, EInv
<1>2. t.link = "broken" /\ t.tx = "none"
  BY DEF Closed
<1>3. call' = [call EXCEPT ![c] = s] /\ call' = call
  BY DEF ClientBreaks, EInv, IInv
<1>4. Own(c)' = t
  BY <1>1, <1>3 DEF Own, EInv, IInv, ConnsHeld
<1> HIDE DEF k, t
<1>5. Fit(s, t, t.writes[c], applied[c], Cardinality(Owed(c)))
  <2>1. Fit(s, Own(c), Own(c).writes[c], applied[c], Cardinality(Owed(c)))
    BY Known
  <2> HIDE DEF s
  <2>2. QED
    BY <1>1, <1>2, <2>1, BrokenFits
<1>6. Moved(s, call[c])
  BY DEF Moved
<1>7. ConnsOf(c)
  BY <1>1 DEF ConnsOf, EInv, IInv, ConnsHeld
<1>8. applied' = applied /\ orphans' = orphans /\ breaks' \in {breaks, breaks + 1}
  BY DEF ClientBreaks
<1> HIDE DEF s
<1>9. QED
  BY <1>3, <1>4, <1>5, <1>6, <1>7, <1>8, NothingDone

\* A step of no caller, and without an effect.
LEMMA AllKept ==
    ASSUME EInv, IInv', call' = call, applied' = applied, orphans' = orphans, breaks' = breaks,
           \A c \in Callers : call[c].own # None => conn'[call[c].own] = conn[call[c].own]
    PROVE  EInv'
<1>1. ASSUME NEW c \in Callers
      PROVE  Effects(c)'
  <2>1. Own(c)' = Own(c) /\ Owed(c)' = Owed(c)
    BY DEF Own, Owed
  <2>2. QED
    BY <2>1, EffectsKept DEF EInv
<1>2. OrphansFit'
  BY DEF EInv, OrphansFit
<1>3. QED
  BY <1>1, <1>2 DEF EInv

LEMMA CloseEffects ==
    ASSUME EInv, IInv', Close \/ Drained \/ UNCHANGED vars
    PROVE  EInv'
<1>1. ASSUME NEW c \in Callers, call[c].own # None
      PROVE  conn'[call[c].own] = conn[call[c].own]
  <2>1. call[c].own \in Conns /\ conn[call[c].own].holder # None
    BY <1>1, OwnTyped, CallersAssumption DEF EInv
  <2>2. QED
    BY <2>1 DEF Close, Drained, vars, Idle
<1>2. QED
  BY <1>1, AllKept DEF Close, Drained, vars

\* A step of c with e effects.
LEMMA SomeDone ==
    ASSUME EInv, IInv', NEW c \in Callers, NEW s, call' = [call EXCEPT ![c] = s], ConnsOf(c),
           orphans' = orphans, breaks' = breaks, NEW e \in Nat,
           applied'[c] = applied[c] + e, \A d \in Callers \ {c} : applied'[d] = applied[d],
           NEW y, y = Own(c)',
           Fit(s, y, y.writes[c], applied[c] + e, Cardinality(Owed(c))),
           Moved(s, call[c]), call[c].kind # "transaction" => e <= 1
    PROVE  EInv' /\ Moves(c)
<1>1. call'[c] = s /\ \A d \in Callers \ {c} : call'[d] = call[d]
  BY DEF EInv, IInv
<1>2. \A d \in Callers : Owed(d)' = Owed(d)
  BY DEF Owed
<1>3. OrphansFit'
  BY DEF EInv, OrphansFit
<1>4. Effects(c)'
  <2>1. \A o \in Owed(c) : o.writes[c] = IF s.kind = "transaction" THEN s.written ELSE 1
    BY WrittenStays DEF EInv, Effects
  <2>2. QED
    BY <1>1, <1>2, <2>1 DEF Effects
<1>5. EInv'
  BY <1>2, <1>3, <1>4, OneCaller
<1>6. applied[c] \in Nat
  BY DEF EInv, IInv, RestTyped
<1>7. QED
  BY <1>1, <1>5, <1>6 DEF Moves

\* The session of a caller after its statement: of the connection it ran on, or as
\* it was if that was one of the pool.
LEMMA OwnAfter ==
    ASSUME EInv, NEW c \in Callers, call[c].phase = "flight", conn[Via(c)].link = "open",
           NEW s, call' = [call EXCEPT ![c] = s], s.own = call[c].own,
           NEW t, conn' = [conn EXCEPT ![Via(c)] = t]
    PROVE  /\ ConnsOf(c)
           /\ call[c].pooled => Own(c)' = Own(c)
           /\ ~ call[c].pooled => Own(c)' = t /\ Own(c) = conn[Via(c)]
<1>1. /\ Via(c) \in Conns /\ conn[Via(c)].holder = c
      /\ call[c].pooled => Via(c) = call[c].at /\ Via(c) # call[c].own
      /\ ~ call[c].pooled => Via(c) = call[c].own
  BY OnItsConnection DEF EInv
<1>2. ConnsOf(c)
  BY <1>1 DEF ConnsOf, EInv, IInv, ConnsHeld
<1>3. ASSUME call[c].pooled
      PROVE  Own(c)' = Own(c)
  <2>1. call[c].own # None => conn'[call[c].own] = conn[call[c].own]
    BY <1>1, <1>3, OwnTyped DEF EInv
  <2>2. QED
    BY <2>1, OwnKept
<1>4. ASSUME ~ call[c].pooled
      PROVE  Own(c)' = t /\ Own(c) = conn[Via(c)]
  BY <1>1, <1>4, CallersAssumption DEF Own, EInv, IInv, ConnsHeld
<1>5. QED
  BY <1>2, <1>3, <1>4

LEMMA RefuseEffects ==
    ASSUME EInv, IInv', NEW c \in Callers, Refuses(c)
    PROVE  EInv' /\ Moves(c)
<1> DEFINE q == call[c]
           x == Own(c)
           y == Own(c)'
           m == Own(c).writes[c]
           m2 == Own(c)'.writes[c]
           a == applied[c]
           n == Cardinality(Owed(c))
           z == conn[Via(c)]
           v == IF z.tx = "none" \/ q.stmt = "commit" THEN "none" ELSE "aborted"
           t == IF q.pooled THEN Closed ELSE [z EXCEPT !.tx = v, !.writes = NoWrites]
<1>1. /\ q.phase = "flight" /\ z.link = "open" /\ q.stmt \in {"select", "write", "commit"}
      /\ z \in Sessions
  BY OnItsConnection DEF Refuses, Phase, EInv
<1>2. PICK s \in AfterFailure(c, "other") : call' = [call EXCEPT ![c] = s]
  BY DEF Refuses
<1>3. /\ GoodCall(q) /\ q \in CallRecords /\ m \in Nat /\ a \in Nat /\ n \in Nat
      /\ Fit(q, x, m, a, n)
  BY Known, OwnTyped
<1>4. Failing(q, "other", s)
  BY <1>2, <1>3, AfterFailureIs
<1>5. s.own = q.own
  BY <1>1, <1>3, <1>4, FailedLost
<1>6. conn' = [conn EXCEPT ![Via(c)] = t]
  BY DEF Refuses
<1> HIDE DEF t
<1>7. /\ ConnsOf(c)
      /\ q.pooled => y = x
      /\ ~ q.pooled => y = t /\ x = z
  BY <1>1, <1>2, <1>5, <1>6, OwnAfter
<1>8. ~ q.pooled => /\ t.link = "open" /\ t.tx = v
                    /\ v = "none" => z.tx = "none" \/ q.stmt = "commit"
                    /\ v \in {"none", "aborted"} /\ (v = "aborted" => q.stmt # "commit")
  <2> HIDE DEF z
  <2>1. QED
    BY <1>1 DEF t, Sessions
<1>9. m2 \in Nat
  <2>1. call'[c] = s /\ IInv'
    BY <1>2 DEF EInv, IInv
  <2>2. y \in Sessions
    <3>1. CASE q.pooled
      BY <1>7, <3>1, OwnTyped DEF EInv
    <3>2. CASE ~ q.pooled
      <4>1. v \in {"none", "aborted"} /\ t = [z EXCEPT !.tx = v, !.writes = NoWrites]
        BY <3>2 DEF t
      <4> HIDE DEF v, z
      <4>2. t \in Sessions
        BY <1>1, <4>1, FreshSession DEF Sessions
      <4>3. QED
        BY <1>7, <3>2, <4>2
    <3>3. QED
      BY <3>1, <3>2
  <2>3. QED
    BY <2>2 DEF Sessions
<1>0. m = x.writes[c] /\ m2 = y.writes[c]
  OBVIOUS
<1> HIDE DEF z, v, q, x, y, m, m2, a, n
<1>10. /\ x.link = "broken" => y.link = "broken"
       /\ y.link = "open" => /\ x.link = "open"
                             /\ x.tx # "none" /\ q.stmt # "commit" => y.tx # "none"
       /\ y.tx = "open" => x.tx = "open" /\ m2 = m
       /\ y.tx = "aborted" => \/ x.tx = "aborted"
                              \/ q.stmt \in {"select", "write"} /\ ~ q.pooled
  <2>1. CASE q.pooled
    BY <1>0, <1>7, <2>1
  <2>2. CASE ~ q.pooled
    <3>1. x = z /\ y = t
      BY <1>7, <2>2
    <3>2. /\ t.link = "open" /\ t.tx = v /\ v \in {"none", "aborted"}
          /\ v = "aborted" => q.stmt # "commit"
      BY <1>8, <2>2
    <3>3. v = "none" => z.tx = "none" \/ q.stmt = "commit"
      BY <1>8, <2>2
    <3>4. z.link = "open" /\ q.stmt \in {"select", "write", "commit"}
      BY <1>1
    <3>5. q.stmt # "commit" => q.stmt \in {"select", "write"}
      BY <3>4
    <3>6. QED
      BY <2>2, <3>1, <3>2, <3>3, <3>4, <3>5
  <2>3. QED
    BY <2>1, <2>2
<1>11. Fit(s, y, m2, a, n) /\ Moved(s, q)
  BY <1>1, <1>3, <1>4, <1>9, <1>10, FailedQuietly
<1>12. applied' = applied /\ orphans' = orphans /\ breaks' = breaks
  BY DEF Refuses
<1>13. QED
  BY <1>2, <1>7, <1>11, <1>12, NothingDone DEF q, y, m2, a, n

\* What c's statement adds to its effects, and to what its session holds for it.
LEMMA EffectIs ==
    ASSUME NEW c \in Callers, NEW x \in Sessions, x.tx # "open" => x.writes = NoWrites,
           \A d \in Callers : x.writes[d] > 0 => d = c,
           NEW t, t = RunOn(x, c), NEW e, e = EffectOn(x, c)
    PROVE  /\ e \in [Callers -> Nat] /\ e[c] \in Nat /\ \A d \in Callers \ {c} : e[d] = 0
           /\ t.link = x.link
           /\ call[c].stmt = "begin" => t.tx = "open" /\ t.writes = x.writes /\ e[c] = 0
           /\ call[c].stmt = "commit" => t.tx = "none" /\ e[c] = x.writes[c]
           /\ call[c].stmt = "rollback" => t.tx = "none" /\ e[c] = 0
           /\ call[c].stmt = "select" => t = x /\ e[c] = 0
           /\ call[c].stmt = "write" /\ x.tx = "none" => t = x /\ e[c] = 1
           /\ call[c].stmt = "write" /\ x.tx = "open" =>
                t.tx = "open" /\ t.writes[c] = x.writes[c] + 1 /\ e[c] = 0
           /\ call[c].stmt # "commit" => e[c] <= 1
<1>1. /\ x.writes \in [Callers -> Nat] /\ \A d \in Callers \ {c} : x.writes[d] = 0
      /\ OneOf(c) \in [Callers -> Nat] /\ OneOf(c)[c] = 1
      /\ \A d \in Callers \ {c} : OneOf(c)[d] = 0
      /\ NoWrites \in [Callers -> Nat] /\ \A d \in Callers : NoWrites[d] = 0
  BY OneWrite, FreshSession DEF Sessions
<1>2. e \in [Callers -> Nat] /\ e[c] \in Nat
  BY EffectTyped
<1>3. CASE call[c].stmt = "begin"
  <2>1. t = [x EXCEPT !.tx = "open"] /\ e = NoWrites
    BY <1>3 DEF RunOn, EffectOn
  <2>2. QED
    BY <1>1, <1>2, <1>3, <2>1 DEF Sessions
<1>4. CASE call[c].stmt \in {"commit", "rollback"}
  <2>1. t = [x EXCEPT !.tx = "none", !.writes = NoWrites]
    BY <1>4 DEF RunOn
  <2>2. e = IF call[c].stmt = "commit" THEN x.writes ELSE NoWrites
    BY <1>4 DEF EffectOn
  <2>3. t.link = x.link /\ t.tx = "none"
    BY <2>1 DEF Sessions
  <2>4. QED
    BY <1>1, <1>2, <1>4, <2>2, <2>3
<1>5. CASE call[c].stmt = "write" /\ x.tx = "open"
  <2>1. t = [x EXCEPT !.writes = Plus(@, OneOf(c))] /\ e = NoWrites
    BY <1>5 DEF RunOn, EffectOn
  <2>2. t.writes = Plus(x.writes, OneOf(c)) /\ t.link = x.link /\ t.tx = x.tx
    BY <2>1 DEF Sessions
  <2>3. Plus(x.writes, OneOf(c))[c] = x.writes[c] + 1
    BY <1>1, Adding
  <2>4. QED
    BY <1>1, <1>2, <1>5, <2>1, <2>2, <2>3
<1>6. CASE call[c].stmt = "write" /\ x.tx = "none"
  <2>1. t = x /\ e = OneOf(c)
    BY <1>6 DEF RunOn, EffectOn
  <2>2. QED
    BY <1>1, <1>2, <1>6, <2>1
<1>7. CASE \/ call[c].stmt = "write" /\ x.tx \notin {"open", "none"}
           \/ call[c].stmt \notin {"begin", "commit", "rollback", "write"}
  <2>1. t = x /\ e = NoWrites
    BY <1>7 DEF RunOn, EffectOn
  <2>2. QED
    BY <1>1, <1>2, <1>7, <2>1
<1>8. QED
  BY <1>3, <1>4, <1>5, <1>6, <1>7

LEMMA AcceptEffects ==
    ASSUME EInv, IInv', NEW c \in Callers, Accepts(c)
    PROVE  EInv' /\ Moves(c)
<1> DEFINE q == call[c]
           x == Own(c)
           y == Own(c)'
           m == Own(c).writes[c]
           m2 == Own(c)'.writes[c]
           a == applied[c]
           n == Cardinality(Owed(c))
           z == conn[Via(c)]
           r == RunOn(z, c)
           f == EffectOn(z, c)
           e == f[c]
           t == IF q.pooled THEN Released(r) ELSE r
           s == AfterSuccess(c)
<1>1. /\ q.phase = "flight" /\ z.link = "open" /\ z \in Sessions /\ z.holder = c
      /\ z.tx # "open" => z.writes = NoWrites
      /\ \A d \in Callers : z.writes[d] > 0 => d = c
      /\ z.tx # "none" => InTransaction(q) /\ ~ q.pooled
      /\ q.stmt # "none"
      /\ q.pooled => q.stmt \in {"select", "write"}
  BY OnItsConnection DEF Accepts, Phase, EInv
<1>2. z.tx = "aborted" => q.stmt \in {"commit", "rollback"}
  BY DEF Accepts
<1>3. /\ GoodCall(q) /\ q \in CallRecords /\ m \in Nat /\ a \in Nat /\ n \in Nat
      /\ Fit(q, x, m, a, n) /\ KindFits(q) /\ x.tx \in {"none", "open", "aborted"}
  BY Known, OwnTyped
<1>4. call' = [call EXCEPT ![c] = s]
  BY DEF Accepts
<1>5. Succeeding(q, s)
  BY <1>1, <1>3, AfterSuccessIs
<1>6. Moved(s, q)
  <2> HIDE DEF s
  <2>1. QED
    BY <1>1, <1>3, <1>5, AnsweredMoves
<1>7. s.own = q.own
  <2> HIDE DEF s
  <2>1. GoodCall(s) /\ Goes(s, call[c])
    BY <1>1, <1>3, <1>5, SucceedingIsGood
  <2>2. QED
    BY <2>1 DEF Goes
<1>8. conn' = [conn EXCEPT ![Via(c)] = t] /\ applied' = Plus(applied, f)
  BY DEF Accepts
<1> HIDE DEF s
<1>9. /\ ConnsOf(c)
      /\ q.pooled => y = x
      /\ ~ q.pooled => y = t /\ x = z
  <2> HIDE DEF t
  <2>1. QED
    BY <1>1, <1>4, <1>7, <1>8, OwnAfter
<1>10. ~ q.pooled => y = r /\ x = z
  BY <1>9
<1>11. /\ f \in [Callers -> Nat] /\ e \in Nat /\ \A d \in Callers \ {c} : f[d] = 0
       /\ r.link = z.link /\ r \in Sessions
       /\ q.stmt = "begin" => r.tx = "open" /\ r.writes = z.writes /\ e = 0
       /\ q.stmt = "commit" => r.tx = "none" /\ e = z.writes[c]
       /\ q.stmt = "rollback" => r.tx = "none" /\ e = 0
       /\ q.stmt = "select" => r = z /\ e = 0
       /\ q.stmt = "write" /\ z.tx = "none" => r = z /\ e = 1
       /\ q.stmt = "write" /\ z.tx = "open" =>
            r.tx = "open" /\ r.writes[c] = z.writes[c] + 1 /\ e = 0
       /\ q.stmt # "commit" => e <= 1
  <2> HIDE DEF z, r, f
  <2>1. r = RunOn(z, c) /\ f = EffectOn(z, c)
    BY DEF r, f
  <2>2. QED
    BY <1>1, <2>1, EffectIs, SessionRan
<1>12. /\ applied'[c] = a + e /\ \A d \in Callers \ {c} : applied'[d] = applied[d]
  <2>1. applied \in [Callers -> Nat]
    BY DEF EInv, IInv, RestTyped
  <2> HIDE DEF f
  <2>2. QED
    BY <1>8, <1>11, <2>1, Adding
<1>13. m = x.writes[c] /\ m2 = y.writes[c]
  OBVIOUS
<1> HIDE DEF q, x, y, m, m2, a, n, z, r, f, e, t
<1>14. m2 \in Nat
  <2>1. CASE q.pooled
    BY <1>3, <1>9, <1>13, <2>1
  <2>2. CASE ~ q.pooled
    BY <1>10, <1>11, <1>13, <2>2 DEF Sessions
  <2>3. QED
    BY <2>1, <2>2
<1>15. Fit(s, y, m2, a + e, n)
  <2>1. CASE q.pooled
    <3>1. y = x /\ m2 = m /\ q.stmt \in {"select", "write"} /\ z.tx = "none"
      BY <1>1, <1>9, <1>13, <2>1
    <3>2. e = IF q.stmt = "write" THEN 1 ELSE 0
      BY <1>11, <3>1
    <3>3. QED
      BY <1>1, <1>3, <1>5, <1>11, <1>14, <2>1, <3>1, <3>2, AnsweredFits
  <2>2. CASE ~ q.pooled
    <3>1. y = r /\ x = z /\ m = z.writes[c] /\ m2 = r.writes[c]
      BY <1>10, <1>13, <2>2
    <3>2. x.link = "open" /\ y.link = x.link /\ (x.tx # "open" => m = 0)
      BY <1>1, <1>11, <3>1, FreshSession
    <3>3. x.tx = "none" \/ InTransaction(q)
      BY <1>1, <3>1
    <3>4. q.stmt = "begin" => x.tx = "none"
      BY <3>3 DEF InTransaction
    <3>5. /\ q.stmt = "begin" => x.tx = "none" /\ m2 = m /\ e = 0 /\ y.tx = "open"
          /\ q.stmt = "commit" => y.tx = "none" /\ e = m
          /\ q.stmt = "rollback" => y.tx = "none" /\ e = 0
          /\ q.stmt = "select" => y.tx = x.tx /\ m2 = m /\ e = 0
      BY <1>11, <3>1, <3>4
    <3>6. q.stmt = "write" => /\ y.tx = x.tx
                              /\ IF x.tx = "none" THEN e = 1 /\ m2 = m
                                 ELSE x.tx = "open" /\ e = 0 /\ m2 = m + 1
      BY <1>2, <1>3, <1>11, <3>1
    <3>7. QED
      BY <1>1, <1>3, <1>5, <1>11, <1>14, <2>2, <3>2, <3>3, <3>5, <3>6, AnsweredFits
  <2>3. QED
    BY <2>1, <2>2
<1>16. q.kind # "transaction" => e <= 1
  BY <1>3, <1>11 DEF GoodCall, StatementFits
<1>17. orphans' = orphans /\ breaks' = breaks
  BY DEF Accepts
<1>18. QED
  BY <1>4, <1>6, <1>9, <1>11, <1>12, <1>15, <1>16, <1>17, SomeDone DEF q, y, m2, a, n

\* The server will run what nobody was answered.
LEMMA LostAnswer ==
    ASSUME EInv, IInv', NEW c \in Callers, NEW f \in [Callers -> Nat], f[c] > 0,
           \A d \in Callers \ {c} : f[d] = 0, NEW o, o = [id |-> breaks, writes |-> f],
           orphans' = orphans \cup {o}, breaks' = breaks + 1, applied' = applied,
           NEW u, call' = [call EXCEPT ![c] = u], ConnsOf(c), NEW y, y = Own(c)',
           Fit(u, y, y.writes[c], applied[c], Cardinality(Owed(c)) + 1),
           Moved(u, call[c]), f[c] = IF u.kind = "transaction" THEN u.written ELSE 1
    PROVE  EInv' /\ Moves(c)
<1>1. call'[c] = u /\ \A d \in Callers \ {c} : call'[d] = call[d]
  BY DEF EInv, IInv
<1>2. /\ OrphansFit /\ breaks \in Nat /\ \A p \in orphans : p.id \in Nat /\ p.id < breaks
      /\ applied[c] \in Nat
  BY BoundsAssumption DEF EInv, OrphansFit, IInv, RestTyped
<1>3. o \notin orphans /\ o.id = breaks /\ o.writes = f
  BY <1>2
<1>4. Owed(c)' = Owed(c) \cup {o} /\ o \notin Owed(c)
  BY <1>3 DEF Owed
<1>5. \A d \in Callers \ {c} : Owed(d)' = Owed(d)
  BY <1>3 DEF Owed
<1>6. Cardinality(Owed(c)') = Cardinality(Owed(c)) + 1
  BY <1>4, OrphanCount, FS_AddElement DEF EInv
<1>7. OrphansFit'
  <2>1. IsFiniteSet(orphans')
    BY <1>2, FS_AddElement DEF OrphansFit
  <2>2. \A p \in orphans' : p.id < breaks'
    BY <1>2, <1>3
  <2>3. \A p, r \in orphans' : p.id = r.id => p = r
    BY <1>2, <1>3 DEF OrphansFit
  <2>4. \A d \in Callers : o.writes[d] > 0 <=> d = c
    BY <1>3
  <2>5. \A p \in orphans' : \E d \in Callers : \A g \in Callers : p.writes[g] > 0 <=> g = d
    BY <1>2, <2>4 DEF OrphansFit
  <2>6. QED
    BY <2>1, <2>2, <2>3, <2>5 DEF OrphansFit
<1>8. Effects(c)'
  <2>1. \A p \in Owed(c) : p.writes[c] = IF u.kind = "transaction" THEN u.written ELSE 1
    BY WrittenStays DEF EInv, Effects
  <2>2. \A p \in Owed(c)' : p.writes[c] = IF u.kind = "transaction" THEN u.written ELSE 1
    BY <1>3, <1>4, <2>1
  <2>3. QED
    BY <1>1, <1>6, <2>2 DEF Effects
<1>9. EInv'
  BY <1>5, <1>7, <1>8, OneCaller
<1>10. QED
  BY <1>1, <1>2, <1>9 DEF Moves

LEMMA BreakEffects ==
    ASSUME EInv, IInv', NEW c \in Callers, Breaks(c)
    PROVE  EInv' /\ Moves(c)
<1> DEFINE q == call[c]
           x == Own(c)
           y == Own(c)'
           m == Own(c).writes[c]
           m2 == Own(c)'.writes[c]
           a == applied[c]
           n == Cardinality(Owed(c))
           z == conn[Via(c)]
           f == EffectOn(z, c)
           b == [Closed EXCEPT !.link = "broken", !.holder = c]
           t == IF q.pooled THEN Closed ELSE b
<1>1. /\ q.phase = "flight" /\ z.link = "open" /\ z \in Sessions
      /\ z.tx # "open" => z.writes = NoWrites
      /\ \A d \in Callers : z.writes[d] > 0 => d = c
      /\ z.tx # "none" => InTransaction(q) /\ ~ q.pooled
  BY OnItsConnection DEF Breaks, Phase, EInv
<1>2. /\ GoodCall(q) /\ q \in CallRecords /\ m \in Nat /\ a \in Nat /\ n \in Nat
      /\ Fit(q, x, m, a, n) /\ KindFits(q) /\ q.lost \subseteq {"connection", "transient"}
  BY Known, OwnTyped DEF CallRecords
<1>3. /\ conn' = [conn EXCEPT ![Via(c)] = t] /\ breaks' = breaks + 1 /\ applied' = applied
  BY DEF Breaks
<1>4. b.link = "broken" /\ b.tx = "none" /\ b \in Sessions
  BY DEF Closed, Sessions, NoWrites
<1>5. PICK error \in {"connection", "transient"} : \E runs \in BOOLEAN :
        \E after \in AfterFailure(c, error) :
            /\ runs => f # NoWrites
            /\ orphans' = IF runs THEN orphans \cup {[id |-> breaks, writes |-> f]} ELSE orphans
            /\ call' = [call EXCEPT ![c] =
                IF runs THEN [after EXCEPT !.lost = @ \cup {error}] ELSE after]
  BY DEF Breaks
<1>6. PICK after \in AfterFailure(c, error) :
        \/ orphans' = orphans /\ call' = [call EXCEPT ![c] = after]
        \/ /\ f # NoWrites /\ orphans' = orphans \cup {[id |-> breaks, writes |-> f]}
           /\ call' = [call EXCEPT ![c] = Misled(after, after.lost \cup {error})]
  BY <1>5 DEF Misled
<1>7. Failing(q, error, after)
  BY <1>2, AfterFailureIs
<1>8. after \in CallRecords /\ after.lost = q.lost /\ after.own = q.own
  BY <1>1, <1>2, <1>7, FailedLost
<1> DEFINE l == q.lost \cup {error}
           u == Misled(after, l)
<1>9. l \in SUBSET {"connection", "transient"} /\ q.lost \subseteq l /\ error \in l
  BY <1>2
<1>10. m = x.writes[c] /\ m2 = y.writes[c]
  OBVIOUS
\* Whatever the call becomes, its session is as it was or broken.
<1>11. ASSUME NEW s, call' = [call EXCEPT ![c] = s], s.own = q.own
       PROVE  /\ ConnsOf(c)
              /\ q.pooled => y = x
              /\ ~ q.pooled => y = t /\ x = z
  <2> HIDE DEF t
  <2>1. QED
    BY <1>1, <1>3, <1>11, OwnAfter
<1>12. ~ q.pooled => t = b
  OBVIOUS
<1> HIDE DEF t, b
<1>13. ASSUME NEW s, call' = [call EXCEPT ![c] = s], s.own = q.own
       PROVE  /\ ConnsOf(c) /\ m2 \in Nat
              /\ ~ q.pooled => x = z /\ x.link = "open" /\ y.link = "broken"
              /\ x.link = "broken" => y.link = "broken"
              /\ y.link = "open" => /\ x.link = "open"
                                    /\ x.tx # "none" /\ q.stmt # "commit" => y.tx # "none"
              /\ y.tx = "open" => x.tx = "open" /\ m2 = m
              /\ y.tx = "aborted" => x.tx = "aborted"
  <2> HIDE DEF q, x, y, m, m2, z
  <2>1. CASE q.pooled
    BY <1>2, <1>10, <1>11, <1>13, <2>1
  <2>2. CASE ~ q.pooled
    <3>1. y = b /\ x = z
      BY <1>11, <1>12, <1>13, <2>2
    <3>2. QED
      BY <1>1, <1>4, <1>10, <1>11, <1>13, <2>2, <3>1 DEF Sessions
  <2>3. QED
    BY <2>1, <2>2
<1>14. CASE orphans' = orphans /\ call' = [call EXCEPT ![c] = after]
  <2> HIDE DEF q, x, y, m, m2, a, n, z, f
  <2>1. /\ ConnsOf(c) /\ m2 \in Nat
        /\ x.link = "broken" => y.link = "broken"
        /\ y.link = "open" => /\ x.link = "open"
                              /\ x.tx # "none" /\ q.stmt # "commit" => y.tx # "none"
        /\ y.tx = "open" => x.tx = "open" /\ m2 = m
        /\ y.tx = "aborted" => x.tx = "aborted"
    BY <1>8, <1>13, <1>14
  <2>2. Fit(after, y, m2, a, n) /\ Moved(after, q)
    BY <1>1, <1>2, <1>7, <2>1, FailedQuietly
  <2>3. QED
    BY <1>3, <1>14, <2>1, <2>2, NothingDone DEF q, y, m2, a, n
<1>15. CASE /\ f # NoWrites /\ orphans' = orphans \cup {[id |-> breaks, writes |-> f]}
            /\ call' = [call EXCEPT ![c] = Misled(after, after.lost \cup {error})]
  <2>1. call' = [call EXCEPT ![c] = u]
    BY <1>8, <1>15
  <2> DEFINE r == RunOn(z, c)
  <2> HIDE DEF q, x, y, m, m2, a, n, l, u
  <2>2. u.own = q.own /\ u.kind = after.kind /\ u.written = after.written
    BY <1>8, <1>9, MisledFields DEF u
  <2>3. /\ ConnsOf(c) /\ m2 \in Nat
        /\ ~ q.pooled => x = z /\ x.link = "open" /\ y.link = "broken"
        /\ x.link = "broken" => y.link = "broken"
        /\ y.link = "open" => /\ x.link = "open"
                              /\ x.tx # "none" /\ q.stmt # "commit" => y.tx # "none"
        /\ y.tx = "open" => x.tx = "open" /\ m2 = m
        /\ y.tx = "aborted" => x.tx = "aborted"
    BY <1>13, <2>1, <2>2
  <2>4. /\ f \in [Callers -> Nat] /\ f[c] \in Nat /\ \A d \in Callers \ {c} : f[d] = 0
        /\ q.stmt = "commit" => f[c] = z.writes[c]
        /\ q.stmt \in {"begin", "rollback", "select"} => f[c] = 0
        /\ q.stmt = "write" /\ z.tx = "none" => f[c] = 1
        /\ q.stmt = "write" /\ z.tx = "open" => f[c] = 0
        /\ q.stmt # "commit" => f[c] <= 1
    <3> HIDE DEF z, f, r
    <3>1. r = RunOn(z, c) /\ f = EffectOn(z, c)
      BY DEF r, f
    <3>2. QED
      BY <1>1, <3>1, EffectIs DEF q
  <2> HIDE DEF z, f
  <2>5. f[c] > 0
    <3>1. CASE f[c] = 0
      <4>1. \A d \in Callers : f[d] = NoWrites[d]
        BY <2>4, <3>1, FreshSession
      <4>2. f = NoWrites
        BY <2>4, <4>1, FreshSession
      <4>3. QED
        BY <1>15, <4>2
    <3>2. QED
      BY <2>4, <3>1
  <2>6. q.stmt \in {"write", "commit"}
    BY <1>1, <1>2, <2>4, <2>5 DEF GoodCall, PhaseFits, CallRecords
  <2>7. q.kind = "transaction" => q.stmt = "commit"
    <3>1. CASE q.pooled /\ q.kind = "transaction"
      BY <1>1, <1>2, <2>6, <3>1 DEF GoodCall, StatementFits, KindFits, OnClient, Ended
    <3>2. CASE ~ q.pooled /\ q.kind = "transaction" /\ q.stmt = "write"
      <4>1. InTransaction(q) /\ x = z /\ x.link = "open"
        BY <1>1, <2>3, <3>2 DEF InTransaction
      <4>2. x.tx # "none"
        BY <1>2, <3>2, <4>1 DEF Fit, Holds
      <4>3. z.tx \in {"open", "aborted"}
        BY <1>1, <4>1, <4>2 DEF Sessions
      <4>4. z.tx = "aborted"
        BY <2>4, <2>5, <3>2, <4>3
      <4>5. f[c] = 0
        BY <3>2, <4>4, FreshSession DEF f, EffectOn, q
      <4>6. QED
        BY <2>5, <4>5
    <3>3. QED
      BY <2>6, <3>1, <3>2
  <2>8. q.stmt = "commit" => /\ q.kind = "transaction" /\ ~ q.pooled
                             /\ f[c] = q.written /\ q.written > 0
    <3>1. CASE q.stmt = "commit"
      <4>1. q.kind = "transaction" /\ ~ q.pooled
        BY <1>2, <3>1 DEF GoodCall, StatementFits
      <4>2. InTransaction(q) /\ x = z
        BY <1>1, <2>3, <3>1, <4>1 DEF InTransaction
      <4>3. z.tx = "open"
        BY <1>1, <2>4, <2>5, <3>1, FreshSession
      <4>4. m = q.written
        BY <1>2, <3>1, <4>2, <4>3 DEF Fit, Holds
      <4>5. QED
        BY <1>10, <2>4, <2>5, <3>1, <4>1, <4>2, <4>4
    <3>2. QED
      BY <3>1
  <2>9. q.stmt = "write" => f[c] = 1
    BY <2>4, <2>5
  <2>10. u.kind = q.kind /\ (q.stmt = "commit" => u.written = q.written)
    <3>1. Moved(u, q)
      BY <1>1, <1>2, <1>7, <1>9, FailedMoves DEF u, Ended
    <3>2. q.stmt = "commit" => after = Sent(q, "rollback")
      BY <1>7 DEF Failing
    <3>3. QED
      BY <1>2, <2>2, <3>1, <3>2, SentFields DEF Moved
  <2>11. Fit(u, y, m2, a, n + 1) /\ Moved(u, q)
    <3> DEFINE k == 1
    <3>1. k \in {0, 1} /\ k = 1
      OBVIOUS
    <3>2. u = Misled(after, l)
      BY DEF u
    <3>3. /\ error \in l /\ q.phase = "flight" /\ q.stmt \in {"write", "commit"}
          /\ ~ q.pooled => x.link = "open" /\ y.link = "broken"
          /\ q.kind = "transaction" => q.stmt = "commit" /\ q.written > 0
      BY <1>1, <1>9, <2>3, <2>6, <2>7, <2>8
    <3> HIDE DEF k
    <3>4. Fit(u, y, m2, a, n + k)
      BY <1>1, <1>2, <1>7, <1>9, <2>3, <3>1, <3>2, <3>3, FailedFits
    <3>5. Moved(u, q)
      BY <1>1, <1>2, <1>7, <1>9, FailedMoves DEF u, Ended
    <3>6. QED
      BY <3>1, <3>4, <3>5
  <2>12. f[c] = IF u.kind = "transaction" THEN u.written ELSE 1
    BY <2>6, <2>7, <2>8, <2>9, <2>10
  <2>13. QED
    BY <1>3, <1>15, <2>1, <2>3, <2>4, <2>5, <2>11, <2>12, LostAnswer DEF q, y, m2, a, n
<1>16. QED
  BY <1>6, <1>14, <1>15

\* The server runs what it was sent before the connection broke.
LEMMA RanFits ==
    ASSUME NEW q, GoodCall(q), NEW x, NEW m, NEW a \in Nat, NEW n \in Nat, n > 0,
           Fit(q, x, m, a, n),
           NEW w, w = IF q.kind = "transaction" THEN q.written ELSE 1
    PROVE  Fit(q, x, m, a + w, n - 1) /\ (q.kind # "transaction" => w = 1) /\ w \in Nat
<1>1. q \in CallRecords /\ KindFits(q) /\ Has(q, x, a, n) /\ Holds(q, x, m)
  BY DEF GoodCall, Fit
<1>2. w \in Nat
  BY <1>1, Numbers
<1>3. CASE q.kind = "write"
  BY <1>1, <1>3, Numbers DEF Fit, Has, WriteHas
<1>4. CASE q.kind = "transaction"
  <2>1. q.verdict \in {"nothing", "done", "failed"} /\ q.written \in Nat
    BY <1>1, Numbers DEF CallRecords
  <2>2. q.verdict # "done" /\ (q.phase \in Ended \/ q.stmt = "rollback")
    BY <1>1, <1>4 DEF Has, TransactionHas
  <2>3. Unanswered(q, a, n)
    BY <1>1, <1>4, <2>1, <2>2 DEF Has, TransactionHas, KindFits
  <2>4. Unanswered(q, a + w, n - 1)
    BY <1>4, <2>1, <2>3 DEF Unanswered
  <2>5. QED
    BY <1>1, <1>2, <1>4, <2>2, <2>4 DEF Fit, Has, TransactionHas
<1>5. CASE q.kind = "session"
  <2>1. q.written \in Nat /\ w = 1
    BY <1>1, <1>5, Numbers
  <2>2. QED
    BY <1>1, <1>5, <2>1 DEF Fit, Has, SessionHas
<1>6. CASE q.kind \in {"none", "read"}
  BY <1>1, <1>6 DEF Has
<1>7. QED
  BY <1>1, <1>3, <1>4, <1>5, <1>6 DEF CallRecords, Kinds

LEMMA OrphanRunEffects ==
    ASSUME EInv, IInv', OrphanRuns
    PROVE  EInv' /\ \E c \in Callers : Moves(c)
<1>1. PICK o \in orphans : /\ applied' = Plus(applied, o.writes) /\ orphans' = orphans \ {o}
                           /\ UNCHANGED <<call, conn, waiters, pool, breaks>>
  BY DEF OrphanRuns
<1>2. PICK c \in Callers : \A d \in Callers : o.writes[d] > 0 <=> d = c
  BY DEF EInv, OrphansFit
<1>3. /\ o.writes \in [Callers -> Nat] /\ applied \in [Callers -> Nat]
      /\ \A d \in Callers : applied'[d] = applied[d] + o.writes[d]
  <2>1. o.writes \in [Callers -> Nat] /\ applied \in [Callers -> Nat]
    BY DEF EInv, IInv, RestTyped
  <2>2. QED
    BY <1>1, <2>1, Adding
<1>4. \A d \in Callers \ {c} : applied'[d] = applied[d] /\ Owed(d)' = Owed(d)
  BY <1>1, <1>2, <1>3 DEF Owed
<1>5. o \in Owed(c) /\ Owed(c)' = Owed(c) \ {o}
  BY <1>1, <1>2 DEF Owed
<1> DEFINE q == call[c]
           x == Own(c)
           m == Own(c).writes[c]
           a == applied[c]
           n == Cardinality(Owed(c))
           w == o.writes[c]
<1>6. /\ Cardinality(Owed(c)') = n - 1 /\ n > 0 /\ n \in Nat
  <2>1. IsFiniteSet(Owed(c)) /\ n \in Nat /\ n # 0
    BY <1>5, OrphanCount DEF EInv
  <2>2. QED
    BY <1>5, <2>1, FS_RemoveElement
<1>7. /\ GoodCall(q) /\ a \in Nat /\ n \in Nat /\ Fit(q, x, m, a, n)
  BY Known
<1>8. w = IF q.kind = "transaction" THEN q.written ELSE 1
  BY <1>5 DEF EInv, Effects
<1>9. call' = call /\ Own(c)' = x /\ applied'[c] = a + w
  BY <1>1, <1>3 DEF Own
<1> HIDE DEF q, x, m, a, n, w
<1>10. Fit(q, x, m, a + w, n - 1) /\ (q.kind # "transaction" => w = 1) /\ w \in Nat
  BY <1>6, <1>7, <1>8, RanFits
<1>11. Effects(c)'
  <2>1. \A p \in Owed(c)' : p.writes[c] = IF q.kind = "transaction" THEN q.written ELSE 1
    BY <1>5 DEF EInv, Effects, q
  <2>2. QED
    BY <1>6, <1>9, <1>10, <2>1 DEF Effects, q, x, m
<1>12. ConnsOf(c) /\ call' = [call EXCEPT ![c] = q]
  BY <1>1 DEF ConnsOf, EInv, IInv, q
<1>13. OrphansFit'
  <2>1. IsFiniteSet(orphans')
    BY <1>1, FS_Subset DEF EInv, OrphansFit
  <2>2. QED
    BY <1>1, <2>1 DEF EInv, OrphansFit
<1>14. EInv'
  BY <1>4, <1>11, <1>12, <1>13, OneCaller
<1>15. Moves(c)
  <2>1. Moved(call'[c], call[c])
    BY <1>9 DEF Moved
  <2>2. applied'[c] >= applied[c] /\ (call[c].kind # "transaction" => applied'[c] <= applied[c] + 1)
    BY <1>7, <1>9, <1>10 DEF a, q
  <2>3. QED
    BY <1>4, <1>9, <2>1, <2>2 DEF Moves
<1>16. QED
  BY <1>14, <1>15

-----------------------------------------------------------------------------
(* The invariant *)

LEMMA EffectsInit == Init => EInv
<1> SUFFICES ASSUME Init
             PROVE  EInv
  OBVIOUS
<1>1. OrphansFit
  BY FS_EmptySet DEF Init, OrphansFit
<1>2. ASSUME NEW c \in Callers
      PROVE  Effects(c)
  <2>1. call[c] = NewCall /\ Own(c) = Closed /\ applied[c] = 0
    BY FreshSession DEF Init, Own, NewCall
  <2>2. Owed(c) = {} /\ Cardinality(Owed(c)) = 0
    BY FS_EmptySet DEF Init, Owed
  <2>3. /\ NewCall.kind = "none" /\ NewCall.phase = "new" /\ NewCall.stmt = "none"
        /\ NewCall.verdict = "nothing" /\ NewCall.told = "nothing"
    BY DEF NewCall
  <2>4. KindFits(NewCall) /\ Has(NewCall, Closed, 0, 0) /\ Holds(NewCall, Closed, Closed.writes[c])
    BY <2>3 DEF KindFits, Has, Holds, InTransaction, OnClient, Ended
  <2>5. QED
    BY <2>1, <2>2, <2>4 DEF Effects, Fit
<1>3. QED
  BY <1>1, <1>2, InitOK DEF EInv

\* A step asks, answers, or moves one caller's work along.
LEMMA EffectsNext ==
    ASSUME EInv, [Next]_vars
    PROVE  /\ EInv'
           /\ \/ \E c \in Callers : Start(c) \/ Return(c) \/ Moves(c)
              \/ call' = call /\ applied' = applied
<1>1. IInv'
  BY NextOK DEF EInv
<1>2. ASSUME NEW c \in Callers, Start(c) \/ Return(c)
      PROVE  EInv'
  BY <1>1, <1>2, StartEffects, ReturnEffects
<1>3. ASSUME NEW c \in Callers,
             \/ Serve(c) \/ CannotConnect(c) \/ Accepts(c) \/ Refuses(c) \/ FailsOnBroken(c)
             \/ Retry(c) \/ WorkSends(c) \/ WorkEnds(c) \/ Breaks(c) \/ ClientBreaks(c)
      PROVE  EInv' /\ Moves(c)
  BY <1>1, <1>3, ServeEffects, ConnectEffects, AcceptEffects, RefuseEffects, RetryEffects,
     SendEffects, EndEffects, BreakEffects, ClientBreakEffects
<1>4. CASE OrphanRuns
  BY <1>1, <1>4, OrphanRunEffects
<1>5. CASE Close \/ Drained \/ UNCHANGED vars
  BY <1>1, <1>5, CloseEffects DEF Close, Drained, vars
<1>6. QED
  BY <1>2, <1>3, <1>4, <1>5 DEF Next, Step

\* In every state the effects of a caller's work fit what became of it.
THEOREM EffectsInductive == Spec => []EInv
<1>1. EInv /\ [Next]_vars => EInv'
  BY EffectsNext
<1>2. QED
  BY EffectsInit, <1>1, PTL DEF Spec

LEMMA MisleadHolds == EInv => OnlyLostAnswersMislead
<1> SUFFICES ASSUME EInv, NEW c \in Callers
             PROVE  /\ call[c].kind = "write" =>
                        /\ applied[c] > 1 => "connection" \in call[c].lost
                        /\ applied[c] > 0 /\ call[c].told = "failed" => call[c].lost # {}
                    /\ call[c].kind = "transaction" /\ call[c].told = "failed" /\ applied[c] > 0 =>
                        call[c].lost # {}
                    /\ call[c].kind = "session" =>
                        /\ applied[c] >= call[c].written
                        /\ applied[c] > call[c].written => call[c].lost # {}
  BY DEF OnlyLostAnswersMislead
<1> DEFINE q == call[c]
           x == Own(c)
           m == Own(c).writes[c]
           a == applied[c]
           n == Cardinality(Owed(c))
<1>1. q \in CallRecords /\ a \in Nat /\ n \in Nat /\ Has(q, x, a, n) /\ KindFits(q)
  BY Known DEF Fit
<1> HIDE DEF q, x, m, a, n
<1>2. q.written \in Nat /\ (q.told = "failed" => q.verdict = "failed")
  BY <1>1, Numbers DEF KindFits
<1>3. q.kind = "write" => /\ a > 1 => "connection" \in q.lost
                          /\ a > 0 /\ q.told = "failed" => q.lost # {}
  BY <1>1, <1>2 DEF Has, WriteHas
<1>4. q.kind = "transaction" /\ q.told = "failed" /\ a > 0 => q.lost # {}
  BY <1>1, <1>2 DEF Has, TransactionHas, Unanswered
<1>5. q.kind = "session" => a >= q.written /\ (a > q.written => q.lost # {})
  BY <1>1, <1>2 DEF Has, SessionHas
<1>6. QED
  BY <1>3, <1>4, <1>5 DEF q, a

\* An effect nobody was told of, or one too many, takes a lost answer, for any number
\* of callers, attempts, statements and connections that break (decideRetry and
\* isConnectionFailure in retry.policy.ts, transaction() and withSession() in
\* pg.database.ts).
THEOREM Misleads == Spec => []OnlyLostAnswersMislead
BY EffectsInductive, MisleadHolds, PTL

-----------------------------------------------------------------------------
(* The abstract work *)

Most == [k \in Kinds |-> CASE k = "read" -> 0
                          [] k = "write" -> MaxAttempts
                          [] k = "transaction" -> 1
                          [] k = "session" -> MaxSteps]

\* The same as EffectOf and ToldOf, of a record.
EffectIn(q, a) ==
    IF q.kind \in OnClient /\ q.written = 0 /\ a = 0 THEN IF q.verdict = "done" THEN 1 ELSE 0
    ELSE IF q.kind # "transaction" THEN a
    ELSE IF a = 0 THEN 0 ELSE IF a = q.written THEN 1 ELSE 2

ToldIn(q) == IF q.told = "done" /\ q.hid THEN "failed" ELSE q.told

LEMMA MostIs ==
    /\ Most["read"] = 0 /\ Most["write"] = MaxAttempts
    /\ Most["transaction"] = 1 /\ Most["session"] = MaxSteps
BY DEF Most, Kinds

\* How often the whole of a caller's work took effect.
LEMMA EffectCounts ==
    ASSUME NEW q, GoodCall(q), NEW x, NEW a \in Nat, NEW n \in Nat, KindFits(q), Has(q, x, a, n)
    PROVE  /\ q.kind = "none" => EffectIn(q, a) = 0
           /\ q.kind \in Kinds => EffectIn(q, a) \in Nat /\ EffectIn(q, a) <= Most[q.kind]
           /\ q.kind = "write" => EffectIn(q, a) = a
           /\ q.kind = "transaction" => EffectIn(q, a) \in {0, 1}
           /\ q.kind = "session" => /\ a >= q.written
                                    /\ a > 0 => EffectIn(q, a) = a
                                    /\ a = 0 => EffectIn(q, a) = IF q.verdict = "done" THEN 1 ELSE 0
           /\ q.verdict = "done" /\ ~ q.hid /\ q.kind \in Kinds \ {"read"} => EffectIn(q, a) > 0
<1>1. /\ q \in CallRecords /\ q.written \in Nat /\ q.written <= MaxSteps
      /\ q.verdict \in {"nothing", "done", "failed"}
      /\ MaxSteps \in Nat \ {0} /\ MaxAttempts \in Nat \ {0} /\ q.attempt \in Nat
      /\ q.attempt <= MaxAttempts
  BY Numbers, AttemptsAssumption, BoundsAssumption DEF GoodCall, CallRecords
<1>2. CASE q.kind \in {"none", "read"}
  <2>1. a = 0 /\ EffectIn(q, a) = 0
    BY <1>2 DEF Has, EffectIn, OnClient
  <2>2. QED
    BY <1>2, <2>1, MostIs DEF Kinds
<1>3. CASE q.kind = "write"
  <2>1. EffectIn(q, a) = a
    BY <1>3 DEF EffectIn, OnClient
  <2>2. a <= MaxAttempts
    BY <1>1, <1>3 DEF Has, WriteHas
  <2>3. q.verdict = "done" => a > 0
    BY <1>1, <1>3 DEF Has, WriteHas
  <2>4. QED
    BY <1>3, <2>1, <2>2, <2>3, MostIs DEF Kinds
<1>4. CASE q.kind = "transaction"
  <2>1. \/ a = 0
        \/ a = q.written /\ a > 0
    BY <1>1, <1>4 DEF Has, TransactionHas, Unanswered, KindFits
  <2>2. EffectIn(q, a) \in {0, 1} /\ (a > 0 => EffectIn(q, a) = 1)
    BY <1>1, <1>4, <2>1 DEF EffectIn, OnClient
  <2>3. q.verdict = "done" /\ ~ q.hid => EffectIn(q, a) = 1
    <3>1. CASE q.verdict = "done" /\ ~ q.hid
      <4>1. a = q.written
        BY <1>4, <3>1 DEF Has, TransactionHas
      <4>2. QED
        BY <1>4, <2>2, <3>1, <4>1 DEF EffectIn, OnClient
    <3>2. QED
      BY <3>1
  <2>4. QED
    BY <1>4, <2>2, <2>3, MostIs DEF Kinds
<1>5. CASE q.kind = "session"
  <2>1. a >= q.written /\ a <= MaxSteps
    BY <1>1, <1>5 DEF Has, SessionHas
  <2>2. /\ a > 0 => EffectIn(q, a) = a
        /\ a = 0 => EffectIn(q, a) = IF q.verdict = "done" THEN 1 ELSE 0
    BY <1>1, <1>5, <2>1 DEF EffectIn, OnClient
  <2>3. QED
    BY <1>1, <1>5, <2>1, <2>2, MostIs DEF Kinds
<1>6. QED
  BY <1>1, <1>2, <1>3, <1>4, <1>5 DEF CallRecords, Kinds

\* A step of a call takes effect once or not at all, and takes nothing back.
LEMMA OneEffect ==
    ASSUME NEW q, GoodCall(q), KindFits(q), NEW u, GoodCall(u), KindFits(u), Moved(u, q),
           NEW x, NEW a \in Nat, NEW n \in Nat, Has(q, x, a, n),
           NEW y, NEW b \in Nat, NEW k \in Nat, Has(u, y, b, k),
           b >= a, q.kind # "transaction" => b <= a + 1
    PROVE  \/ EffectIn(u, b) = EffectIn(q, a)
           \/ /\ q.kind \in Kinds /\ EffectIn(u, b) = EffectIn(q, a) + 1
              /\ EffectIn(q, a) < Most[q.kind]
<1> DEFINE e == EffectIn(q, a)
           f == EffectIn(u, b)
<1>1. /\ q.kind = "none" => e = 0
      /\ q.kind \in Kinds => e \in Nat /\ e <= Most[q.kind]
      /\ q.kind = "write" => e = a
      /\ q.kind = "transaction" => e \in {0, 1}
      /\ q.kind = "session" => /\ a >= q.written /\ (a > 0 => e = a)
                               /\ a = 0 => e = IF q.verdict = "done" THEN 1 ELSE 0
  BY EffectCounts
<1>2. /\ u.kind = q.kind
      /\ q.kind = "none" => f = 0
      /\ q.kind \in Kinds => f \in Nat /\ f <= Most[q.kind]
      /\ q.kind = "write" => f = b
      /\ q.kind = "transaction" => f \in {0, 1}
      /\ q.kind = "session" => /\ b >= u.written /\ (b > 0 => f = b)
                               /\ b = 0 => f = IF u.verdict = "done" THEN 1 ELSE 0
  BY EffectCounts DEF Moved
<1>3. /\ q \in CallRecords /\ q.kind \in Kinds \cup {"none"} /\ q.written \in Nat
      /\ q.verdict \in {"nothing", "done", "failed"}
      /\ MaxSteps \in Nat /\ MaxAttempts \in Nat
  BY Numbers DEF GoodCall, CallRecords
<1>4. CASE q.kind \in {"none", "read", "write"}
  <2>1. q.kind = "none" => f = e
    BY <1>1, <1>2
  <2>2. q.kind = "read" => f = e
    BY <1>1, <1>2, MostIs DEF Kinds
  <2>3. q.kind = "write" => f = e \/ (f = e + 1 /\ e < Most[q.kind])
    BY <1>1, <1>2, <1>3, MostIs DEF Kinds
  <2>4. QED
    BY <1>4, <2>1, <2>2, <2>3 DEF Kinds
<1>5. CASE q.kind = "transaction"
  <2>1. e = 1 => f = 1
    <3>1. CASE e = 1
      <4>1. (a = q.written /\ a > 0) \/ (a = 0 /\ q.written = 0 /\ q.verdict = "done")
        BY <1>5, <3>1 DEF EffectIn, OnClient
      <4>2. CASE a = q.written /\ a > 0
        <5>1. q.phase \in Ended \/ q.stmt = "rollback"
          BY <1>5, <4>2 DEF Has, TransactionHas
        <5>2. u.written = q.written /\ b > 0
          BY <4>2, <5>1 DEF Moved
        <5>3. f # 0
          BY <1>2, <1>5, <5>2 DEF EffectIn, OnClient
        <5>4. QED
          BY <1>2, <1>5, <5>3
      <4>3. CASE a = 0 /\ q.written = 0 /\ q.verdict = "done"
        <5>1. q.phase \in Ended
          BY <4>3 DEF KindFits
        <5>2. u.written = 0 /\ u.verdict = "done"
          BY <4>3, <5>1 DEF Moved
        <5>3. f # 0
          BY <1>2, <1>5, <5>2 DEF EffectIn, OnClient
        <5>4. QED
          BY <1>2, <1>5, <5>3
      <4>4. QED
        BY <4>1, <4>2, <4>3
    <3>2. QED
      BY <3>1
  <2>2. QED
    BY <1>1, <1>2, <1>5, <2>1, MostIs DEF Kinds
<1>6. CASE q.kind = "session"
  <2>1. q.verdict = "done" => u.verdict = "done"
    BY DEF Moved
  <2>2. f = e \/ f = e + 1
    BY <1>1, <1>2, <1>3, <1>6, <2>1
  <2>3. QED
    BY <1>1, <1>2, <1>3, <1>6, <2>2, MostIs DEF Kinds
<1>7. QED
  BY <1>3, <1>4, <1>5, <1>6 DEF Kinds

\* Whoever was told is told nothing else.
LEMMA DoneStays ==
    ASSUME IInv, [Next]_vars, NEW c \in Callers, call[c].phase = "done"
    PROVE  call'[c] = call[c]
<1>1. DOMAIN call = Callers
  BY DEF IInv
<1>2. ASSUME NEW d \in Callers, Serve(d)
      PROVE  d # c
  <2>1. waiters \in Seq(Callers) /\ waiters # <<>> /\ waiters[1] = d /\ 1 \in DOMAIN waiters
    BY <1>2 DEF Serve, IInv, WaitersWait
  <2>2. QED
    BY <2>1 DEF IInv, WaitersWait, Phase
<1>3. ASSUME NEW d \in Callers, Start(d) \/ Step(d) \/ Breaks(d) \/ ClientBreaks(d)
      PROVE  call'[c] = call[c]
  <2>1. CASE Serve(d)
    BY <1>1, <1>2, <2>1 DEF Serve
  <2>2. CASE ~ Serve(d)
    <3>1. d # c \/ call' = call
      BY <1>3, <2>2 DEF Step, Start, CannotConnect, Accepts, Refuses, FailsOnBroken, Retry,
         WorkSends, WorkEnds, Return, Breaks, ClientBreaks, Phase
    <3>2. QED
      BY <1>1, <1>3, <2>2, <3>1 DEF Step, Start, CannotConnect, Accepts, Refuses, FailsOnBroken,
         Retry, WorkSends, WorkEnds, Return, Breaks, ClientBreaks
  <2>3. QED
    BY <2>1, <2>2
<1>4. CASE OrphanRuns \/ Close \/ Drained \/ UNCHANGED vars
  BY <1>4 DEF OrphanRuns, Close, Drained, vars
<1>5. QED
  BY <1>3, <1>4 DEF Next

LEMMA BothIs ==
    ASSUME NEW c \in Callers
    PROVE  /\ EffectOf(c) = EffectIn(call[c], applied[c])
           /\ ToldOf(c) = ToldIn(call[c])
           /\ EffectOf(c)' = EffectIn(call'[c], applied'[c])
           /\ ToldOf(c)' = ToldIn(call'[c])
BY DEF EffectOf, EffectIn, ToldOf, ToldIn

AskedBy == [c \in Callers |-> call[c].kind]
EffectsOf == [c \in Callers |-> EffectOf(c)]
ToldTo == [c \in Callers |-> ToldOf(c)]

\* The steps of the abstract work, caller by caller.
LEMMA Asks ==
    ASSUME NEW c \in Callers, call[c].kind = "none", NEW k \in Kinds, call'[c].kind = k,
           \A d \in Callers \ {c} : call'[d].kind = call[d].kind,
           \A d \in Callers : EffectOf(d)' = EffectOf(d) /\ ToldOf(d)' = ToldOf(d)
    PROVE  Abstract!Ask(c)
<1>1. AskedBy' = [AskedBy EXCEPT ![c] = k] /\ AskedBy[c] = "none"
  BY DEF AskedBy
<1>2. EffectsOf' = EffectsOf /\ ToldTo' = ToldTo
  BY DEF EffectsOf, ToldTo
<1>3. QED
  BY <1>1, <1>2 DEF Abstract!Ask, AskedBy, EffectsOf, ToldTo

LEMMA TakesEffect ==
    ASSUME NEW c \in Callers, call[c].kind \in Kinds, EffectOf(c) < Most[call[c].kind],
           EffectOf(c)' = EffectOf(c) + 1,
           \A d \in Callers \ {c} : EffectOf(d)' = EffectOf(d),
           \A d \in Callers : call'[d].kind = call[d].kind /\ ToldOf(d)' = ToldOf(d)
    PROVE  Abstract!TakeEffect(c)
<1>1. EffectsOf' = [EffectsOf EXCEPT ![c] = @ + 1] /\ EffectsOf[c] < Most[AskedBy[c]]
  BY DEF EffectsOf, AskedBy
<1>2. AskedBy' = AskedBy /\ ToldTo' = ToldTo
  BY DEF AskedBy, ToldTo
<1>3. AskedBy[c] # "none"
  BY DEF AskedBy, Kinds
<1>4. QED
  BY <1>1, <1>2, <1>3 DEF Abstract!TakeEffect, AskedBy, EffectsOf, ToldTo, Most

LEMMA Tells ==
    ASSUME NEW c \in Callers, call[c].kind \in Kinds, ToldOf(c) = "nothing",
           NEW v \in {"done", "failed"}, ToldOf(c)' = v,
           v = "done" /\ Most[call[c].kind] > 0 => EffectOf(c) > 0,
           \A d \in Callers \ {c} : ToldOf(d)' = ToldOf(d),
           \A d \in Callers : call'[d].kind = call[d].kind /\ EffectOf(d)' = EffectOf(d)
    PROVE  Abstract!Tell(c)
<1>1. ToldTo' = [ToldTo EXCEPT ![c] = v] /\ ToldTo[c] = "nothing"
  BY DEF ToldTo
<1>2. AskedBy' = AskedBy /\ EffectsOf' = EffectsOf
  BY DEF AskedBy, EffectsOf
<1>3. AskedBy[c] # "none"
  BY DEF AskedBy, Kinds
<1>4. v = "done" => (Most[AskedBy[c]] > 0 => EffectsOf[c] > 0)
  BY DEF AskedBy, EffectsOf
<1>5. QED
  BY <1>1, <1>2, <1>3, <1>4 DEF Abstract!Tell, AskedBy, EffectsOf, ToldTo, Most

LEMMA StaysAbstract ==
    ASSUME \A d \in Callers : /\ call'[d].kind = call[d].kind /\ EffectOf(d)' = EffectOf(d)
                              /\ ToldOf(d)' = ToldOf(d)
    PROVE  UNCHANGED Abstract!abstractVars
<1>1. AskedBy' = AskedBy /\ EffectsOf' = EffectsOf /\ ToldTo' = ToldTo
  BY DEF AskedBy, EffectsOf, ToldTo
<1>2. QED
  BY <1>1 DEF Abstract!abstractVars, AskedBy, EffectsOf, ToldTo

LEMMA OthersSame ==
    ASSUME NEW d \in Callers, call'[d] = call[d], applied'[d] = applied[d]
    PROVE  /\ call'[d].kind = call[d].kind /\ EffectOf(d)' = EffectOf(d)
           /\ ToldOf(d)' = ToldOf(d)
BY BothIs

LEMMA StartAsks ==
    ASSUME EInv, NEW c \in Callers, Start(c)
    PROVE  Abstract!Ask(c)
<1>1. /\ GoodCall(call[c]) /\ call[c] \in CallRecords /\ call[c].phase = "new"
      /\ Fit(call[c], Own(c), Own(c).writes[c], applied[c], Cardinality(Owed(c)))
  BY Known DEF Start, Phase
<1>2. /\ call[c].kind = "none" /\ call[c].told = "nothing" /\ call[c].verdict = "nothing"
      /\ call[c].written = 0 /\ applied[c] = 0 /\ applied' = applied
  BY <1>1 DEF Start, Fit, Has, GoodCall, PhaseFits, NewCall
<1>3. PICK k \in Kinds :
        call' = [call EXCEPT ![c] =
                [(IF k \in OnClient THEN [@ EXCEPT !.phase = "waiting"]
                  ELSE SendByPool(c, IF k = "read" THEN "select" ELSE "write"))
                 EXCEPT !.kind = k]]
  BY DEF Start
<1>4. PICK s : /\ call' = [call EXCEPT ![c] = s]
               /\ \/ s = Wanted(call[c], k)
                  \/ \E stmt \in {"select", "write"} : s = Asked(call[c], stmt, k)
  BY <1>3 DEF SendByPool, Queued, Asked, Wanted
<1>5. s.kind = k /\ s.told = "nothing" /\ s.verdict = "nothing" /\ s.written = 0
  BY <1>1, <1>2, <1>4, WantedFields, AskedFields
<1>6. call'[c] = s /\ \A d \in Callers \ {c} : call'[d] = call[d]
  BY <1>4 DEF EInv, IInv
<1>7. EffectOf(c)' = EffectOf(c) /\ ToldOf(c)' = ToldOf(c)
  <2>1. EffectIn(s, 0) = 0 /\ EffectIn(call[c], 0) = 0
    BY <1>2, <1>5 DEF EffectIn
  <2>2. ToldIn(s) = "nothing" /\ ToldIn(call[c]) = "nothing"
    BY <1>2, <1>5 DEF ToldIn
  <2>3. QED
    BY <1>2, <1>6, <2>1, <2>2, BothIs
<1>8. \A d \in Callers \ {c} :
        /\ call'[d].kind = call[d].kind /\ EffectOf(d)' = EffectOf(d) /\ ToldOf(d)' = ToldOf(d)
  BY <1>2, <1>6, OthersSame
<1>9. QED
  BY <1>2, <1>5, <1>6, <1>7, <1>8, Asks

LEMMA ReturnTells ==
    ASSUME EInv, NEW c \in Callers, Return(c)
    PROVE  Abstract!Tell(c)
<1> DEFINE q == call[c]
           s == Settled(q)
           a == applied[c]
<1>1. /\ GoodCall(q) /\ q \in CallRecords /\ q.phase = "leave" /\ KindFits(q)
      /\ a \in Nat /\ Has(q, Own(c), a, Cardinality(Owed(c))) /\ Cardinality(Owed(c)) \in Nat
  BY Known DEF Return, Phase, Fit
<1>2. call' = [call EXCEPT ![c] = s] /\ applied' = applied
  BY DEF Return, Settled
<1>3. call'[c] = s /\ \A d \in Callers \ {c} : call'[d] = call[d]
  BY <1>2 DEF EInv, IInv
<1> HIDE DEF q, s, a
<1>4. /\ s.told = q.verdict /\ s.kind = q.kind /\ s.written = q.written
      /\ s.verdict = q.verdict /\ s.hid = q.hid
  BY <1>1, SettledFields DEF s
<1>5. q.verdict \in {"done", "failed"} /\ q.told = "nothing" /\ q.kind \in Kinds
  BY <1>1 DEF KindFits, CallRecords, GoodCall, PhaseFits, Ended
<1>6. EffectIn(s, a) = EffectIn(q, a)
  BY <1>4 DEF EffectIn
<1>7. q.verdict = "done" /\ ~ q.hid => (Most[q.kind] > 0 => EffectIn(q, a) > 0)
  <2>1. q.verdict = "done" /\ ~ q.hid /\ q.kind \in Kinds \ {"read"} => EffectIn(q, a) > 0
    BY <1>1, EffectCounts
  <2>2. QED
    BY <1>5, <2>1, MostIs
<1> DEFINE v == IF q.verdict = "done" /\ q.hid THEN "failed" ELSE q.verdict
<1>8. ToldIn(s) = v /\ ToldIn(q) = "nothing" /\ v \in {"done", "failed"}
  BY <1>4, <1>5 DEF ToldIn
<1>9. v = "done" => q.verdict = "done" /\ ~ q.hid
  OBVIOUS
<1> HIDE DEF v
<1>10. /\ EffectOf(c)' = EffectOf(c) /\ EffectOf(c) = EffectIn(q, a)
       /\ ToldOf(c)' = v /\ ToldOf(c) = "nothing"
  <2>1. /\ EffectOf(c) = EffectIn(q, a) /\ ToldOf(c) = ToldIn(q)
        /\ EffectOf(c)' = EffectIn(s, a) /\ ToldOf(c)' = ToldIn(s)
    BY <1>2, <1>3, BothIs DEF q, a
  <2>2. QED
    BY <1>6, <1>8, <2>1
<1>11. \A d \in Callers \ {c} :
        /\ call'[d].kind = call[d].kind /\ EffectOf(d)' = EffectOf(d) /\ ToldOf(d)' = ToldOf(d)
  BY <1>2, <1>3, OthersSame
<1>12. QED
  BY <1>3, <1>4, <1>5, <1>7, <1>8, <1>9, <1>10, <1>11, Tells DEF q

LEMMA MovesAbstractly ==
    ASSUME EInv, EInv', [Next]_vars, NEW c \in Callers, Moves(c)
    PROVE  Abstract!TakeEffect(c) \/ UNCHANGED Abstract!abstractVars
<1> DEFINE q == call[c]
           u == call'[c]
           x == Own(c)
           y == Own(c)'
           a == applied[c]
           b == applied'[c]
           n == Cardinality(Owed(c))
           k == Cardinality(Owed(c))'
<1>1. GoodCall(q) /\ KindFits(q) /\ a \in Nat /\ n \in Nat /\ Has(q, x, a, n)
  BY Known DEF Fit
<1>2. GoodCall(u) /\ KindFits(u) /\ b \in Nat /\ k \in Nat /\ Has(u, y, b, k)
  <2>1. (GoodCall(call[c]) /\ KindFits(call[c]) /\ applied[c] \in Nat /\ Cardinality(Owed(c)) \in Nat
         /\ Has(call[c], Own(c), applied[c], Cardinality(Owed(c))))'
    BY Known, PTL DEF Fit
  <2>2. QED
    BY <2>1
<1>3. /\ Moved(u, q) /\ b >= a /\ (q.kind # "transaction" => b <= a + 1)
      /\ \A d \in Callers \ {c} : call'[d] = call[d] /\ applied'[d] = applied[d]
  BY DEF Moves
<1>4. ToldIn(u) = ToldIn(q)
  <2>1. CASE q.phase = "done"
    BY <2>1, DoneStays DEF EInv
  <2>2. CASE q.phase # "done"
    <3>1. q.told = "nothing"
      BY <1>1, <2>2 DEF KindFits
    <3>2. u.told = q.told
      BY <1>3 DEF Moved
    <3>3. QED
      BY <3>1, <3>2 DEF ToldIn
  <2>3. QED
    BY <2>1, <2>2
<1>5. /\ EffectOf(c) = EffectIn(q, a) /\ EffectOf(c)' = EffectIn(u, b)
      /\ ToldOf(c) = ToldIn(q) /\ ToldOf(c)' = ToldIn(u)
  BY BothIs
<1>6. \A d \in Callers \ {c} :
        /\ call'[d].kind = call[d].kind /\ EffectOf(d)' = EffectOf(d) /\ ToldOf(d)' = ToldOf(d)
  BY <1>3, OthersSame
<1>7. u.kind = q.kind
  BY <1>3 DEF Moved
<1> HIDE DEF x, y, a, b, n, k
<1>8. \A d \in Callers : call'[d].kind = call[d].kind /\ ToldOf(d)' = ToldOf(d)
  BY <1>4, <1>5, <1>6, <1>7
<1> HIDE DEF q, u
<1>9. \/ EffectIn(u, b) = EffectIn(q, a)
      \/ /\ q.kind \in Kinds /\ EffectIn(u, b) = EffectIn(q, a) + 1
         /\ EffectIn(q, a) < Most[q.kind]
  BY <1>1, <1>2, <1>3, OneEffect
<1>10. CASE EffectIn(u, b) = EffectIn(q, a)
  BY <1>5, <1>6, <1>8, <1>10, StaysAbstract
<1>11. CASE /\ q.kind \in Kinds /\ EffectIn(u, b) = EffectIn(q, a) + 1
            /\ EffectIn(q, a) < Most[q.kind]
  <2>1. call[c].kind \in Kinds /\ EffectOf(c) < Most[call[c].kind] /\ EffectOf(c)' = EffectOf(c) + 1
    BY <1>5, <1>11 DEF q
  <2>2. QED
    BY <1>6, <1>8, <2>1, TakesEffect
<1>12. QED
  BY <1>9, <1>10, <1>11

\* Every step is one of the abstract work, or none of it.
LEMMA StepsAbstract ==
    ASSUME EInv, EInv', [Next]_vars
    PROVE  [Abstract!Next]_(Abstract!abstractVars)
<1>1. ASSUME NEW c \in Callers, Start(c) \/ Return(c) \/ Moves(c)
      PROVE  [Abstract!Next]_(Abstract!abstractVars)
  BY <1>1, StartAsks, ReturnTells, MovesAbstractly DEF Abstract!Next
<1>2. CASE call' = call /\ applied' = applied
  BY <1>2, OthersSame, StaysAbstract
<1>3. QED
  BY <1>1, <1>2, EffectsNext

LEMMA InitAbstract == Init => Abstract!Init
<1> SUFFICES ASSUME Init
             PROVE  Abstract!Init
  OBVIOUS
<1>1. ASSUME NEW c \in Callers
      PROVE  call[c].kind = "none" /\ EffectOf(c) = 0 /\ ToldOf(c) = "nothing"
  <2>1. call[c] = NewCall /\ applied[c] = 0
    BY FreshSession DEF Init
  <2>2. NewCall.kind = "none" /\ NewCall.told = "nothing" /\ NewCall.verdict = "nothing"
    BY DEF NewCall
  <2>3. QED
    BY <2>1, <2>2, BothIs DEF EffectIn, ToldIn
<1>2. /\ AskedBy = [c \in Callers |-> "none"] /\ EffectsOf = [c \in Callers |-> 0]
      /\ ToldTo = [c \in Callers |-> "nothing"]
  BY <1>1 DEF AskedBy, EffectsOf, ToldTo
<1>3. QED
  BY <1>2 DEF Abstract!Init, AskedBy, EffectsOf, ToldTo

\* PgDatabase does the work the port promises: every step of a caller, of the pool
\* and of the server asks, takes effect once, tells, or leaves the abstract work
\* alone (transaction, withSession, run and instrument in pg.database.ts).
THEOREM AtomicImplemented == Spec => DoesAtomicWork
<1>1. EInv /\ EInv' /\ [Next]_vars => [Abstract!Next]_(Abstract!abstractVars)
  BY StepsAbstract
<1>2. QED
  BY <1>1, InitAbstract, EffectsInductive, PTL DEF Spec, DoesAtomicWork, Abstract!Spec
=============================================================================
