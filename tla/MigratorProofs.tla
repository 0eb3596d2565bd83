---------------------------- MODULE MigratorProofs ----------------------------
(***************************************************************************)
(* What Migrator promises for any number of instances, builds, migrations, *)
(* boots and broken connections: the schema is what schema_migrations says *)
(* it is, in the order of the ids, and who serves does so over it.         *)
(***************************************************************************)
EXTENDS Migrator, SequenceTheorems, TLAPS

\* The phases in which a session has the lock, and those of a migration.
Locked == {"reading", "beginning", "running", "recording", "committing", "rollingBack", "unlocking"}
Migrating == {"beginning", "running", "recording", "committing"}
Absent == {"unused", "gone"}

\* Every migration of a build is recorded, but for those reverted by hand.
Covered(b) ==
    \A id \in DOMAIN b \ reverted : id \in DOMAIN recorded /\ recorded[id] = b[id]

\* What a session that is at work has left to do.
HasToDo(u) ==
    /\ u.phase \in Migrating /\ u.kind = "up" => Unchanged(u.build) /\ u.todo = Pending(u.build)
    /\ u.phase \in Migrating /\ u.kind = "down" => DOMAIN recorded # {} /\ u.todo = {Latest}
    /\ u.phase \in {"unlocking", "done"} /\ u.kind = "up" /\ ~ u.failed => Covered(u.build)

GoodSession(s) ==
    /\ Phase(s) \in Locked => holder = s
    /\ ~ session[s].attached /\ Phase(s) \notin Absent => troubled
    /\ HasToDo(session[s])

\* The migrations recorded are the first ones.
InOrder == \E k \in {0} \cup DOMAIN recorded : DOMAIN recorded = 1..k

\* A migration outside a transaction that has run and is not recorded yet.
UnderwayAt(u, id) ==
    u.phase = "recording" /\ u.kind = "up" /\ First(u.todo) = id /\ id \in NoTransaction
Underway(id) == \E s \in Sessions : UnderwayAt(session[s], id)

\* How often a migration is to stand applied.
Due(id) ==
    (IF id \in DOMAIN recorded THEN 1 ELSE 0) + (IF Underway(id) THEN 1 ELSE 0)

Stands(id) ==
    /\ effects[id] >= Due(id)
    /\ id \notin NoTransaction \/ ~ troubled => effects[id] = Due(id)

IInv ==
    /\ TypeOK
    /\ InOrder
    /\ \A s \in Sessions : GoodSession(s)
    /\ \A id \in Ids : Stands(id)

-----------------------------------------------------------------------------
(* Builds, and what is to do of them *)

Stored == Builds \cup {<<>>}
Stepping == Migrating \cup {"rollingBack"}

LEMMA BuildFacts ==
    ASSUME NEW b \in Stored
    PROVE  /\ \E n \in Nat : DOMAIN b = 1..n
           /\ DOMAIN b \subseteq Ids
           /\ \A id \in DOMAIN b : b[id] \in Contents
<1>1. CASE b \in Builds
  <2>1. PICK S : b \in Seq(S)
    BY <1>1, BuildsAssumption
  <2>2. Len(b) \in Nat /\ DOMAIN b = 1..Len(b)
    BY <2>1, LenProperties
  <2>3. DOMAIN b \subseteq Ids
    BY <1>1 DEF Ids
  <2>4. ASSUME NEW id \in DOMAIN b
        PROVE  b[id] \in Contents
    <3>1. b[id] \in {b[i] : i \in DOMAIN b}
      BY <2>4
    <3>2. QED
      BY <1>1, <3>1 DEF Contents
  <2>5. QED
    BY <2>2, <2>3, <2>4
<1>2. CASE b = <<>>
  <2>1. DOMAIN b = 1..0
    BY <1>2
  <2>2. QED
    BY <2>1
<1>3. QED
  BY <1>1, <1>2 DEF Stored

\* The last of the first k, and the first of the rest.
LEMMA LatestIs ==
    ASSUME NEW k \in Nat, DOMAIN recorded = 1..k, DOMAIN recorded # {}
    PROVE  Latest = k /\ k \in DOMAIN recorded
<1>1. k \in 1..k
  OBVIOUS
<1>2. \A id \in 1..k : (\A other \in 1..k : other <= id) <=> id = k
  BY <1>1
<1>3. QED
  BY <1>1, <1>2 DEF Latest

LEMMA FirstIs ==
    ASSUME NEW b \in Stored, NEW k \in Nat, DOMAIN recorded = 1..k, Pending(b) # {}
    PROVE  /\ First(Pending(b)) = k + 1 /\ k + 1 \in Pending(b)
           /\ 1..(k + 1) = DOMAIN recorded \cup {k + 1}
<1>1. PICK n \in Nat : DOMAIN b = 1..n
  BY BuildFacts
<1>2. Pending(b) = (1..n) \ (1..k)
  BY <1>1 DEF Pending
<1>3. k + 1 \in Pending(b)
  BY <1>2
<1>4. \A id \in Pending(b) : k + 1 <= id /\ id \in Nat
  BY <1>2
<1>5. \A id \in Pending(b) : (\A other \in Pending(b) : id <= other) <=> id = k + 1
  BY <1>3, <1>4
<1>6. First(Pending(b)) = k + 1
  BY <1>3, <1>5 DEF First
<1>7. QED
  BY <1>3, <1>6

LEMMA FirstOfOne ==
    ASSUME NEW id \in Nat
    PROVE  First({id}) = id
BY DEF First

LEMMA IdsAreNumbers == Ids \subseteq Nat \ {0}
<1> SUFFICES ASSUME NEW id \in Ids
             PROVE  id \in Nat \ {0}
  OBVIOUS
<1>1. PICK b \in Builds : id \in DOMAIN b
  BY DEF Ids
<1>2. PICK n \in Nat : DOMAIN b = 1..n
  BY BuildFacts DEF Stored
<1>3. QED
  BY <1>1, <1>2

-----------------------------------------------------------------------------
(* A session moves on, and the others stay. *)

LEMMA Before ==
    ASSUME IInv, NEW s \in Sessions
    PROVE  /\ session \in [Sessions -> SessionStates] /\ session[s] \in SessionStates
           /\ GoodSession(s) /\ session[s].build \in Stored /\ s # None
           /\ Phase(s) \in Stepping => session[s].todo # {}
           /\ Phase(s) \in Locked => holder = s
BY NoneAssumption DEF IInv, TypeOK, GoodSession, SessionStates, Stored, Stepping, Migrating, Phase

\* What a step of session s may leave it as, and do to the lock.
Moves(s, u) ==
    /\ session' = [session EXCEPT ![s] = u] /\ u \in SessionStates
    /\ u.phase \in Stepping => u.todo # {}
    /\ holder' \in Sessions \cup {None}
    /\ holder' = holder \/ holder = None \/ holder = s
    /\ u.phase \in Locked => holder' = s
    /\ ~ u.attached /\ u.phase \notin Absent => troubled'
    /\ troubled' \in BOOLEAN /\ (troubled => troubled') /\ breaks' = breaks

\* What it may do to the record: who serves has what it had.
Keeps(s) ==
    \/ UNCHANGED <<recorded, reverted>>
    \/ holder = s /\ \A b \in Stored : Covered(b) => Covered(b)'

LEMMA Moved ==
    ASSUME IInv, NEW s \in Sessions, NEW u, Moves(s, u)
    PROVE  /\ session' \in [Sessions -> SessionStates] /\ session'[s] = u
           /\ \A t \in Sessions \ {s} : session'[t] = session[t]
BY DEF Moves, IInv, TypeOK

LEMMA OthersStay ==
    ASSUME IInv, NEW s \in Sessions, NEW u, Moves(s, u), Keeps(s)
    PROVE  \A t \in Sessions \ {s} : GoodSession(t)'
<1> SUFFICES ASSUME NEW t \in Sessions \ {s}
             PROVE  GoodSession(t)'
  OBVIOUS
<1>1. session'[t] = session[t] /\ Phase(t)' = Phase(t)
  BY Moved DEF Phase
<1>2. (Phase(t) \in Locked => holder' = t) /\ (troubled => troubled')
  BY Before DEF Moves
<1>3. HasToDo(session[t]) /\ session[t].build \in Stored
  BY Before DEF GoodSession
<1>4. HasToDo(session[t])'
  <2>1. CASE UNCHANGED <<recorded, reverted>>
    BY <1>1, <1>3, <2>1 DEF HasToDo, Unchanged, Pending, Latest, Covered
  <2>2. CASE holder = s /\ \A b \in Stored : Covered(b) => Covered(b)'
    <3>1. Phase(t) \notin Locked
      BY <2>2, Before
    <3>2. session[t].phase \notin Migrating /\ session[t].phase # "unlocking"
      BY <3>1 DEF Phase, Locked, Migrating
    <3>3. QED
      BY <1>1, <1>3, <2>2, <3>2 DEF HasToDo
  <2>3. QED
    BY <2>1, <2>2 DEF Keeps
<1>5. GoodSession(t)
  BY Before
<1>6. QED
  BY <1>1, <1>2, <1>4, <1>5 DEF GoodSession

\* What is left to show of a step.
LEMMA Stepped ==
    ASSUME IInv, NEW s \in Sessions, NEW u, Moves(s, u), Keeps(s), HasToDo(u)',
           effects' \in [Ids -> Int], reverted' \subseteq Ids, InOrder',
           DOMAIN recorded' \subseteq Ids, \A id \in DOMAIN recorded' : recorded'[id] \in Contents,
           \A id \in Ids : Stands(id)'
    PROVE  IInv'
<1>1. /\ session' \in [Sessions -> SessionStates] /\ session'[s] = u
      /\ \A t \in Sessions \ {s} : session'[t] = session[t]
  BY Moved
<1>2. \A t \in Sessions : session'[t].phase \in Stepping => session'[t].todo # {}
  BY <1>1, Before DEF Moves, Phase
<1>3. TypeOK'
  BY <1>1, <1>2 DEF IInv, TypeOK, Moves, Phase, Stepping, Migrating
<1>4. GoodSession(s)'
  BY <1>1 DEF Moves, GoodSession, Phase
<1>5. \A t \in Sessions : GoodSession(t)'
  BY <1>4, OthersStay
<1>6. QED
  BY <1>3, <1>5 DEF IInv

LEMMA UnderwayMoves ==
    ASSUME IInv, NEW s \in Sessions, NEW u, Moves(s, u), NEW id
    PROVE  /\ ~ UnderwayAt(session[s], id) /\ ~ UnderwayAt(u, id)
                => (Underway(id)' <=> Underway(id))
           /\ Phase(s) \in Locked
                => /\ Underway(id) <=> UnderwayAt(session[s], id)
                   /\ Underway(id)' <=> UnderwayAt(u, id)
<1>1. /\ session'[s] = u
      /\ \A t \in Sessions \ {s} : session'[t] = session[t]
  BY Moved
<1>2. ASSUME Phase(s) \in Locked, NEW t \in Sessions \ {s}
      PROVE  ~ UnderwayAt(session[t], id)
  BY <1>2, Before DEF UnderwayAt, Locked, Phase
<1>3. Underway(id)' <=> \E t \in Sessions : UnderwayAt(session'[t], id)
  BY DEF Underway, UnderwayAt
<1>4. QED
  BY <1>1, <1>2, <1>3 DEF Underway

\* A step that changes nothing but the session and the lock.
LEMMA Quiet ==
    ASSUME IInv, NEW s \in Sessions, NEW u, Moves(s, u), HasToDo(u),
           UNCHANGED <<effects, recorded, reverted>>,
           \A id : ~ UnderwayAt(u, id),
           (\A id : ~ UnderwayAt(session[s], id)) \/ troubled'
    PROVE  IInv'
<1>1. HasToDo(u)' /\ InOrder' /\ Keeps(s)
  BY DEF HasToDo, Unchanged, Pending, Latest, Covered, IInv, InOrder, Keeps
<1>2. ASSUME NEW id \in Ids
      PROVE  Stands(id)'
  <2>1. Stands(id) /\ effects[id] \in Int
    BY DEF IInv, TypeOK
  <2>2. CASE ~ UnderwayAt(session[s], id)
    <3>1. Underway(id)' <=> Underway(id)
      BY <2>2, UnderwayMoves
    <3>2. Due(id)' = Due(id)
      BY <3>1 DEF Due
    <3>3. QED
      BY <2>1, <3>2 DEF Stands, Moves
  <2>3. CASE UnderwayAt(session[s], id)
    <3>1. troubled' /\ id \in NoTransaction /\ Phase(s) \in Locked
      BY <2>3 DEF UnderwayAt, Phase, Locked
    <3>2. Underway(id) /\ ~ Underway(id)'
      BY <2>3, <3>1, UnderwayMoves
    <3>3. Due(id)' = Due(id) - 1
      BY <3>2 DEF Due
    <3>4. effects[id] >= Due(id) /\ Due(id) \in Int
      BY <2>1 DEF Stands, Due
    <3>5. QED
      BY <2>1, <3>1, <3>3, <3>4 DEF Stands
  <2>4. QED
    BY <2>2, <2>3
<1>3. QED
  BY <1>1, <1>2, Stepped DEF IInv, TypeOK

-----------------------------------------------------------------------------
(* What a statement's answer makes of a session. *)

LEMMA GoneTyped ==
    /\ Gone \in SessionStates /\ Gone.phase = "gone" /\ ~ Gone.attached
    /\ HasToDo(Gone) /\ HasToDo(Gone)' /\ \A id : ~ UnderwayAt(Gone, id)
    /\ Unused \in SessionStates /\ Unused.phase = "unused" /\ ~ Unused.attached
BY DEF Gone, Unused, SessionStates, HasToDo, UnderwayAt, Migrating

LEMMA Answers ==
    ASSUME IInv, NEW s \in Sessions, NEW u \in SessionStates, NEW l, Answered(s, u, l),
           u.attached = session[s].attached, u.phase \in Stepping => u.todo # {},
           l \in Sessions \cup {None}, l = holder \/ holder = None \/ holder = s,
           u.phase \in Locked => l = s,
           troubled' \in BOOLEAN, troubled => troubled', breaks' = breaks
    PROVE  (session[s].attached /\ Moves(s, u)) \/ (~ session[s].attached /\ Moves(s, Gone))
<1>1. CASE session[s].attached
  BY <1>1 DEF Answered, Moves
<1>2. CASE ~ session[s].attached
  <2>1. session' = [session EXCEPT ![s] = Gone] /\ holder' = IF l = s THEN None ELSE l
    BY <1>2 DEF Answered
  <2>2. Gone.phase \notin Stepping /\ Gone.phase \notin Locked /\ Gone.phase \in Absent
    BY GoneTyped DEF Stepping, Migrating, Locked, Absent
  <2>3. holder' \in Sessions \cup {None} /\ (holder' = holder \/ holder = None \/ holder = s)
    BY <2>1
  <2> HIDE DEF Gone
  <2>4. Moves(s, Gone)
    BY <2>1, <2>2, <2>3, GoneTyped DEF Moves
  <2>5. QED
    BY <1>2, <2>4
<1>3. QED
  BY <1>1, <1>2

LEMMA AtTyped ==
    ASSUME IInv, NEW s \in Sessions,
           NEW p \in {"locking", "reading", "running", "recording", "committing", "rollingBack", "done"}
    PROVE  /\ At(s, p) \in SessionStates /\ At(s, p).phase = p
           /\ At(s, p).kind = session[s].kind /\ At(s, p).build = session[s].build
           /\ At(s, p).todo = session[s].todo /\ At(s, p).failed = session[s].failed
           /\ At(s, p).attached = session[s].attached
BY Before DEF At, SessionStates

LEMMA FailedTyped ==
    ASSUME IInv, NEW s \in Sessions
    PROVE  /\ Failed(s) \in SessionStates /\ Failed(s).phase = "unlocking" /\ Failed(s).failed
           /\ Failed(s).attached = session[s].attached
BY Before DEF Failed, SessionStates

LEMMA ContinuedTyped ==
    ASSUME IInv, NEW s \in Sessions, NEW todo \in SUBSET Ids
    PROVE  /\ Continued(s, todo) \in SessionStates
           /\ IF todo = {} THEN Continued(s, todo).phase = "unlocking"
              ELSE Continued(s, todo).phase \in {"beginning", "running"}
           /\ Continued(s, todo).kind = session[s].kind
           /\ Continued(s, todo).build = session[s].build
           /\ Continued(s, todo).todo = todo /\ Continued(s, todo).failed = session[s].failed
           /\ Continued(s, todo).attached = session[s].attached
<1> DEFINE p == IF todo = {} THEN "unlocking"
                ELSE IF session[s].kind = "up" /\ First(todo) \in NoTransaction THEN "running"
                ELSE "beginning"
<1>1. Continued(s, todo) = [session[s] EXCEPT !.todo = todo, !.phase = p]
  BY DEF Continued
<1>2. p \in {"unlocking", "running", "beginning"} /\ (todo = {} => p = "unlocking")
      /\ (todo # {} => p \in {"running", "beginning"})
  OBVIOUS
<1> HIDE DEF p
<1>3. QED
  BY <1>1, <1>2, Before DEF SessionStates

\* A statement that changes neither the schema nor the record.
LEMMA QuietAnswer ==
    ASSUME IInv, NEW s \in Sessions, NEW u \in SessionStates, NEW l, Answered(s, u, l),
           u.attached = session[s].attached, u.phase \in Stepping => u.todo # {},
           l \in Sessions \cup {None}, l = holder \/ holder = None \/ holder = s,
           u.phase \in Locked => l = s,
           troubled' \in BOOLEAN, troubled => troubled', breaks' = breaks,
           UNCHANGED <<effects, recorded, reverted>>,
           HasToDo(u), \A id : ~ UnderwayAt(u, id), \A id : ~ UnderwayAt(session[s], id)
    PROVE  IInv'
<1>1. (session[s].attached /\ Moves(s, u)) \/ (~ session[s].attached /\ Moves(s, Gone))
  BY Answers
<1>2. CASE Moves(s, u)
  BY <1>2, Quiet
<1>3. CASE Moves(s, Gone)
  BY <1>3, Quiet, GoneTyped
<1>4. QED
  BY <1>1, <1>2, <1>3

-----------------------------------------------------------------------------
(* The actions *)

LEMMA Starting ==
    ASSUME IInv, NEW i \in Instances, NEW n \in 1..Boots[i], NEW b \in Deploys[i], Starts(i, n, b)
    PROVE  IInv'
<1> DEFINE r == <<i, n>>
           u == [Unused EXCEPT !.phase = "settingTimeout", !.kind = KindOf(i), !.build = b,
                               !.attached = TRUE]
<1>1. r \in Sessions /\ b \in Builds
  BY DEF Sessions, Builds
<1>2. /\ u \in SessionStates /\ u.phase = "settingTimeout" /\ u.attached
      /\ u.phase \notin Stepping \cup Locked \cup Absent /\ u.phase # "recording"
  BY <1>1 DEF Unused, SessionStates, KindOf, Stepping, Migrating, Locked, Absent
<1>3. /\ session[r].phase = "unused"
      /\ UNCHANGED <<holder, effects, recorded, breaks, troubled, reverted>>
      /\ session' = [s \in Sessions |->
            IF s = r THEN u ELSE IF s[1] = i /\ Succeeded(s) THEN Gone ELSE session[s]]
  BY DEF Starts, Phase
<1> HIDE DEF r, u
<1>4. /\ session'[r] = u
      /\ \A s \in Sessions \ {r} :
            session'[s] = session[s] \/ (session'[s] = Gone /\ session[s].phase = "done")
  BY <1>1, <1>3 DEF Phase, Succeeded
<1>5. \A s \in Sessions : session'[s] \in SessionStates
  BY <1>2, <1>4, Before, GoneTyped
<1>6. session' \in [Sessions -> SessionStates]
  BY <1>3, <1>5
<1>7. HasToDo(u)'
  BY <1>2 DEF HasToDo, Stepping
<1>8. \A s \in Sessions : GoodSession(s)'
  <2> SUFFICES ASSUME NEW s \in Sessions
               PROVE  GoodSession(s)'
    OBVIOUS
  <2>1. CASE s = r
    BY <1>2, <1>4, <1>7, <2>1 DEF GoodSession, Phase
  <2>2. CASE session'[s] = session[s]
    <3>1. GoodSession(s)
      BY Before
    <3>2. QED
      BY <1>3, <2>2, <3>1
      DEF GoodSession, Phase, HasToDo, Unchanged, Pending, Latest, Covered
  <2>3. CASE session'[s] = Gone
    BY <2>3, GoneTyped DEF GoodSession, Phase, Locked, Absent
  <2>4. QED
    BY <1>4, <2>1, <2>2, <2>3
<1>9. \A s \in Sessions : session'[s].phase \in Stepping => session'[s].todo # {}
  BY <1>2, <1>4, Before, GoneTyped DEF Phase, Stepping, Migrating
<1>10. \A id \in Ids : Stands(id)'
  <2> SUFFICES ASSUME NEW id \in Ids
               PROVE  Stands(id)'
    OBVIOUS
  <2>1. \A s \in Sessions : UnderwayAt(session'[s], id) <=> UnderwayAt(session[s], id)
    BY <1>2, <1>3, <1>4, GoneTyped DEF UnderwayAt
  <2>2. Underway(id)' <=> Underway(id)
    BY <2>1 DEF Underway, UnderwayAt
  <2>3. Due(id)' = Due(id)
    BY <1>3, <2>2 DEF Due
  <2>4. QED
    BY <1>3, <2>3 DEF IInv, Stands
<1>11. QED
  BY <1>3, <1>6, <1>8, <1>9, <1>10 DEF IInv, TypeOK, InOrder, Phase, Stepping, Migrating

\* Whoever breaks or goes leaves the rest as it is.
LEMMA Leaving ==
    ASSUME IInv, NEW s \in Sessions, Dies(s) \/ Exits(s)
    PROVE  IInv'
<1>1. /\ session' = [session EXCEPT ![s] = Gone]
      /\ holder' = IF holder = s THEN None ELSE holder
      /\ UNCHANGED <<effects, recorded, breaks, troubled, reverted>>
  BY DEF Dies, Exits
<1>2. Moves(s, Gone)
  BY <1>1, GoneTyped DEF Moves, IInv, TypeOK, Stepping, Migrating, Locked, Absent
<1>3. (\A id : ~ UnderwayAt(session[s], id)) \/ troubled'
  <2>1. CASE Dies(s)
    BY <1>1, <2>1, Before DEF Dies, GoodSession, Absent
  <2>2. CASE Exits(s)
    BY <2>2 DEF Exits, UnderwayAt, Phase
  <2>3. QED
    BY <2>1, <2>2
<1>4. QED
  BY <1>1, <1>2, <1>3, GoneTyped, Quiet

LEMMA Breaking ==
    ASSUME IInv, NEW s \in Sessions, Breaks(s)
    PROVE  IInv'
<1> DEFINE u == [session[s] EXCEPT !.attached = FALSE]
<1>1. /\ session' = [session EXCEPT ![s] = u] /\ troubled' = TRUE /\ breaks' = breaks + 1
      /\ UNCHANGED <<holder, effects, recorded, reverted>>
  BY DEF Breaks
<1>2. /\ u \in SessionStates /\ u.phase = session[s].phase /\ u.kind = session[s].kind
      /\ u.build = session[s].build /\ u.todo = session[s].todo /\ u.failed = session[s].failed
  BY Before DEF SessionStates
<1> HIDE DEF u
<1>3. /\ session' \in [Sessions -> SessionStates] /\ session'[s] = u
      /\ \A t \in Sessions \ {s} : session'[t] = session[t]
  BY <1>1, <1>2, Before
<1>4. \A t \in Sessions :
        /\ session'[t].phase = session[t].phase /\ session'[t].kind = session[t].kind
        /\ session'[t].build = session[t].build /\ session'[t].todo = session[t].todo
        /\ session'[t].failed = session[t].failed
  BY <1>2, <1>3
<1>5. TypeOK'
  BY <1>1, <1>3, <1>4 DEF IInv, TypeOK, Phase
<1>6. \A t \in Sessions : HasToDo(session[t])'
  BY <1>1, <1>4, Before DEF GoodSession, HasToDo, Unchanged, Pending, Latest, Covered
<1>7. \A t \in Sessions : GoodSession(t)'
  BY <1>1, <1>4, <1>6, Before DEF GoodSession, Phase
<1>8. \A id : Underway(id)' <=> Underway(id)
  BY <1>4 DEF Underway, UnderwayAt
<1>9. \A id \in Ids : Stands(id)'
  <2> SUFFICES ASSUME NEW id \in Ids
               PROVE  Stands(id)'
    OBVIOUS
  <2>1. Due(id)' = Due(id)
    BY <1>1, <1>8 DEF Due
  <2>2. QED
    BY <1>1, <2>1 DEF IInv, Stands
<1>10. QED
  BY <1>1, <1>5, <1>7, <1>9 DEF IInv, InOrder

LEMMA Setting ==
    ASSUME IInv, NEW s \in Sessions, SetsTimeout(s)
    PROVE  IInv'
<1> DEFINE u == [session[s] EXCEPT !.phase = "locking", !.timeout = "none"]
<1>1. /\ Answered(s, u, holder) /\ Phase(s) = "settingTimeout"
      /\ UNCHANGED <<effects, recorded, breaks, troubled, reverted>>
  BY DEF SetsTimeout
<1>2. u \in SessionStates /\ u.phase = "locking" /\ u.attached = session[s].attached
  BY Before DEF SessionStates
<1> HIDE DEF u
<1>3. /\ u.phase \notin Stepping \cup Locked \cup {"recording"}
      /\ HasToDo(u) /\ \A id : ~ UnderwayAt(u, id) /\ ~ UnderwayAt(session[s], id)
  BY <1>1, <1>2 DEF Stepping, Migrating, Locked, HasToDo, UnderwayAt, Phase
<1>4. holder \in Sessions \cup {None} /\ troubled \in BOOLEAN
  BY DEF IInv, TypeOK
<1>5. QED
  BY <1>1, <1>2, <1>3, <1>4, QuietAnswer

LEMMA Locking ==
    ASSUME IInv, NEW s \in Sessions, Locks(s)
    PROVE  IInv'
<1> DEFINE u == At(s, "reading")
<1>1. /\ Answered(s, u, s) /\ Phase(s) = "locking" /\ holder = None
      /\ UNCHANGED <<effects, recorded, breaks, troubled, reverted>>
  BY DEF Locks, Available
<1>2. u \in SessionStates /\ u.phase = "reading" /\ u.attached = session[s].attached
  BY AtTyped
<1> HIDE DEF u
<1>3. /\ u.phase \notin Stepping \cup {"recording"}
      /\ HasToDo(u) /\ \A id : ~ UnderwayAt(u, id) /\ ~ UnderwayAt(session[s], id)
  BY <1>1, <1>2 DEF Stepping, Migrating, HasToDo, UnderwayAt, Phase
<1>4. troubled \in BOOLEAN
  BY DEF IInv, TypeOK
<1>5. QED
  BY <1>1, <1>2, <1>3, <1>4, QuietAnswer

LEMMA Unlocking ==
    ASSUME IInv, NEW s \in Sessions, Unlocks(s)
    PROVE  IInv'
<1> DEFINE u == At(s, "done")
<1>1. /\ Answered(s, u, None) /\ Phase(s) = "unlocking"
      /\ UNCHANGED <<effects, recorded, breaks, troubled, reverted>>
  BY DEF Unlocks, Unlocked
<1>2. /\ u \in SessionStates /\ u.phase = "done" /\ u.attached = session[s].attached
      /\ u.kind = session[s].kind /\ u.build = session[s].build /\ u.failed = session[s].failed
  BY AtTyped
<1> HIDE DEF u
<1>3. u.phase \notin Stepping \cup Locked /\ \A id : ~ UnderwayAt(u, id) /\ ~ UnderwayAt(session[s], id)
  BY <1>1, <1>2 DEF Stepping, Migrating, Locked, UnderwayAt, Phase
<1>4. HasToDo(u)
  BY <1>1, <1>2, Before DEF HasToDo, GoodSession, Migrating, Phase
<1>5. troubled \in BOOLEAN /\ holder = s
  BY <1>1, Before DEF IInv, TypeOK, Locked
<1>6. QED
  BY <1>1, <1>2, <1>3, <1>4, <1>5, QuietAnswer

LEMMA UnlockFailing ==
    ASSUME IInv, NEW s \in Sessions, UnlockFails(s)
    PROVE  IInv'
<1> DEFINE u == [session[s] EXCEPT !.phase = "done", !.failed = TRUE]
<1>1. /\ Answered(s, u, holder) /\ Phase(s) = "unlocking"
      /\ UNCHANGED <<effects, recorded, breaks, troubled, reverted>>
  BY DEF UnlockFails
<1>2. session[s] \in SessionStates
  BY DEF IInv, TypeOK
<1>3. /\ u \in SessionStates /\ u.phase = "done" /\ u.failed
      /\ u.attached = session[s].attached
  BY <1>2 DEF SessionStates
<1> HIDE DEF u
<1>4. /\ u.phase \notin Stepping \cup Locked /\ HasToDo(u)
      /\ \A id : ~ UnderwayAt(u, id) /\ ~ UnderwayAt(session[s], id)
  BY <1>1, <1>3 DEF Stepping, Migrating, Locked, HasToDo, UnderwayAt, Phase
<1>5. troubled \in BOOLEAN /\ holder = s
  BY <1>1, Before DEF IInv, TypeOK, Locked
<1>6. QED
  BY <1>1, <1>3, <1>4, <1>5, QuietAnswer

\* A session that has the lock goes from one phase to another.
LEMMA WithinLock ==
    ASSUME IInv, NEW s \in Sessions, Phase(s) \in Locked, NEW u \in SessionStates,
           Answered(s, u, holder), u.attached = session[s].attached,
           u.phase \in Stepping => u.todo # {}, HasToDo(u),
           \A id : ~ UnderwayAt(u, id) /\ ~ UnderwayAt(session[s], id),
           troubled' \in BOOLEAN, troubled => troubled', breaks' = breaks,
           UNCHANGED <<effects, recorded, reverted>>
    PROVE  IInv'
<1>1. holder = s
  BY Before
<1>2. QED
  BY <1>1, QuietAnswer

LEMMA ReadingUp ==
    ASSUME IInv, NEW s \in Sessions, ReadsUp(s)
    PROVE  IInv'
<1> DEFINE b == session[s].build
<1>1. /\ Phase(s) = "reading" /\ session[s].kind = "up"
      /\ Answered(s, IF Unchanged(b) THEN Continued(s, Pending(b)) ELSE Failed(s), holder)
      /\ UNCHANGED <<effects, recorded, breaks, troubled, reverted>>
  BY DEF ReadsUp
<1>2. /\ Phase(s) \in Locked /\ troubled \in BOOLEAN /\ \A id : ~ UnderwayAt(session[s], id)
      /\ b \in Stored
  BY <1>1, Before DEF Locked, UnderwayAt, Phase, IInv, TypeOK
<1>3. Pending(b) \in SUBSET Ids
  BY <1>2, BuildFacts DEF Pending
<1>4. CASE Unchanged(b)
  <2> DEFINE u == Continued(s, Pending(b))
  <2>1. /\ u \in SessionStates /\ u.attached = session[s].attached
        /\ u.kind = "up" /\ u.build = b /\ u.todo = Pending(b)
        /\ IF Pending(b) = {} THEN u.phase = "unlocking" ELSE u.phase \in {"beginning", "running"}
    BY <1>1, <1>3, ContinuedTyped
  <2> HIDE DEF u
  <2>2. (u.phase \in Stepping => u.todo # {}) /\ \A id : ~ UnderwayAt(u, id)
    BY <2>1 DEF Stepping, Migrating, UnderwayAt
  <2>3. Pending(b) = {} => Covered(b)
    BY <1>4 DEF Pending, Unchanged, Covered
  <2>4. HasToDo(u)
    BY <1>4, <2>1, <2>3 DEF HasToDo, Migrating
  <2>5. Answered(s, u, holder)
    BY <1>1, <1>4 DEF u
  <2>6. QED
    BY <1>1, <1>2, <2>1, <2>2, <2>4, <2>5, WithinLock
<1>5. CASE ~ Unchanged(b)
  <2>1. /\ Failed(s) \in SessionStates /\ Failed(s).phase = "unlocking" /\ Failed(s).failed
        /\ Failed(s).attached = session[s].attached
    BY FailedTyped
  <2>2. /\ Failed(s).phase \notin Stepping /\ HasToDo(Failed(s))
        /\ \A id : ~ UnderwayAt(Failed(s), id)
    BY <2>1 DEF Stepping, Migrating, HasToDo, UnderwayAt
  <2>3. QED
    BY <1>1, <1>2, <1>5, <2>1, <2>2, WithinLock
<1>6. QED
  BY <1>4, <1>5

LEMMA ReadingDown ==
    ASSUME IInv, NEW s \in Sessions, ReadsDown(s)
    PROVE  IInv'
<1> DEFINE b == session[s].build
           next == IF DOMAIN recorded = {} THEN Continued(s, {})
                   ELSE IF Latest \in DOMAIN b \cap Reversible THEN Continued(s, {Latest})
                   ELSE Failed(s)
<1>1. /\ Phase(s) = "reading" /\ session[s].kind = "down" /\ Answered(s, next, holder)
      /\ UNCHANGED <<effects, recorded, breaks, troubled, reverted>>
  BY DEF ReadsDown
<1>2. /\ Phase(s) \in Locked /\ troubled \in BOOLEAN /\ \A id : ~ UnderwayAt(session[s], id)
      /\ b \in Stored
  BY <1>1, Before DEF Locked, UnderwayAt, Phase, IInv, TypeOK
<1>3. \/ next = Failed(s)
      \/ \E todo \in SUBSET Ids :
            /\ next = Continued(s, todo)
            /\ todo = {} \/ (DOMAIN recorded # {} /\ todo = {Latest})
  BY <1>2, BuildFacts
<1> HIDE DEF next
<1>4. CASE next = Failed(s)
  <2>1. /\ next \in SessionStates /\ next.phase = "unlocking" /\ next.failed
        /\ next.attached = session[s].attached
    BY <1>4, FailedTyped
  <2>2. next.phase \notin Stepping /\ HasToDo(next) /\ \A id : ~ UnderwayAt(next, id)
    BY <2>1 DEF Stepping, Migrating, HasToDo, UnderwayAt
  <2>3. QED
    BY <1>1, <1>2, <2>1, <2>2, WithinLock
<1>5. ASSUME NEW todo \in SUBSET Ids, next = Continued(s, todo),
             todo = {} \/ (DOMAIN recorded # {} /\ todo = {Latest})
      PROVE  IInv'
  <2>1. /\ next \in SessionStates /\ next.attached = session[s].attached
        /\ next.kind = "down" /\ next.todo = todo
        /\ IF todo = {} THEN next.phase = "unlocking" ELSE next.phase \in {"beginning", "running"}
    BY <1>1, <1>5, ContinuedTyped
  <2>2. /\ next.phase \in Stepping => next.todo # {}
        /\ HasToDo(next) /\ \A id : ~ UnderwayAt(next, id)
    BY <1>5, <2>1 DEF Stepping, Migrating, HasToDo, UnderwayAt
  <2>3. QED
    BY <1>1, <1>2, <2>1, <2>2, WithinLock
<1>6. QED
  BY <1>3, <1>4, <1>5

LEMMA Beginning ==
    ASSUME IInv, NEW s \in Sessions, Begins(s)
    PROVE  IInv'
<1> DEFINE u == At(s, "running")
<1>1. /\ Phase(s) = "beginning" /\ Answered(s, u, holder)
      /\ UNCHANGED <<effects, recorded, breaks, troubled, reverted>>
  BY DEF Begins
<1>2. /\ u \in SessionStates /\ u.phase = "running" /\ u.attached = session[s].attached
      /\ u.kind = session[s].kind /\ u.build = session[s].build /\ u.todo = session[s].todo
  BY AtTyped
<1> HIDE DEF u
<1>3. /\ Phase(s) \in Locked /\ troubled \in BOOLEAN /\ u.todo # {}
      /\ \A id : ~ UnderwayAt(u, id) /\ ~ UnderwayAt(session[s], id)
  BY <1>1, <1>2, Before DEF Locked, Stepping, Migrating, UnderwayAt, Phase, IInv, TypeOK
<1>4. HasToDo(u)
  BY <1>1, <1>2, Before DEF HasToDo, GoodSession, Migrating, Phase
<1>5. QED
  BY <1>1, <1>2, <1>3, <1>4, WithinLock

LEMMA RollingBack ==
    ASSUME IInv, NEW s \in Sessions, RollsBack(s)
    PROVE  IInv'
<1>1. /\ Phase(s) = "rollingBack" /\ Answered(s, Failed(s), holder)
      /\ UNCHANGED <<effects, recorded, breaks, troubled, reverted>>
  BY DEF RollsBack
<1>2. /\ Failed(s) \in SessionStates /\ Failed(s).phase = "unlocking" /\ Failed(s).failed
      /\ Failed(s).attached = session[s].attached
  BY FailedTyped
<1>3. /\ Failed(s).phase \notin Stepping /\ HasToDo(Failed(s))
      /\ \A id : ~ UnderwayAt(Failed(s), id) /\ ~ UnderwayAt(session[s], id)
  BY <1>1, <1>2 DEF Stepping, Migrating, HasToDo, UnderwayAt, Phase
<1>4. Phase(s) \in Locked /\ troubled \in BOOLEAN
  BY <1>1 DEF Locked, IInv, TypeOK
<1>5. QED
  BY <1>1, <1>2, <1>3, <1>4, WithinLock

-----------------------------------------------------------------------------
(* The steps that change the schema or the record. *)

\* The migration under way is the first that is not recorded, or the last that is.
LEMMA CurrentIs ==
    ASSUME IInv, NEW s \in Sessions, Phase(s) \in Migrating
    PROVE  \E k \in Nat :
            /\ DOMAIN recorded = 1..k /\ Current(s) \in Ids /\ Current(s) \in session[s].todo
            /\ session[s].kind = "up" =>
                /\ Current(s) = k + 1 /\ Current(s) \in DOMAIN session[s].build
                /\ session[s].todo = Pending(session[s].build) /\ Unchanged(session[s].build)
            /\ session[s].kind = "down" =>
                Current(s) = k /\ k \in DOMAIN recorded /\ session[s].todo = {k}
<1>1. /\ session[s].todo # {} /\ session[s].build \in Stored /\ HasToDo(session[s])
      /\ session[s].todo \subseteq Ids /\ session[s].kind \in {"up", "down"}
  BY Before DEF Stepping, GoodSession, SessionStates
<1>2. PICK k \in Nat : DOMAIN recorded = 1..k
  BY IdsAreNumbers DEF IInv, InOrder, TypeOK
<1>3. CASE session[s].kind = "up"
  <2>1. session[s].todo = Pending(session[s].build) /\ Unchanged(session[s].build)
    BY <1>1, <1>3 DEF HasToDo, Phase
  <2>2. Current(s) = k + 1 /\ k + 1 \in session[s].todo
    BY <1>1, <1>2, <2>1, FirstIs DEF Current
  <2>3. QED
    BY <1>1, <1>2, <1>3, <2>1, <2>2 DEF Pending
<1>4. CASE session[s].kind = "down"
  <2>1. DOMAIN recorded # {} /\ session[s].todo = {Latest}
    BY <1>1, <1>4 DEF HasToDo, Phase
  <2>2. Latest = k /\ k \in DOMAIN recorded
    BY <1>2, <2>1, LatestIs
  <2>3. Current(s) = k
    BY <2>1, <2>2, FirstOfOne DEF Current
  <2>4. QED
    BY <1>1, <1>2, <1>4, <2>1, <2>2, <2>3
<1>5. QED
  BY <1>1, <1>3, <1>4

LEMMA UnderwayIs ==
    ASSUME NEW s \in Sessions, NEW id
    PROVE  /\ Phase(s) # "recording" \/ Transactional(s) => ~ UnderwayAt(session[s], id)
           /\ Phase(s) = "recording" /\ ~ Transactional(s) /\ session[s].kind \in {"up", "down"}
                => (UnderwayAt(session[s], id) <=> id = Current(s))
BY DEF UnderwayAt, Transactional, Current, Phase

\* Outside a transaction, what was run may stand although it is not recorded,
\* and then something was in trouble.
LEMMA RunInTrouble ==
    ASSUME IInv, NEW s \in Sessions, NEW u, Moves(s, u), troubled', HasToDo(u)',
           Phase(s) = "running", ~ Transactional(s), effects' = Run(Current(s), "up"),
           UNCHANGED <<recorded, reverted>>, \A id : ~ UnderwayAt(u, id)
    PROVE  IInv'
<1> DEFINE c == Current(s)
<1>1. c \in Ids /\ c \in NoTransaction /\ \A id : ~ UnderwayAt(session[s], id)
  BY CurrentIs, UnderwayIs DEF Migrating, Transactional
<1> HIDE DEF c
<1>2. /\ effects' = [effects EXCEPT ![c] = effects[c] + 1] /\ effects \in [Ids -> Int]
  BY DEF Run, IInv, TypeOK, c
<1>3. effects' \in [Ids -> Int] /\ \A id \in Ids : effects'[id] >= effects[id]
                               /\ (id # c => effects'[id] = effects[id])
  BY <1>1, <1>2
<1>4. ASSUME NEW id \in Ids
      PROVE  Stands(id)'
  <2>1. Due(id)' = Due(id)
    <3>1. Underway(id)' <=> Underway(id)
      BY <1>1, UnderwayMoves
    <3>2. QED
      BY <3>1 DEF Due
  <2>2. Stands(id) /\ effects[id] \in Int /\ Due(id) \in Int
    BY <1>2 DEF IInv, Due
  <2>3. QED
    BY <1>1, <1>3, <2>1, <2>2 DEF Stands
<1>5. QED
  BY <1>3, <1>4, Stepped DEF IInv, TypeOK, InOrder, Keeps

LEMMA Running ==
    ASSUME IInv, NEW s \in Sessions, Runs(s)
    PROVE  IInv'
<1>0. PICK u : u = At(s, "recording")
  OBVIOUS
<1>1. /\ Phase(s) = "running" /\ Answered(s, u, holder)
      /\ effects' = IF Transactional(s) THEN effects ELSE Run(Current(s), "up")
      /\ UNCHANGED <<recorded, breaks, troubled, reverted>>
  BY <1>0 DEF Runs
<1>2. /\ u \in SessionStates /\ u.phase = "recording" /\ u.attached = session[s].attached
      /\ u.kind = session[s].kind /\ u.build = session[s].build /\ u.todo = session[s].todo
  BY <1>0, AtTyped
<1>3. /\ Phase(s) \in Locked /\ holder = s /\ holder \in Sessions \cup {None}
      /\ troubled \in BOOLEAN /\ u.todo # {}
      /\ \A id : ~ UnderwayAt(session[s], id)
  BY <1>1, <1>2, Before, UnderwayIs DEF Locked, Stepping, Migrating, IInv, TypeOK
<1>4. HasToDo(u) /\ HasToDo(u)'
  <2>1. HasToDo(u)
    BY <1>1, <1>2, Before DEF HasToDo, GoodSession, Migrating, Phase
  <2>2. QED
    BY <1>1, <2>1 DEF HasToDo, Unchanged, Pending, Latest, Covered
<1>5. CASE Transactional(s)
  <2>1. \A id : ~ UnderwayAt(u, id)
    BY <1>2, <1>5 DEF UnderwayAt, Transactional, Current
  <2>2. effects' = effects
    BY <1>1, <1>5
  <2>3. QED
    BY <1>1, <1>2, <1>3, <1>4, <2>1, <2>2, WithinLock
<1>6. CASE ~ Transactional(s)
  <2>1. (session[s].attached /\ Moves(s, u)) \/ (~ session[s].attached /\ Moves(s, Gone))
    BY <1>1, <1>2, <1>3, Answers
  <2>2. CASE ~ session[s].attached /\ Moves(s, Gone)
    <3>1. troubled'
      BY <1>1, <2>2, Before DEF GoodSession, Absent
    <3>2. effects' = Run(Current(s), "up")
      BY <1>1, <1>6
    <3>3. QED
      BY <1>1, <1>6, <2>2, <3>1, <3>2, GoneTyped, RunInTrouble
  <2>3. CASE Moves(s, u)
    <3> DEFINE c == Current(s)
    <3>1. c \in Ids /\ c \in NoTransaction /\ \A id : UnderwayAt(u, id) <=> id = c
      BY <1>1, <1>2, <1>6, CurrentIs DEF Migrating, Transactional, UnderwayAt, Current, Phase,
         SessionStates
    <3>2. effects' = Run(c, "up")
      BY <1>1, <1>6
    <3> HIDE DEF c
    <3>3. effects' = [effects EXCEPT ![c] = effects[c] + 1] /\ effects \in [Ids -> Int]
      BY <3>2 DEF Run, IInv, TypeOK
    <3>4. /\ effects' \in [Ids -> Int]
          /\ \A id \in Ids : effects'[id] = IF id = c THEN effects[id] + 1 ELSE effects[id]
      BY <3>1, <3>3
    <3>5. ASSUME NEW id \in Ids
          PROVE  Stands(id)'
      <4>1. ~ Underway(id) /\ (Underway(id)' <=> id = c)
        BY <1>3, <2>3, <3>1, UnderwayMoves
      <4>2. Due(id)' = IF id = c THEN Due(id) + 1 ELSE Due(id)
        BY <1>1, <4>1 DEF Due
      <4>3. Stands(id) /\ effects[id] \in Int /\ Due(id) \in Int
        BY <3>3 DEF IInv, Due
      <4>4. QED
        BY <1>1, <3>4, <4>2, <4>3 DEF Stands
    <3>6. QED
      BY <1>1, <1>4, <2>3, <3>4, <3>5, Stepped DEF IInv, TypeOK, InOrder, Keeps
  <2>4. QED
    BY <2>1, <2>2, <2>3
<1>7. QED
  BY <1>5, <1>6

LEMMA RunFailing ==
    ASSUME IInv, NEW s \in Sessions, RunFails(s)
    PROVE  IInv'
<1>0. PICK u : u = IF Transactional(s) THEN At(s, "rollingBack") ELSE Failed(s)
  OBVIOUS
<1>1. /\ Phase(s) = "running" /\ Answered(s, u, holder) /\ troubled' = TRUE
      /\ effects' = effects \/ (~ Transactional(s) /\ effects' = Run(Current(s), "up"))
      /\ UNCHANGED <<recorded, breaks, reverted>>
  BY <1>0 DEF RunFails
<1>2. /\ u \in SessionStates /\ u.attached = session[s].attached
      /\ u.phase \in {"rollingBack", "unlocking"} /\ (u.phase = "unlocking" => u.failed)
      /\ u.phase = "rollingBack" => u.todo = session[s].todo
  BY <1>0, AtTyped, FailedTyped
<1>3. /\ Phase(s) \in Locked /\ holder = s /\ holder \in Sessions \cup {None}
      /\ u.phase \in Stepping => u.todo # {}
      /\ \A id : ~ UnderwayAt(u, id) /\ ~ UnderwayAt(session[s], id)
  BY <1>1, <1>2, Before DEF Locked, Stepping, Migrating, UnderwayAt, Phase, IInv, TypeOK
<1>4. HasToDo(u) /\ HasToDo(u)'
  BY <1>2 DEF HasToDo, Migrating
<1>5. CASE effects' = effects
  BY <1>1, <1>2, <1>3, <1>4, <1>5, WithinLock
<1>6. CASE ~ Transactional(s) /\ effects' = Run(Current(s), "up")
  <2>1. (session[s].attached /\ Moves(s, u)) \/ (~ session[s].attached /\ Moves(s, Gone))
    BY <1>1, <1>2, <1>3, Answers
  <2>2. QED
    BY <1>1, <1>3, <1>4, <1>6, <2>1, GoneTyped, RunInTrouble
<1>7. QED
  BY <1>1, <1>5, <1>6

\* A migration is recorded: one more is, and what was recorded stays.
LEMMA RecordingUp ==
    ASSUME IInv, NEW s \in Sessions, Phase(s) \in Migrating, session[s].kind = "up",
           recorded' = Recorded(s), reverted' = reverted
    PROVE  /\ Current(s) \in Ids /\ Current(s) \notin DOMAIN recorded
           /\ DOMAIN recorded' = DOMAIN recorded \cup {Current(s)}
           /\ DOMAIN recorded' \subseteq Ids /\ \A id \in DOMAIN recorded' : recorded'[id] \in Contents
           /\ InOrder' /\ Keeps(s)
           /\ \A u : /\ u.kind = "up" /\ u.build = session[s].build /\ u.todo = Rest(s)
                     /\ u.phase \in Migrating \/ (u.phase = "unlocking" /\ Rest(s) = {})
                     => HasToDo(u)'
<1> DEFINE c == Current(s)
           b == session[s].build
<1>1. PICK k \in Nat :
        /\ DOMAIN recorded = 1..k /\ c \in Ids /\ c = k + 1 /\ c \in DOMAIN b
        /\ session[s].todo = Pending(b) /\ Unchanged(b)
  BY CurrentIs
<1>2. b \in Stored /\ holder = s
  BY Before DEF Migrating, Locked
<1>3. /\ DOMAIN recorded' = DOMAIN recorded \cup {c} /\ recorded'[c] = b[c]
      /\ \A id \in DOMAIN recorded \ {c} : recorded'[id] = recorded[id]
  BY DEF Recorded
<1>4. Rest(s) = Pending(b) \ {c}
  BY <1>1 DEF Rest
<1>5. PICK d : d = c /\ d = Current(s)
  OBVIOUS
<1>6. PICK e : e = b
  OBVIOUS
<1>7. /\ DOMAIN recorded = 1..k /\ d \in Ids /\ d = k + 1 /\ d \in DOMAIN e /\ Unchanged(e)
      /\ e \in Stored /\ Rest(s) = Pending(e) \ {d}
      /\ DOMAIN recorded' = DOMAIN recorded \cup {d} /\ recorded'[d] = e[d]
      /\ \A id \in DOMAIN recorded \ {d} : recorded'[id] = recorded[id]
  BY <1>1, <1>2, <1>3, <1>4, <1>5, <1>6
<1> HIDE DEF b, c
<1>8. DOMAIN recorded' \subseteq Ids /\ \A id \in DOMAIN recorded' : recorded'[id] \in Contents
  BY <1>7, BuildFacts DEF IInv, TypeOK
<1>9. InOrder'
  <2>1. DOMAIN recorded' = 1..(k + 1) /\ k + 1 \in DOMAIN recorded'
    BY <1>7
  <2>2. QED
    BY <2>1 DEF InOrder
<1>10. d \notin DOMAIN recorded
  BY <1>7
<1>11. \A g \in Stored : Covered(g) => Covered(g)'
  BY <1>7, <1>10 DEF Covered
<1>12. Unchanged(e)' /\ Pending(e)' = Pending(e) \ {d}
  BY <1>7 DEF Unchanged, Pending
<1>13. ASSUME NEW u, u.kind = "up", u.build = e, u.todo = Pending(e) \ {d},
              u.phase \in Migrating \/ (u.phase = "unlocking" /\ Pending(e) \ {d} = {})
       PROVE  HasToDo(u)'
  <2>1. Pending(e)' = {} => Covered(e)'
    BY <1>12 DEF Covered, Pending, Unchanged
  <2>2. QED
    BY <1>12, <1>13, <2>1 DEF HasToDo, Migrating
<1>14. QED
  BY <1>2, <1>5, <1>6, <1>7, <1>8, <1>9, <1>10, <1>11, <1>13 DEF Keeps, b

\* One that runs in a transaction is due when it is recorded, as one that ran
\* without was due before.
LEMMA Recording ==
    ASSUME IInv, NEW s \in Sessions, Records(s)
    PROVE  IInv'
<1>1. CASE Transactional(s)
  <2> DEFINE u == At(s, "committing")
  <2>1. /\ Phase(s) = "recording" /\ Answered(s, u, holder)
        /\ UNCHANGED <<effects, recorded, breaks, troubled, reverted>>
    BY <1>1 DEF Records
  <2>2. /\ u \in SessionStates /\ u.phase = "committing" /\ u.attached = session[s].attached
        /\ u.kind = session[s].kind /\ u.build = session[s].build /\ u.todo = session[s].todo
    BY AtTyped
  <2> HIDE DEF u
  <2>3. /\ Phase(s) \in Locked /\ troubled \in BOOLEAN /\ u.todo # {}
        /\ \A id : ~ UnderwayAt(u, id) /\ ~ UnderwayAt(session[s], id)
    <3>1. \A id : ~ UnderwayAt(session[s], id)
      BY <1>1, UnderwayIs
    <3>2. QED
      BY <2>1, <2>2, <3>1, Before
      DEF Locked, Stepping, Migrating, UnderwayAt, IInv, TypeOK
  <2>4. HasToDo(u)
    BY <2>1, <2>2, Before DEF HasToDo, GoodSession, Migrating, Phase
  <2>5. QED
    BY <2>1, <2>2, <2>3, <2>4, WithinLock
<1>2. CASE ~ Transactional(s)
  <2>0. PICK u : u = Continued(s, Rest(s))
    OBVIOUS
  <2>1. /\ Phase(s) = "recording" /\ Answered(s, u, holder) /\ recorded' = Recorded(s)
        /\ UNCHANGED <<effects, breaks, troubled, reverted>>
    BY <1>2, <2>0 DEF Records
  <2>2. /\ Phase(s) \in Locked /\ Phase(s) \in Migrating /\ session[s].kind = "up"
        /\ Rest(s) \in SUBSET Ids /\ holder = s /\ troubled \in BOOLEAN
    BY <1>2, <2>1, Before
    DEF Locked, Migrating, Transactional, SessionStates, Rest, IInv, TypeOK
  <2>3. /\ u \in SessionStates /\ u.attached = session[s].attached
        /\ u.kind = "up" /\ u.build = session[s].build /\ u.todo = Rest(s)
        /\ IF Rest(s) = {} THEN u.phase = "unlocking" ELSE u.phase \in {"beginning", "running"}
    BY <2>0, <2>2, ContinuedTyped
  <2>4. (u.phase \in Stepping => u.todo # {}) /\ \A id : ~ UnderwayAt(u, id)
    BY <2>3 DEF Stepping, Migrating, UnderwayAt
  <2>5. PICK v : Moves(s, v) /\ (v = u \/ v = Gone)
    BY <2>1, <2>2, <2>3, <2>4, Answers
  <2>6. PICK c : c = Current(s)
    OBVIOUS
  <2>7. /\ c \in Ids /\ c \notin DOMAIN recorded /\ DOMAIN recorded' = DOMAIN recorded \cup {c}
        /\ DOMAIN recorded' \subseteq Ids /\ \A id \in DOMAIN recorded' : recorded'[id] \in Contents
        /\ InOrder' /\ Keeps(s)
    BY <2>1, <2>2, <2>6, RecordingUp
  <2>8. HasToDo(v)'
    <3>1. HasToDo(u)'
      BY <2>1, <2>2, <2>3, RecordingUp DEF Migrating
    <3>2. QED
      BY <2>5, <3>1, GoneTyped
  <2>9. ASSUME NEW id \in Ids
        PROVE  Stands(id)'
    <3>1. (Underway(id) <=> id = c) /\ ~ Underway(id)'
      BY <1>2, <2>1, <2>2, <2>4, <2>5, <2>6, GoneTyped, UnderwayIs, UnderwayMoves
    <3>2. Due(id)' = Due(id)
      BY <2>7, <3>1 DEF Due
    <3>3. QED
      BY <2>1, <3>2 DEF IInv, Stands
  <2>10. QED
    BY <2>1, <2>5, <2>7, <2>8, <2>9, Stepped DEF IInv, TypeOK
<1>3. QED
  BY <1>1, <1>2

LEMMA Committing ==
    ASSUME IInv, NEW s \in Sessions, Commits(s)
    PROVE  IInv'
<1>0. PICK u, c : u = Continued(s, Rest(s)) /\ c = Current(s)
  OBVIOUS
<1>1. /\ Phase(s) = "committing" /\ Answered(s, u, holder) /\ recorded' = Recorded(s)
      /\ effects' = Run(c, session[s].kind)
      /\ reverted' = IF session[s].kind = "down" THEN reverted \cup {c} ELSE reverted
      /\ UNCHANGED <<breaks, troubled>>
  BY <1>0 DEF Commits
<1>2. /\ Phase(s) \in Locked /\ Phase(s) \in Migrating /\ session[s].kind \in {"up", "down"}
      /\ Rest(s) \in SUBSET Ids /\ holder = s /\ troubled \in BOOLEAN
      /\ \A id : ~ UnderwayAt(session[s], id)
  BY <1>1, Before, UnderwayIs DEF Locked, Migrating, SessionStates, Rest, IInv, TypeOK
<1>3. /\ u \in SessionStates /\ u.attached = session[s].attached
      /\ u.kind = session[s].kind /\ u.build = session[s].build /\ u.todo = Rest(s)
      /\ IF Rest(s) = {} THEN u.phase = "unlocking" ELSE u.phase \in {"beginning", "running"}
  BY <1>0, <1>2, ContinuedTyped
<1>4. (u.phase \in Stepping => u.todo # {}) /\ \A id : ~ UnderwayAt(u, id)
  BY <1>3 DEF Stepping, Migrating, UnderwayAt
<1>5. PICK v : Moves(s, v) /\ (v = u \/ v = Gone)
  BY <1>1, <1>2, <1>3, <1>4, Answers
<1>6. PICK k \in Nat :
        /\ DOMAIN recorded = 1..k /\ c \in Ids
        /\ session[s].kind = "down" =>
            c = k /\ k \in DOMAIN recorded /\ session[s].todo = {k}
  BY <1>0, <1>2, CurrentIs
<1>7. \A id : Underway(id)' <=> Underway(id)
  BY <1>2, <1>4, <1>5, GoneTyped, UnderwayMoves
<1>8. effects \in [Ids -> Int]
  BY DEF IInv, TypeOK
<1>9. CASE session[s].kind = "up"
  <2>1. /\ c \notin DOMAIN recorded /\ DOMAIN recorded' = DOMAIN recorded \cup {c}
        /\ DOMAIN recorded' \subseteq Ids /\ \A id \in DOMAIN recorded' : recorded'[id] \in Contents
        /\ InOrder' /\ Keeps(s) /\ reverted' = reverted
    BY <1>0, <1>1, <1>2, <1>9, RecordingUp
  <2>2. HasToDo(v)'
    <3>1. HasToDo(u)'
      BY <1>1, <1>2, <1>3, <1>9, RecordingUp DEF Migrating
    <3>2. QED
      BY <1>5, <3>1, GoneTyped
  <2>3. effects' = [effects EXCEPT ![c] = effects[c] + 1]
    BY <1>1, <1>9 DEF Run
  <2>4. /\ effects' \in [Ids -> Int]
        /\ \A id \in Ids : effects'[id] = IF id = c THEN effects[id] + 1 ELSE effects[id]
    BY <1>6, <1>8, <2>3
  <2>5. ASSUME NEW id \in Ids
        PROVE  Stands(id)'
    <3>1. Due(id)' = IF id = c THEN Due(id) + 1 ELSE Due(id)
      BY <1>7, <2>1 DEF Due
    <3>2. Stands(id) /\ effects[id] \in Int /\ Due(id) \in Int
      BY <1>8 DEF IInv, Due
    <3>3. QED
      BY <1>1, <2>4, <3>1, <3>2 DEF Stands
  <2>6. QED
    BY <1>5, <2>1, <2>2, <2>4, <2>5, Stepped DEF IInv, TypeOK
<1>10. CASE session[s].kind = "down"
  <2>1. /\ c = k /\ k \in DOMAIN recorded /\ Rest(s) = {} /\ reverted' = reverted \cup {c}
        /\ recorded' = [id \in DOMAIN recorded \ {c} |-> recorded[id]]
    BY <1>0, <1>1, <1>6, <1>10 DEF Recorded, Rest
  <2>2. /\ DOMAIN recorded' = DOMAIN recorded \ {c}
        /\ \A id \in DOMAIN recorded' : recorded'[id] = recorded[id]
    BY <2>1
  <2>3. /\ DOMAIN recorded' \subseteq Ids /\ \A id \in DOMAIN recorded' : recorded'[id] \in Contents
        /\ reverted' \subseteq Ids
    BY <1>6, <2>1, <2>2 DEF IInv, TypeOK
  <2>4. InOrder'
    <3>1. DOMAIN recorded' = 1..(k - 1) /\ k - 1 \in {0} \cup DOMAIN recorded'
      BY <1>6, <2>1, <2>2
    <3>2. QED
      BY <3>1 DEF InOrder
  <2>5. Keeps(s)
    BY <1>2, <2>1, <2>2 DEF Keeps, Covered
  <2>6. HasToDo(v)'
    BY <1>3, <1>5, <1>10, <2>1, GoneTyped DEF HasToDo, Migrating
  <2>7. effects' = [effects EXCEPT ![c] = effects[c] - 1]
    BY <1>1, <1>10 DEF Run
  <2>8. /\ effects' \in [Ids -> Int]
        /\ \A id \in Ids : effects'[id] = IF id = c THEN effects[id] - 1 ELSE effects[id]
    BY <1>6, <1>8, <2>7
  <2>9. ASSUME NEW id \in Ids
        PROVE  Stands(id)'
    <3>1. Due(id)' = IF id = c THEN Due(id) - 1 ELSE Due(id)
      BY <1>7, <2>1, <2>2 DEF Due
    <3>2. Stands(id) /\ effects[id] \in Int /\ Due(id) \in Int
      BY <1>8 DEF IInv, Due
    <3>3. QED
      BY <1>1, <2>8, <3>1, <3>2 DEF Stands
  <2>10. QED
    BY <1>5, <2>3, <2>4, <2>5, <2>6, <2>8, <2>9, Stepped
<1>11. QED
  BY <1>2, <1>9, <1>10

-----------------------------------------------------------------------------
LEMMA Initially == Init => IInv
<1> SUFFICES ASSUME Init
             PROVE  IInv
  OBVIOUS
<1>1. \A s \in Sessions : session[s] = Unused
  BY DEF Init
<1>2. DOMAIN recorded = {} /\ DOMAIN recorded = 1..0
  BY DEF Init
<1>3. TypeOK
  <2>1. \A s \in Sessions : Phase(s) = "unused"
    BY <1>1, GoneTyped DEF Phase
  <2>2. session \in [Sessions -> SessionStates] /\ effects \in [Ids -> Int]
    BY GoneTyped DEF Init
  <2>3. QED
    BY <1>2, <2>1, <2>2 DEF Init, TypeOK
<1>4. \A s \in Sessions : GoodSession(s)
  BY <1>1 DEF Unused, GoodSession, Phase, HasToDo, Locked, Migrating, Absent
<1>5. ASSUME NEW id \in Ids
      PROVE  Stands(id)
  <2>1. ~ Underway(id)
    BY <1>1, GoneTyped DEF Underway, UnderwayAt
  <2>2. QED
    BY <1>2, <2>1 DEF Stands, Due, Init
<1>6. QED
  BY <1>2, <1>3, <1>4, <1>5 DEF IInv, InOrder

LEMMA Steps ==
    ASSUME IInv, [Next]_vars
    PROVE  IInv'
<1>1. CASE \E i \in Instances : \E n \in 1..Boots[i], b \in Deploys[i] : Starts(i, n, b)
  BY <1>1, Starting
<1>2. CASE \E s \in Sessions : Proceeds(s) \/ Locks(s) \/ Breaks(s)
  BY <1>2, Setting, ReadingUp, ReadingDown, Beginning, Running, RunFailing, Recording, Committing,
     RollingBack, Unlocking, UnlockFailing, Leaving, Locking, Breaking
  DEF Proceeds
<1>3. CASE UNCHANGED vars
  <2>1. /\ UNCHANGED <<session, holder, effects, recorded, breaks, troubled, reverted>>
    BY <1>3 DEF vars
  <2>2. TypeOK' /\ InOrder'
    BY <2>1 DEF IInv, TypeOK, InOrder, Phase
  <2>3. \A s \in Sessions : GoodSession(s)'
    BY <2>1 DEF IInv, GoodSession, Phase, HasToDo, Unchanged, Pending, Latest, Covered
  <2>4. \A id \in Ids : Stands(id)'
    BY <2>1 DEF IInv, Stands, Due, Underway, UnderwayAt
  <2>5. QED
    BY <2>2, <2>3, <2>4 DEF IInv
<1>4. QED
  BY <1>1, <1>2, <1>3 DEF Next

\* The inductive invariant of the migrations: who has the lock alone knows what is
\* recorded, what it has still to do is what is not, and the schema is what the
\* record says but for the one migration that has run and is not recorded yet.
THEOREM Inductive == Spec => []IInv
BY Initially, Steps, PTL DEF Spec

\* What is recorded is what is applied, whatever crashed in between
\* (migrator.ts:30-41, 130-156).
THEOREM Matches == Spec => []SchemaMatchesRecord
<1>1. ASSUME IInv
      PROVE  SchemaMatchesRecord
  <2> SUFFICES ASSUME NEW id \in Ids
               PROVE  LET Times == IF id \in DOMAIN recorded THEN 1 ELSE 0
                          Busy == \E s \in Sessions : Phase(s) = "recording" /\ Current(s) = id
                      IN  IF id \in NoTransaction /\ (troubled \/ Busy) THEN effects[id] >= Times
                          ELSE effects[id] = Times
    BY <1>1 DEF IInv, SchemaMatchesRecord
  <2>1. Stands(id) /\ effects[id] \in Int
    BY <1>1 DEF IInv, TypeOK
  <2>2. Underway(id) => /\ id \in NoTransaction
                        /\ \E s \in Sessions : Phase(s) = "recording" /\ Current(s) = id
    BY DEF Underway, UnderwayAt, Phase, Current
  <2>3. QED
    BY <1>1, <2>1, <2>2 DEF Stands, Due
<1>2. QED
  BY <1>1, Inductive, PTL

\* Migrations are recorded in the order of their ids and each of them once, and
\* taken back in the opposite order (migration.loader.ts:87-91, migrator.ts:10-16).
THEOREM Ordered == Spec => []AppliedInOrder
<1>1. ASSUME IInv
      PROVE  AppliedInOrder
  <2>1. DOMAIN recorded = {id \in Ids : \E other \in DOMAIN recorded : id <= other}
    <3>1. PICK k \in Nat : DOMAIN recorded = 1..k
      BY <1>1, IdsAreNumbers DEF IInv, InOrder, TypeOK
    <3>2. DOMAIN recorded \subseteq Ids
      BY <1>1 DEF IInv, TypeOK
    <3>3. \A id \in Ids : id \in DOMAIN recorded <=> \E other \in DOMAIN recorded : id <= other
      BY <3>1, IdsAreNumbers
    <3>4. QED
      BY <3>2, <3>3
  <2>2. ASSUME NEW s \in Sessions, Phase(s) \in {"recording", "committing"}
        PROVE  Current(s) \in DOMAIN recorded <=> session[s].kind = "down"
    <3>1. session[s].kind \in {"up", "down"} /\ Phase(s) \in Migrating
      BY <1>1, <2>2, Before DEF SessionStates, Migrating
    <3>2. QED
      BY <1>1, <3>1, CurrentIs
  <2>3. QED
    BY <2>1, <2>2 DEF AppliedInOrder
<1>2. QED
  BY <1>1, Inductive, PTL

\* Who serves does so over every migration of its own build, with the content it
\* has there, apart from what was reverted by hand (migrator.ts:183-189,
\* bootstrap.ts:52-53).
THEOREM Serves == Spec => []ServesItsSchema
<1>1. ASSUME IInv
      PROVE  ServesItsSchema
  BY <1>1, Before DEF ServesItsSchema, Serving, Succeeded, GoodSession, HasToDo, Covered, Phase
<1>2. QED
  BY <1>1, Inductive, PTL
=============================================================================
