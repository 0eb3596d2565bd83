------------------------ MODULE OutboundLimiterProofs ------------------------
(***************************************************************************)
(* What OutboundLimiter promises for any number of guilds and actions, and *)
(* for any budgets, windows, limits and circuits.                          *)
(*                                                                         *)
(* The invariant ties what the limiter keeps to what became of the         *)
(* actions it was asked for.  Of each guild: its lane counts its calls,    *)
(* its queues hold its waiters, by priority and then by age, and it is     *)
(* listed for the drains just when it has a lane.  Of each window: every   *)
(* call that started inside it has a place of its own there.  Of each      *)
(* circuit: a probe is out with somebody who will report or give it back.  *)
(* What a drain does to all three is carried from lane to lane.            *)
(***************************************************************************)
EXTENDS OutboundLimiter, FiniteSetTheorems, SequenceTheorems, NaturalsInduction, TLAPS

-----------------------------------------------------------------------------
(* Sequences. *)

\* The least of some numbers, by which recursive functions are reasoned about.
LEMMA LeastOf ==
    ASSUME NEW T \in SUBSET Nat, T # {}
    PROVE  \E m \in T : \A k \in T : m <= k
<1> DEFINE R == {ss \in Nat \X Nat : ss[1] < ss[2]}
<1>1. IsWellFoundedOn(R, Nat)
  BY NatLessThanWellFounded, Zenon DEF OpToRel
<1> HIDE DEF R
<1>2. PICK m \in T : \A y \in T : ~ (<<y, m>> \in R)
  BY <1>1, WFMin, Zenon
<1>3. \A y \in Nat, z \in Nat : <<y, z>> \in R <=> y < z
  BY DEF R
<1>4. ASSUME NEW k \in T PROVE m <= k
  <2>1. k \in Nat /\ m \in Nat
    OBVIOUS
  <2>2. ~ (<<k, m>> \in R)
    BY <1>2, Zenon
  <2>3. ~ (k < m)
    BY <1>3, <2>1, <2>2, Zenon
  <2>4. QED
    BY <2>1, <2>3
<1>5. QED
  BY <1>4

\* Kept(s, T) by its recursion.
LEMMA KeptRecursion ==
    ASSUME NEW s, Len(s) \in Nat, NEW T
    PROVE  \E f : /\ f[0] = <<>>
                  /\ \A i \in 1..Len(s) :
                        f[i] = IF s[i] \in T THEN Append(f[i - 1], s[i]) ELSE f[i - 1]
                  /\ Kept(s, T) = f[Len(s)]
<1> DEFINE Step(f, i) == IF i = 0 THEN <<>>
                          ELSE IF s[i] \in T THEN Append(f[i - 1], s[i]) ELSE f[i - 1]
           Keeps(f, n) == f = [i \in 0..n |-> Step(f, i)]
           Bad == {n \in Nat : ~ \E f : Keeps(f, n)}
<1>1. Bad = {}
  <2>1. SUFFICES ASSUME Bad # {} PROVE FALSE
    OBVIOUS
  <2>2. PICK m \in Bad : \A k \in Bad : m <= k
    BY <2>1, LeastOf
  <2>3. m # 0
    <3>1. Keeps([i \in 0..0 |-> <<>>], 0)
      OBVIOUS
    <3>2. QED
      BY <3>1
  <2>4. m - 1 \in Nat /\ m - 1 \notin Bad
    <3>1. m \in Nat
      OBVIOUS
    <3>2. m - 1 \in Nat
      BY <2>3, <3>1
    <3> HIDE DEF Bad
    <3>3. QED
      BY <2>2, <3>1, <3>2
  <2>5. PICK f : Keeps(f, m - 1)
    BY <2>4
  <2> DEFINE last == IF s[m] \in T THEN Append(f[m - 1], s[m]) ELSE f[m - 1]
             g == [i \in 0..m |-> IF i = m THEN last ELSE f[i]]
  <2>6. \A i \in 0..m :
            g[i] = IF i = 0 THEN <<>>
                   ELSE IF s[i] \in T THEN Append(g[i - 1], s[i]) ELSE g[i - 1]
    <3>1. \A i \in 0..(m - 1) : g[i] = f[i]
      BY <2>4
    <3>2. g[m] = last
      BY <2>4
    <3>3. TAKE i \in 0..m
    <3>4. CASE i = m
      BY <2>3, <2>4, <3>1, <3>2, <3>4
    <3>5. CASE i # m
      <4>1. i \in 0..(m - 1) /\ (i # 0 => i - 1 \in 0..(m - 1))
        BY <2>4, <3>5
      <4> HIDE DEF g
      <4>2. QED
        BY <2>5, <3>1, <4>1
    <3>6. QED
      BY <3>4, <3>5
  <2>7. Keeps(g, m)
    <3>1. g = [i \in 0..m |-> g[i]]
      OBVIOUS
    <3> HIDE DEF g
    <3>2. QED
      BY <2>6, <3>1
  <2>8. QED
    BY <2>7
<1>2. \E f : Keeps(f, Len(s))
  BY <1>1
<1> DEFINE kept == CHOOSE f : Keeps(f, Len(s))
<1>3. Keeps(kept, Len(s))
  BY <1>2
<1>4. Kept(s, T) = kept[Len(s)]
  BY DEF Kept
<1> HIDE DEF kept
<1>5. \A i \in 0..Len(s) : kept[i] = Step(kept, i)
  <2> HIDE DEF Step
  <2>1. QED
    BY <1>3
<1>6. kept[0] = <<>>
  BY <1>5
<1>7. ASSUME NEW i \in 1..Len(s)
      PROVE  kept[i] = IF s[i] \in T THEN Append(kept[i - 1], s[i]) ELSE kept[i - 1]
  <2>1. i \in 0..Len(s) /\ i # 0
    OBVIOUS
  <2>2. QED
    BY <1>5, <2>1
<1>8. QED
  BY <1>4, <1>6, <1>7

\* The elements of a sequence.
Elements(s) == {s[i] : i \in 1..Len(s)}

\* The elements of a sequence are its range.
LEMMA ElementsAreRange ==
    ASSUME NEW A, NEW s \in Seq(A) PROVE ToSet(s) = Elements(s) /\ Elements(s) \subseteq A
BY DEF ToSet, Elements

\* Any two of a sequence, in its order, are in R.
Ordered(s, R) == \A i, j \in 1..Len(s) : i < j => <<s[i], s[j]>> \in R

\* What every element goes before is appended in order.
LEMMA AppendOrdered ==
    ASSUME NEW A, NEW s \in Seq(A), NEW a \in A, NEW R, Ordered(s, R),
           \A b \in Elements(s) : <<b, a>> \in R
    PROVE  /\ Append(s, a) \in Seq(A) /\ Len(Append(s, a)) = Len(s) + 1
           /\ Elements(Append(s, a)) = Elements(s) \cup {a}
           /\ Ordered(Append(s, a), R)
<1> DEFINE t == Append(s, a)
<1>1. /\ t \in Seq(A) /\ Len(s) \in Nat /\ Len(t) = Len(s) + 1 /\ t[Len(s) + 1] = a
      /\ \A i \in 1..Len(s) : t[i] = s[i]
  BY AppendProperties
<1> HIDE DEF t
<1>2. Elements(t) = Elements(s) \cup {a}
  <2>1. ASSUME NEW x \in Elements(t) PROVE x \in Elements(s) \cup {a}
    BY <1>1 DEF Elements
  <2>2. ASSUME NEW i \in 1..Len(s) PROVE s[i] \in Elements(t)
    BY <1>1 DEF Elements
  <2>3. a \in Elements(t)
    BY <1>1 DEF Elements
  <2>4. QED
    BY <2>1, <2>2, <2>3 DEF Elements
<1>3. ASSUME NEW i \in 1..Len(t), NEW j \in 1..Len(t), i < j PROVE <<t[i], t[j]>> \in R
  <2>1. i \in 1..Len(s) /\ t[i] = s[i] /\ s[i] \in Elements(s)
    BY <1>1, <1>3 DEF Elements
  <2>2. CASE j = Len(s) + 1
    BY <1>1, <2>1, <2>2
  <2>3. CASE j # Len(s) + 1
    <3>1. j \in 1..Len(s) /\ t[j] = s[j]
      BY <1>1, <2>3
    <3>2. QED
      BY <1>3, <2>1, <3>1 DEF Ordered
  <2>4. QED
    BY <2>2, <2>3
<1>4. QED
  BY <1>1, <1>2, <1>3 DEF t, Ordered

\* What a selection keeps, and that it keeps it in order.
LEMMA KeptOrdered ==
    ASSUME NEW A, NEW s \in Seq(A), NEW T, NEW R, Ordered(s, R)
    PROVE  /\ Kept(s, T) \in Seq(A) /\ Len(Kept(s, T)) <= Len(s)
           /\ Elements(Kept(s, T)) = Elements(s) \cap T
           /\ Ordered(Kept(s, T), R)
<1>1. Len(s) \in Nat
  BY LenProperties
<1>2. PICK f : /\ f[0] = <<>>
               /\ \A i \in 1..Len(s) :
                    f[i] = IF s[i] \in T THEN Append(f[i - 1], s[i]) ELSE f[i - 1]
               /\ Kept(s, T) = f[Len(s)]
  BY <1>1, KeptRecursion
<1> DEFINE First(n) == {s[i] : i \in 1..n}
           Fits(n) == /\ f[n] \in Seq(A) /\ Len(f[n]) <= n
                      /\ Elements(f[n]) = First(n) \cap T
                      /\ Ordered(f[n], R)
           Bad == {n \in Nat : n <= Len(s) /\ ~ Fits(n)}
<1>3. Bad = {}
  <2>1. SUFFICES ASSUME Bad # {} PROVE FALSE
    OBVIOUS
  <2>2. PICK m \in Bad : \A k \in Bad : m <= k
    BY <2>1, LeastOf
  <2>3. m \in Nat /\ m <= Len(s) /\ ~ Fits(m)
    BY <2>2
  <2>4. m # 0
    <3>1. <<>> \in Seq(A) /\ Len(<<>>) = 0
      BY EmptySeq
    <3>2. Elements(<<>>) = {} /\ First(0) = {} /\ Ordered(<<>>, R)
      BY <3>1 DEF Elements, Ordered
    <3>3. Fits(0)
      BY <1>2, <3>1, <3>2
    <3>4. QED
      BY <2>3, <3>3
  <2>5. m - 1 \in Nat /\ m - 1 <= Len(s) /\ Fits(m - 1)
    <3>1. m - 1 \in Nat /\ m - 1 <= Len(s) /\ ~ m <= m - 1
      BY <1>1, <2>3, <2>4
    <3> HIDE DEF Fits
    <3>2. QED
      BY <2>2, <3>1
  <2> DEFINE g == f[m - 1]
  <2>6. /\ m \in 1..Len(s) /\ s[m] \in A
        /\ f[m] = IF s[m] \in T THEN Append(g, s[m]) ELSE g
    BY <1>1, <1>2, <2>3, <2>4
  <2>7. First(m) = First(m - 1) \cup {s[m]}
    <3>1. 1..m = 1..(m - 1) \cup {m}
      BY <2>3, <2>4
    <3>2. QED
      BY <3>1
  <2>8. g \in Seq(A) /\ Len(g) <= m - 1 /\ Elements(g) = First(m - 1) \cap T /\ Ordered(g, R)
    BY <2>5
  <2>9. \A b \in First(m - 1) : <<b, s[m]>> \in R
    <3>1. ASSUME NEW i \in 1..(m - 1) PROVE <<s[i], s[m]>> \in R
      <4>1. i \in 1..Len(s) /\ m \in 1..Len(s) /\ i < m
        BY <1>1, <2>3, <2>6
      <4>2. QED
        BY <4>1 DEF Ordered
    <3>2. QED
      BY <3>1
  <2>10. CASE s[m] \in T
    <3>1. f[m] = Append(g, s[m])
      BY <2>6, <2>10
    <3> HIDE DEF First, g
    <3>2. \A b \in Elements(g) : <<b, s[m]>> \in R
      BY <2>8, <2>9
    <3>3. /\ f[m] \in Seq(A) /\ Len(f[m]) = Len(g) + 1
          /\ Elements(f[m]) = Elements(g) \cup {s[m]} /\ Ordered(f[m], R)
      BY <2>6, <2>8, <3>1, <3>2, AppendOrdered
    <3>4. Elements(f[m]) = First(m) \cap T
      BY <2>7, <2>8, <2>10, <3>3
    <3>5. Len(g) \in Nat
      BY <2>8, LenProperties
    <3>6. Len(f[m]) <= m
      BY <2>3, <2>8, <3>3, <3>5
    <3>7. QED
      BY <2>3, <3>3, <3>4, <3>6
  <2>11. CASE s[m] \notin T
    <3>1. f[m] = g
      BY <2>6, <2>11
    <3> HIDE DEF First, g
    <3>2. Elements(f[m]) = First(m) \cap T
      BY <2>7, <2>8, <2>11, <3>1
    <3>3. Len(g) \in Nat
      BY <2>8, LenProperties
    <3>4. QED
      BY <2>3, <2>8, <3>1, <3>2, <3>3
  <2>12. QED
    BY <2>10, <2>11
<1>4. Fits(Len(s))
  <2> HIDE DEF Fits
  <2>1. QED
    BY <1>1, <1>3
<1>5. QED
  BY <1>2, <1>4 DEF Elements

\* The elements of a sequence before and after those of another.
LEMMA ConcatOrdered ==
    ASSUME NEW A, NEW s \in Seq(A), NEW t \in Seq(A), NEW R, Ordered(s, R), Ordered(t, R),
           \A a \in Elements(s), b \in Elements(t) : <<a, b>> \in R
    PROVE  /\ s \o t \in Seq(A) /\ Len(s \o t) = Len(s) + Len(t)
           /\ Elements(s \o t) = Elements(s) \cup Elements(t)
           /\ Ordered(s \o t, R)
<1> DEFINE u == s \o t
<1>1. /\ u \in Seq(A) /\ Len(u) = Len(s) + Len(t) /\ Len(s) \in Nat /\ Len(t) \in Nat
      /\ \A i \in 1..Len(s) + Len(t) : u[i] = IF i <= Len(s) THEN s[i] ELSE t[i - Len(s)]
  BY ConcatProperties
<1> HIDE DEF u
<1>2. \A i \in 1..Len(s) : i \in 1..Len(u) /\ u[i] = s[i]
  BY <1>1
<1>3. ASSUME NEW i \in 1..Len(t) PROVE Len(s) + i \in 1..Len(u) /\ u[Len(s) + i] = t[i]
  <2> DEFINE j == Len(s) + i
  <2>1. j \in 1..Len(s) + Len(t) /\ ~ (j <= Len(s)) /\ j - Len(s) = i
    BY <1>1
  <2> HIDE DEF j
  <2>2. j \in 1..Len(u) /\ u[j] = t[i]
    BY <1>1, <2>1
  <2>3. QED
    BY <2>2 DEF j
<1>4. \A i \in 1..Len(u) : i \in 1..Len(s) \/ (i - Len(s) \in 1..Len(t) /\ i > Len(s))
  BY <1>1
<1>5. \A i \in 1..Len(u) : u[i] = IF i \in 1..Len(s) THEN s[i] ELSE t[i - Len(s)]
  BY <1>1
<1>6. Elements(u) = Elements(s) \cup Elements(t)
  <2>1. ASSUME NEW i \in 1..Len(u) PROVE u[i] \in Elements(s) \cup Elements(t)
    BY <1>4, <1>5 DEF Elements
  <2>2. ASSUME NEW i \in 1..Len(s) PROVE s[i] \in Elements(u)
    BY <1>2 DEF Elements
  <2>3. ASSUME NEW i \in 1..Len(t) PROVE t[i] \in Elements(u)
    <3>1. Len(s) + i \in 1..Len(u) /\ u[Len(s) + i] = t[i]
      BY <1>3
    <3>2. QED
      BY <3>1 DEF Elements
  <2>4. QED
    BY <2>1, <2>2, <2>3 DEF Elements
<1>7. ASSUME NEW i \in 1..Len(u), NEW j \in 1..Len(u), i < j PROVE <<u[i], u[j]>> \in R
  <2>1. CASE i \in 1..Len(s) /\ j \in 1..Len(s)
    BY <1>2, <1>7, <2>1 DEF Ordered
  <2>2. CASE i \in 1..Len(s) /\ j \notin 1..Len(s)
    <3>1. u[i] \in Elements(s) /\ u[j] \in Elements(t)
      BY <1>4, <1>5, <2>2 DEF Elements
    <3>2. QED
      BY <3>1
  <2>3. CASE i \notin 1..Len(s)
    <3>1. j \notin 1..Len(s)
      BY <1>1, <1>7, <2>3
    <3>2. /\ u[i] = t[i - Len(s)] /\ u[j] = t[j - Len(s)]
          /\ i - Len(s) \in 1..Len(t) /\ j - Len(s) \in 1..Len(t)
      BY <1>4, <1>5, <2>3, <3>1
    <3>3. i - Len(s) < j - Len(s)
      BY <1>1, <1>7
    <3>4. QED
      BY <3>2, <3>3 DEF Ordered
  <2>4. QED
    BY <2>1, <2>2, <2>3
<1>8. QED
  BY <1>1, <1>6, <1>7 DEF u, Ordered

-----------------------------------------------------------------------------
(* Queues and lanes.  E says when a waiter gives up, S who waits. *)

\* a is to be started before b.
Precedes(E) ==
    {x \in Actions \X Actions :
        /\ x[1] # x[2]
        /\ \/ PriorityOf[x[1]] < PriorityOf[x[2]]
           \/ PriorityOf[x[1]] = PriorityOf[x[2]] /\ E[x[1]] <= E[x[2]]}

\* Who goes first: the more urgent one, of two as urgent the one who gives up
\* first.
LEMMA PrecedesMeans ==
    ASSUME NEW E, NEW a \in Actions, NEW b \in Actions
    PROVE  <<a, b>> \in Precedes(E) <=>
                /\ a # b
                /\ \/ PriorityOf[a] < PriorityOf[b]
                   \/ PriorityOf[a] = PriorityOf[b] /\ E[a] <= E[b]
BY DEF Precedes

\* A queue of those of S, each once, who go first before the others.
Lined(s, S, E) == s \in Seq(Actions) /\ Elements(s) = S /\ Ordered(s, Precedes(E))

\* Those who are lined up, each of them once.
LEMMA LinedMembers ==
    ASSUME NEW s, NEW S, NEW E, Lined(s, S, E)
    PROVE  /\ S \subseteq Actions /\ Len(s) \in Nat
           /\ \A i \in 1..Len(s) : s[i] \in S
           /\ \A a \in S : \E i \in 1..Len(s) : s[i] = a
           /\ \A i, j \in 1..Len(s) : s[i] = s[j] => i = j
<1>1. s \in Seq(Actions) /\ Len(s) \in Nat /\ S = Elements(s)
  BY LenProperties DEF Lined
<1>2. S \subseteq Actions
  BY <1>1, ElementsAreRange
<1>3. /\ \A i \in 1..Len(s) : s[i] \in S
      /\ \A a \in S : \E i \in 1..Len(s) : s[i] = a
  BY <1>1 DEF Elements
<1>4. ASSUME NEW i \in 1..Len(s), NEW j \in 1..Len(s), i < j PROVE s[i] # s[j]
  <2>1. <<s[i], s[j]>> \in Precedes(E)
    BY <1>4 DEF Lined, Ordered
  <2>2. s[i] \in Actions /\ s[j] \in Actions
    BY <1>2, <1>3
  <2>3. QED
    BY <2>1, <2>2, PrecedesMeans
<1>5. \A i, j \in 1..Len(s) : s[i] = s[j] => i = j
  <2>1. TAKE i, j \in 1..Len(s)
  <2>2. i < j \/ j < i \/ i = j
    BY <1>1
  <2>3. QED
    BY <1>4, <2>2
<1>6. QED
  BY <1>1, <1>2, <1>3, <1>5

\* The first n of those who wait, as many as they are.
LEMMA FirstOfLined ==
    ASSUME NEW s, NEW S, NEW E, Lined(s, S, E), NEW n \in 0..Len(s)
    PROVE  /\ IsFiniteSet({s[i] : i \in 1..n}) /\ Cardinality({s[i] : i \in 1..n}) = n
           /\ {s[i] : i \in 1..n} \subseteq S
           /\ \A a \in {s[i] : i \in 1..n}, b \in S \ {s[i] : i \in 1..n} :
                    <<a, b>> \in Precedes(E)
<1> DEFINE F == {s[i] : i \in 1..n}
<1>1. /\ S \subseteq Actions /\ Len(s) \in Nat
      /\ \A i \in 1..Len(s) : s[i] \in S
      /\ \A a \in S : \E i \in 1..Len(s) : s[i] = a
      /\ \A i, j \in 1..Len(s) : s[i] = s[j] => i = j
  BY LinedMembers
<1>2. n \in Nat /\ 1..n \subseteq 1..Len(s)
  BY <1>1
<1>3. ExistsBijection(1..n, F)
  <2> DEFINE f == [i \in 1..n |-> s[i]]
  <2>1. f \in [1..n -> F]
    OBVIOUS
  <2>2. \A i, j \in 1..n : f[i] = f[j] => i = j
    BY <1>1, <1>2
  <2>3. \A x \in F : \E i \in 1..n : f[i] = x
    OBVIOUS
  <2> HIDE DEF f, F
  <2>4. f \in Injection(1..n, F) /\ f \in Surjection(1..n, F)
    BY <2>1, <2>2, <2>3 DEF Injection, IsInjective, Surjection
  <2>5. QED
    BY <2>4 DEF ExistsBijection, Bijection
<1>4. Cardinality(F) = n
  BY <1>2, <1>3, FS_CountingElements
<1>5. IsFiniteSet(F)
  BY <1>2, <1>3, FS_NatBijection
<1>6. F \subseteq S
  BY <1>1, <1>2
<1>7. ASSUME NEW a \in F, NEW b \in S \ F PROVE <<a, b>> \in Precedes(E)
  <2>1. PICK i \in 1..n : s[i] = a
    OBVIOUS
  <2>2. PICK j \in 1..Len(s) : s[j] = b
    BY <1>1
  <2>3. j \notin 1..n
    BY <2>2
  <2>4. i < j /\ i \in 1..Len(s)
    BY <1>2, <2>3
  <2>5. QED
    BY <2>1, <2>2, <2>4 DEF Lined, Ordered
<1>8. QED
  BY <1>4, <1>5, <1>6, <1>7

\* A queue is as long as those who wait in it are many.
LEMMA LinedSize ==
    ASSUME NEW s, NEW S, NEW E, Lined(s, S, E)
    PROVE  IsFiniteSet(S) /\ Cardinality(S) = Len(s) /\ Len(s) \in Nat
<1>1. /\ Len(s) \in Nat /\ \A i \in 1..Len(s) : s[i] \in S
      /\ \A a \in S : \E i \in 1..Len(s) : s[i] = a
  BY LinedMembers
<1>2. S = {s[i] : i \in 1..Len(s)} /\ Len(s) \in 0..Len(s)
  BY <1>1
<1>3. QED
  BY <1>1, <1>2, FirstOfLined

\* A selection of a queue is lined up.
LEMMA KeptLined ==
    ASSUME NEW s, NEW S, NEW E, Lined(s, S, E), NEW T
    PROVE  Lined(Kept(s, T), S \cap T, E)
BY KeptOrdered DEF Lined

\* The last of all is appended.
LEMMA AppendLined ==
    ASSUME NEW s, NEW S, NEW E, Lined(s, S, E), NEW a \in Actions,
           \A b \in S : <<b, a>> \in Precedes(E)
    PROVE  Lined(Append(s, a), S \cup {a}, E)
BY AppendOrdered DEF Lined

\* Two queues, the one before the other.
LEMMA ConcatLined ==
    ASSUME NEW s, NEW S, NEW t, NEW T, NEW E, Lined(s, S, E), Lined(t, T, E),
           \A a \in S, b \in T : <<a, b>> \in Precedes(E)
    PROVE  Lined(s \o t, S \cup T, E)
BY ConcatOrdered DEF Lined

\* The order depends on E only for those who wait.
LEMMA LinedElsewhere ==
    ASSUME NEW s, NEW S, NEW E, NEW D, Lined(s, S, E), \A a \in S : D[a] = E[a]
    PROVE  Lined(s, S, D)
<1>1. S \subseteq Actions /\ \A i \in 1..Len(s) : s[i] \in S
  BY LinedMembers
<1>2. ASSUME NEW a \in S, NEW b \in S, <<a, b>> \in Precedes(E) PROVE <<a, b>> \in Precedes(D)
  BY <1>1, <1>2, PrecedesMeans
<1>3. QED
  BY <1>1, <1>2 DEF Lined, Ordered

\* Those of one priority.
Rank(S, p) == {a \in S : PriorityOf[a] = p}

\* A lane with the waiters S.
LaneFits(lane, S, E) ==
    /\ lane \in Lanes
    /\ \A p \in Priorities : Lined(lane.queues[p], Rank(S, p), E)

\* The queues of a lane, one after the other, are lined up: this is what takeNext
\* reads.
LEMMA WaitersLined ==
    ASSUME NEW lane, NEW S \in SUBSET Actions, NEW E, LaneFits(lane, S, E)
    PROVE  Lined(Waiters(lane), S, E)
<1> DEFINE R(p) == Rank(S, p)
           q(p) == lane.queues[p]
<1>1. {0, 1, 2, 3} = Priorities /\ Low = 3
  BY DEF Priorities, Critical, Low
<1>2. Lined(q(0), R(0), E) /\ Lined(q(1), R(1), E) /\ Lined(q(2), R(2), E) /\ Lined(q(3), R(3), E)
  BY <1>1 DEF LaneFits
<1>3. ASSUME NEW p \in Priorities, NEW r \in Priorities, p < r, NEW a \in R(p), NEW b \in R(r)
      PROVE  <<a, b>> \in Precedes(E)
  <2>1. a \in Actions /\ b \in Actions /\ PriorityOf[a] = p /\ PriorityOf[b] = r
    BY DEF Rank
  <2>2. PriorityOf[a] # PriorityOf[b]
    BY <1>1, <1>3, <2>1
  <2>3. QED
    BY <1>3, <2>1, <2>2, PrecedesMeans
<1>4. S = R(0) \cup R(1) \cup R(2) \cup R(3)
  <2>1. \A a \in S : PriorityOf[a] \in {0, 1, 2, 3}
    BY <1>1, RequestsAssumption
  <2>2. QED
    BY <2>1 DEF Rank
<1> HIDE DEF R
<1>5. Lined(q(0) \o q(1), R(0) \cup R(1), E)
  BY <1>1, <1>2, <1>3, ConcatLined
<1>6. Lined((q(0) \o q(1)) \o q(2), (R(0) \cup R(1)) \cup R(2), E)
  <2>1. /\ \A a \in R(0), b \in R(2) : <<a, b>> \in Precedes(E)
        /\ \A a \in R(1), b \in R(2) : <<a, b>> \in Precedes(E)
    BY <1>1, <1>3
  <2>2. QED
    BY <1>2, <1>5, <2>1, ConcatLined
<1>7. Lined(((q(0) \o q(1)) \o q(2)) \o q(3), ((R(0) \cup R(1)) \cup R(2)) \cup R(3), E)
  <2>1. /\ \A a \in R(0), b \in R(3) : <<a, b>> \in Precedes(E)
        /\ \A a \in R(1), b \in R(3) : <<a, b>> \in Precedes(E)
        /\ \A a \in R(2), b \in R(3) : <<a, b>> \in Precedes(E)
    BY <1>1, <1>3
  <2>2. QED
    BY <1>2, <1>6, <2>1, ConcatLined
<1>8. QED
  BY <1>1, <1>4, <1>7 DEF Waiters

\* A lane is as deep as those who wait in it are many.
LEMMA DepthIsSize ==
    ASSUME NEW lane, NEW S \in SUBSET Actions, NEW E, LaneFits(lane, S, E)
    PROVE  IsFiniteSet(S) /\ Depth(lane) = Cardinality(S) /\ Depth(lane) \in Nat
BY WaitersLined, LinedSize DEF Depth

\* Those who are gone leave the queues, and nobody else.
LEMMA WithoutFits ==
    ASSUME NEW lane, NEW S \in SUBSET Actions, NEW E, LaneFits(lane, S, E), NEW gone
    PROVE  LaneFits(Without(lane, gone), S \ gone, E) /\ Without(lane, gone).inFlight = lane.inFlight
<1> DEFINE w == Without(lane, gone)
           keeps == [p \in Priorities |-> Kept(lane.queues[p], Actions \ gone)]
<1>1. w = [inFlight |-> lane.inFlight, queues |-> keeps]
  <2> HIDE DEF keeps
  <2>1. lane \in Lanes
    BY DEF LaneFits
  <2>2. w = [lane EXCEPT !.queues = keeps]
    BY DEF Without, keeps
  <2>3. QED
    BY <2>1, <2>2 DEF Lanes
<1> HIDE DEF w
<1>2. ASSUME NEW p \in Priorities
      PROVE  w.queues[p] \in Seq(Actions) /\ Lined(w.queues[p], Rank(S \ gone, p), E)
  <2>1. Lined(lane.queues[p], Rank(S, p), E)
    BY DEF LaneFits
  <2>2. Rank(S, p) \cap (Actions \ gone) = Rank(S \ gone, p)
    BY DEF Rank
  <2>3. w.queues[p] = Kept(lane.queues[p], Actions \ gone)
    BY <1>1
  <2>4. Lined(w.queues[p], Rank(S \ gone, p), E)
    BY <2>1, <2>2, <2>3, KeptLined
  <2>5. QED
    BY <2>4 DEF Lined
<1>3. w \in Lanes
  BY <1>1, <1>2 DEF LaneFits, Lanes
<1>4. LaneFits(w, S \ gone, E) /\ w.inFlight = lane.inFlight
  BY <1>1, <1>2, <1>3 DEF LaneFits
<1>5. QED
  BY <1>4 DEF w

-----------------------------------------------------------------------------
(* Budgets: a window has a place for each call that is still inside. *)

\* The actions of A whose calls started after the cutoff.
Recent(A, sent, cutoff) == {a \in A : sent[a] # None /\ sent[a] > cutoff}

\* Each of the recent calls has a place of its own in the window.
Covered(w, A, sent, cutoff) ==
    \E f \in [Recent(A, sent, cutoff) -> 1..Len(w)] :
        /\ \A a, b \in Recent(A, sent, cutoff) : f[a] = f[b] => a = b
        /\ \A a \in Recent(A, sent, cutoff) : w[f[a]] = sent[a]

\* A window that covers the calls is at least as long as they are many.
LEMMA CoveredCount ==
    ASSUME NEW w \in Seq(Nat), NEW A, NEW sent, NEW cutoff, Covered(w, A, sent, cutoff)
    PROVE  /\ Cardinality(Recent(A, sent, cutoff)) \in Nat
           /\ Cardinality(Recent(A, sent, cutoff)) <= Len(w)
<1> DEFINE T == Recent(A, sent, cutoff)
<1>1. PICK f \in [T -> 1..Len(w)] : \A a, b \in T : f[a] = f[b] => a = b
  BY DEF Covered
<1>2. f \in Injection(T, 1..Len(w))
  BY <1>1 DEF Injection, IsInjective
<1>3. Len(w) \in Nat
  BY LenProperties
<1>4. IsFiniteSet(1..Len(w)) /\ Cardinality(1..Len(w)) = Len(w)
  <2>1. 1 \in Int /\ Len(w) \in Int
    BY <1>3
  <2>2. /\ IsFiniteSet(1..Len(w))
        /\ Cardinality(1..Len(w)) = IF 1 > Len(w) THEN 0 ELSE Len(w) - 1 + 1
    BY <2>1, FS_Interval
  <2>3. QED
    BY <1>3, <2>2
<1>5. IsFiniteSet(T) /\ Cardinality(T) <= Cardinality(1..Len(w))
  BY <1>2, <1>4, FS_Injection
<1>6. Cardinality(T) \in Nat
  BY <1>5, FS_CardinalityType
<1>7. QED
  BY <1>4, <1>5, <1>6

\* Time only takes calls out of the window.
LEMMA CoveredLater ==
    ASSUME NEW w, NEW A, NEW sent, NEW cutoff \in Int, NEW later \in Int, cutoff <= later,
           \A a \in A : sent[a] \in Nat \cup {None},
           Covered(w, A, sent, cutoff)
    PROVE  Covered(w, A, sent, later)
<1> DEFINE T == Recent(A, sent, cutoff)
           U == Recent(A, sent, later)
<1>1. PICK f \in [T -> 1..Len(w)] : /\ \A a, b \in T : f[a] = f[b] => a = b
                                    /\ \A a \in T : w[f[a]] = sent[a]
  BY DEF Covered
<1>2. U \subseteq T
  BY DEF Recent
<1> DEFINE h == [a \in U |-> f[a]]
<1>3. /\ h \in [U -> 1..Len(w)]
      /\ \A a, b \in U : h[a] = h[b] => a = b
      /\ \A a \in U : w[h[a]] = sent[a]
  BY <1>1, <1>2
<1> HIDE DEF h
<1>4. QED
  BY <1>3 DEF Covered

\* When others started does not matter.
LEMMA CoveredElsewhere ==
    ASSUME NEW w, NEW A, NEW sent, NEW other, NEW cutoff, \A a \in A : other[a] = sent[a],
           Covered(w, A, sent, cutoff)
    PROVE  Covered(w, A, other, cutoff)
<1>1. Recent(A, other, cutoff) = Recent(A, sent, cutoff)
  BY DEF Recent
<1>2. \A a \in Recent(A, sent, cutoff) : other[a] = sent[a]
  BY DEF Recent
<1>3. QED
  BY <1>1, <1>2 DEF Covered

\* There is a place to cut the window at, and the times before it are outside.
LEMMA OutsideFits ==
    ASSUME NEW w \in Seq(Nat), NEW cutoff \in Int
    PROVE  /\ Outside(w, cutoff) \in 0..Len(w)
           /\ \A i \in 1..Outside(w, cutoff) : w[i] <= cutoff
<1> DEFINE Inside == {n \in Nat : n < Len(w) /\ w[n + 1] > cutoff}
           Cuts(n) == /\ \A i \in 1..n : w[i] <= cutoff
                      /\ n < Len(w) => w[n + 1] > cutoff
<1>1. Len(w) \in Nat /\ \A i \in 1..Len(w) : w[i] \in Nat
  BY LenProperties
<1>2. \E n \in 0..Len(w) : Cuts(n)
  <2>1. CASE Inside = {}
    <3>1. ASSUME NEW i \in 1..Len(w) PROVE w[i] <= cutoff
      <4>1. i - 1 \in Nat /\ i - 1 < Len(w) /\ (i - 1) + 1 = i
        BY <1>1
      <4>2. ~ w[i] > cutoff
        BY <2>1, <4>1
      <4>3. QED
        BY <1>1, <4>2
    <3>2. Cuts(Len(w))
      BY <1>1, <3>1
    <3>3. QED
      BY <1>1, <3>2
  <2>2. CASE Inside # {}
    <3>1. PICK m \in Inside : \A k \in Inside : m <= k
      BY <2>2, LeastOf
    <3>2. ASSUME NEW i \in 1..m PROVE w[i] <= cutoff
      <4>1. /\ m \in Nat /\ m < Len(w) /\ i - 1 \in Nat /\ i - 1 < Len(w) /\ (i - 1) + 1 = i
            /\ ~ m <= i - 1
        BY <1>1, <3>1
      <4>2. i - 1 \notin Inside
        BY <3>1, <4>1
      <4>3. i \in 1..Len(w) /\ ~ w[i] > cutoff
        BY <1>1, <4>1, <4>2
      <4>4. QED
        BY <1>1, <4>3
    <3>3. m \in 0..Len(w) /\ w[m + 1] > cutoff
      BY <1>1, <3>1
    <3>4. Cuts(m)
      BY <3>2, <3>3
    <3>5. QED
      BY <3>3, <3>4
  <2>3. QED
    BY <2>1, <2>2
<1>3. Outside(w, cutoff) = CHOOSE n \in 0..Len(w) : Cuts(n)
  BY DEF Outside
<1> HIDE DEF Cuts
<1>4. Outside(w, cutoff) \in 0..Len(w) /\ Cuts(Outside(w, cutoff))
  BY <1>2, <1>3
<1>5. QED
  BY <1>4 DEF Cuts

\* A trim takes out nothing that is still inside.
LEMMA TrimCovers ==
    ASSUME NEW w \in Seq(Nat), NEW windowMs \in Int, NEW at \in Int
    PROVE  /\ Trim(w, windowMs, at) \in Seq(Nat)
           /\ Len(Trim(w, windowMs, at)) \in Nat
           /\ Len(Trim(w, windowMs, at)) <= Len(w)
           /\ \A A, sent : Covered(w, A, sent, at - windowMs)
                                => Covered(Trim(w, windowMs, at), A, sent, at - windowMs)
<1> DEFINE cutoff == at - windowMs
           n == Outside(w, cutoff)
           t == Trim(w, windowMs, at)
<1>1. n \in 0..Len(w) /\ \A i \in 1..n : w[i] <= cutoff
  <2>1. cutoff \in Int
    OBVIOUS
  <2> HIDE DEF cutoff
  <2>2. QED
    BY <2>1, OutsideFits
<1>2. Len(w) \in Nat /\ n \in Nat /\ \A i \in 1..Len(w) : w[i] \in Nat
  BY <1>1, LenProperties
<1>3. /\ t \in Seq(Nat) /\ Len(t) = Len(w) - n
      /\ \A i \in 1..(Len(w) - n) : t[i] = w[n + i]
  <2>1. t = SubSeq(w, n + 1, Len(w)) /\ \A i \in (n + 1)..Len(w) : w[i] \in Nat
    BY <1>2 DEF Trim
  <2> HIDE DEF t, n
  <2>2. n + 1 \in Int /\ Len(w) \in Int
    BY <1>2
  <2>3. /\ SubSeq(w, n + 1, Len(w)) \in Seq(Nat)
        /\ Len(SubSeq(w, n + 1, Len(w))) = IF n + 1 <= Len(w) THEN Len(w) - (n + 1) + 1 ELSE 0
        /\ \A i \in 1..(Len(w) - (n + 1) + 1) : SubSeq(w, n + 1, Len(w))[i] = w[(n + 1) + i - 1]
    BY <2>1, <2>2, SubSeqProperties
  <2>4. /\ (Len(w) - (n + 1)) + 1 = Len(w) - n
        /\ (IF n + 1 <= Len(w) THEN Len(w) - (n + 1) + 1 ELSE 0) = Len(w) - n
    BY <1>1, <1>2
  <2>5. ASSUME NEW i \in 1..(Len(w) - n) PROVE t[i] = w[n + i]
    <3>1. (n + 1) + i - 1 = n + i
      BY <1>2
    <3>2. SubSeq(w, n + 1, Len(w))[i] = w[(n + 1) + i - 1]
      BY <2>3, <2>4
    <3>3. QED
      BY <2>1, <3>1, <3>2
  <2>6. QED
    BY <2>1, <2>3, <2>4, <2>5
<1> HIDE DEF t, n
<1>4. ASSUME NEW A, NEW sent, Covered(w, A, sent, cutoff) PROVE Covered(t, A, sent, cutoff)
  <2> DEFINE T == Recent(A, sent, cutoff)
  <2>1. PICK f \in [T -> 1..Len(w)] : /\ \A a, b \in T : f[a] = f[b] => a = b
                                      /\ \A a \in T : w[f[a]] = sent[a]
    BY <1>4 DEF Covered
  <2>2. ASSUME NEW a \in T PROVE f[a] - n \in 1..Len(t) /\ t[f[a] - n] = sent[a]
    <3>1. f[a] \in 1..Len(w) /\ w[f[a]] = sent[a] /\ sent[a] > cutoff
      BY <2>1 DEF Recent
    <3>2. f[a] \notin 1..n
      <4>1. ~ w[f[a]] <= cutoff
        BY <1>2, <3>1
      <4>2. QED
        BY <1>1, <4>1
    <3>3. f[a] - n \in 1..(Len(w) - n) /\ n + (f[a] - n) = f[a]
      BY <1>2, <3>1, <3>2
    <3>4. QED
      BY <1>3, <3>1, <3>3
  <2> DEFINE h == [a \in T |-> f[a] - n]
  <2>3. /\ h \in [T -> 1..Len(t)]
        /\ \A a \in T : t[h[a]] = sent[a]
    BY <2>2
  <2>4. \A a, b \in T : h[a] = h[b] => a = b
    <3>1. \A a \in T : f[a] \in Nat
      BY <1>2, <2>1
    <3>2. \A a, b \in T : f[a] - n = f[b] - n => f[a] = f[b]
      BY <1>2, <3>1
    <3>3. QED
      BY <2>1, <3>2
  <2> HIDE DEF h
  <2>5. QED
    BY <2>3, <2>4 DEF Covered
<1>5. QED
  BY <1>2, <1>3, <1>4 DEF t

\* n calls at one moment have n places more.
LEMMA RecordCovers ==
    ASSUME NEW w \in Seq(Nat), NEW windowMs \in Int, NEW at \in Nat,
           NEW S, IsFiniteSet(S)
    PROVE  /\ Record(w, windowMs, at, Cardinality(S)) \in Seq(Nat)
           /\ Len(Record(w, windowMs, at, Cardinality(S))) = Usage(w, windowMs, at) + Cardinality(S)
           /\ \A A, sent, after :
                /\ S \subseteq A /\ Covered(w, A, sent, at - windowMs)
                /\ \A a \in A : after[a] = IF a \in S THEN at ELSE sent[a]
                => Covered(Record(w, windowMs, at, Cardinality(S)), A, after, at - windowMs)
<1> DEFINE n == Cardinality(S)
           t == Trim(w, windowMs, at)
           more == [i \in 1..n |-> at]
           r == Record(w, windowMs, at, n)
           cutoff == at - windowMs
<1>1. n \in Nat /\ \E e \in Bijection(S, 1..n) : TRUE
  <2>1. n \in Nat /\ ExistsBijection(1..n, S)
    BY FS_CardinalityType
  <2> HIDE DEF n
  <2>2. PICK b \in Bijection(1..n, S) : TRUE
    BY <2>1 DEF ExistsBijection
  <2>3. /\ b \in [1..n -> S] /\ (\A i, j \in 1..n : b[i] = b[j] => i = j)
        /\ \A x \in S : \E i \in 1..n : b[i] = x
    BY <2>2 DEF Bijection, Injection, IsInjective, Surjection
  <2> DEFINE e == [x \in S |-> CHOOSE i \in 1..n : b[i] = x]
  <2>4. \A x \in S : e[x] \in 1..n /\ b[e[x]] = x
    BY <2>3
  <2>5. \A i \in 1..n : b[i] \in S /\ e[b[i]] = i
    BY <2>3, <2>4
  <2>6. e \in [S -> 1..n]
    BY <2>4
  <2> HIDE DEF e
  <2>7. e \in Injection(S, 1..n)
    BY <2>4, <2>6 DEF Injection, IsInjective
  <2>8. e \in Surjection(S, 1..n)
    BY <2>5, <2>6 DEF Surjection
  <2>9. QED
    BY <2>1, <2>7, <2>8 DEF Bijection
<1>2. PICK e \in [S -> 1..n] : \A a, b \in S : e[a] = e[b] => a = b
  BY <1>1 DEF Bijection, Injection, IsInjective
<1>3. /\ t \in Seq(Nat) /\ Len(t) \in Nat
      /\ \A A, sent : Covered(w, A, sent, cutoff) => Covered(t, A, sent, cutoff)
  BY TrimCovers
<1>4. more \in Seq(Nat) /\ Len(more) = n /\ \A i \in 1..n : more[i] = at
  BY <1>1
<1>5. r = t \o more
  BY DEF Record
<1> HIDE DEF n, t, more, r
<1>6. /\ r \in Seq(Nat) /\ Len(r) = Len(t) + n
      /\ \A i \in 1..Len(t) + n : r[i] = IF i <= Len(t) THEN t[i] ELSE more[i - Len(t)]
  BY <1>3, <1>4, <1>5, ConcatProperties
<1>7. ASSUME NEW A, NEW sent, NEW after, S \subseteq A, Covered(t, A, sent, cutoff),
             \A a \in A : after[a] = IF a \in S THEN at ELSE sent[a]
      PROVE  Covered(r, A, after, cutoff)
  <2> DEFINE T == Recent(A, sent, cutoff)
             U == Recent(A, after, cutoff)
  <2>1. PICK f \in [T -> 1..Len(t)] : /\ \A a, b \in T : f[a] = f[b] => a = b
                                      /\ \A a \in T : t[f[a]] = sent[a]
    BY <1>7 DEF Covered
  <2> DEFINE h == [a \in U |-> IF a \in S THEN Len(t) + e[a] ELSE f[a]]
  <2>2. ASSUME NEW a \in U, a \in S
        PROVE  /\ h[a] \in (Len(t) + 1)..(Len(t) + n) /\ h[a] \in 1..Len(r)
               /\ r[h[a]] = after[a]
    <3>1. h[a] = Len(t) + e[a] /\ e[a] \in 1..n
      BY <1>2, <2>2
    <3>2. h[a] \in (Len(t) + 1)..(Len(t) + n) /\ h[a] \in 1..Len(t) + n /\ h[a] - Len(t) = e[a]
      BY <1>1, <1>3, <3>1
    <3>3. ~ h[a] <= Len(t)
      BY <1>1, <1>3, <3>2
    <3> HIDE DEF h
    <3>4. r[h[a]] = more[e[a]]
      BY <1>6, <3>2, <3>3
    <3>5. more[e[a]] = at
      BY <1>4, <3>1
    <3>6. after[a] = at
      BY <1>7, <2>2 DEF Recent
    <3>7. QED
      BY <1>6, <3>2, <3>4, <3>5, <3>6
  <2>3. ASSUME NEW a \in U, a \notin S
        PROVE  /\ a \in T /\ h[a] = f[a] /\ h[a] \in 1..Len(t) /\ h[a] \in 1..Len(r)
               /\ r[h[a]] = after[a]
    <3>1. a \in T /\ after[a] = sent[a]
      BY <1>7, <2>3 DEF Recent
    <3>2. h[a] = f[a] /\ h[a] \in 1..Len(t) /\ t[h[a]] = sent[a]
      BY <2>1, <2>3, <3>1
    <3> HIDE DEF h
    <3>3. h[a] \in 1..Len(t) + n /\ h[a] <= Len(t)
      BY <1>1, <1>3, <3>2
    <3>4. r[h[a]] = t[h[a]]
      BY <1>6, <3>3
    <3>5. QED
      BY <1>6, <3>1, <3>2, <3>3, <3>4
  <2>4. h \in [U -> 1..Len(r)]
    BY <2>2, <2>3
  <2>5. \A a \in U : r[h[a]] = after[a]
    <3> HIDE DEF h
    <3>1. QED
      BY <2>2, <2>3
  <2>6. ASSUME NEW a \in U, NEW b \in U, h[a] = h[b] PROVE a = b
    <3>1. CASE a \in S /\ b \in S
      <4>1. /\ h[a] = Len(t) + e[a] /\ h[b] = Len(t) + e[b]
            /\ e[a] \in Nat /\ e[b] \in Nat
        BY <1>1, <1>2, <3>1
      <4> HIDE DEF h
      <4>2. Len(t) + e[a] = Len(t) + e[b]
        BY <2>6, <4>1
      <4>3. \A x, y, z \in Nat : z + x = z + y => x = y
        OBVIOUS
      <4>4. e[a] = e[b]
        BY <1>3, <4>1, <4>2, <4>3
      <4>5. QED
        BY <1>2, <3>1, <4>4
    <3>2. CASE a \in S /\ b \notin S
      <4>1. h[a] \in (Len(t) + 1)..(Len(t) + n) /\ h[b] \in 1..Len(t)
        BY <2>2, <2>3, <3>2
      <4> HIDE DEF h
      <4>2. QED
        BY <1>1, <1>3, <2>6, <4>1
    <3>3. CASE a \notin S /\ b \in S
      <4>1. h[b] \in (Len(t) + 1)..(Len(t) + n) /\ h[a] \in 1..Len(t)
        BY <2>2, <2>3, <3>3
      <4> HIDE DEF h
      <4>2. QED
        BY <1>1, <1>3, <2>6, <4>1
    <3>4. CASE a \notin S /\ b \notin S
      <4>1. h[a] = f[a] /\ h[b] = f[b] /\ a \in T /\ b \in T
        BY <2>3, <3>4
      <4> HIDE DEF h
      <4>2. QED
        BY <2>1, <2>6, <4>1
    <3>5. QED
      BY <3>1, <3>2, <3>3, <3>4
  <2> HIDE DEF h
  <2>7. QED
    BY <2>4, <2>5, <2>6 DEF Covered
<1>8. Usage(w, windowMs, at) = Len(t)
  BY DEF Usage, t
<1>9. QED
  BY <1>3, <1>6, <1>7, <1>8 DEF n, r

-----------------------------------------------------------------------------
(* The limiter: what it holds for those who wait (Q) and who call (C). *)

\* A limiter by its types.
Lims ==
    [ lanes : [Guilds -> Lanes \cup {None}], order : Seq(Guilds), cursor : Nat,
      budget : [Guilds -> Seq(Nat)], everything : Seq(Nat),
      circuits : [CircuitKeys -> Circuits \cup {None}] ]

\* One guild's part of some actions.
In(g, X) == {a \in X : GuildOf[a] = g}

\* One guild: what its lane holds, and whether the drains find it.
GuildFits(g, lane, listed, Q, C, E) ==
    /\ g \in listed <=> lane # None
    /\ lane = None => Q = {} /\ C = {}
    /\ lane # None =>
        /\ LaneFits(lane, Q, E) /\ Depth(lane) <= QueueMaxPerGuild
        /\ IsFiniteSet(C) /\ lane.inFlight = Cardinality(C)

\* Every guild's lane is what its waiters and calls say.
Accounted(l, Q, C, E) ==
    /\ l \in Lims /\ Q \subseteq Actions /\ C \subseteq Actions
    /\ \A g \in Guilds :
            GuildFits(g, l.lanes[g], Elements(l.order), In(g, Q), In(g, C), E)

\* Every window covers the calls of its guild, and that of the process all.
Covers(l, sent, at) ==
    /\ \A g \in Guilds :
            Covered(l.budget[g], In(g, Actions), sent, at - BudgetWindowMs)
    /\ Covered(l.everything, Actions, sent, at - GlobalWindowMs)

\* A probe is out with somebody of X.
Held(cs, X) ==
    \A k \in CircuitKeys :
        cs[k] # None /\ cs[k].probing => \E a \in X : CircuitOf[a] = k

\* The assumptions on the constants, one by one.
LEMMA Parameters ==
    /\ BudgetWindowMs \in Nat \ {0} /\ GlobalWindowMs \in Nat \ {0}
    /\ BudgetMaxActions \in Nat \ {0} /\ GlobalMaxActions \in Nat \ {0}
    /\ ConcurrencyPerGuild \in Nat \ {0} /\ QueueTimeoutMs \in Nat \ {0}
    /\ QueueMaxPerGuild \in Nat
    /\ GuildOf \in [Actions -> Guilds] /\ PriorityOf \in [Actions -> Priorities]
    /\ CircuitOf \in [Actions -> CircuitKeys]
    /\ None \notin Nat /\ None \notin Lanes /\ None \notin Circuits
BY LimitsAssumption, RequestsAssumption, NoneAssumption

\* A guild's part of two sets.
LEMMA InSets ==
    ASSUME NEW g, NEW X, NEW Y
    PROVE  /\ In(g, X \cup Y) = In(g, X) \cup In(g, Y) /\ In(g, X \ Y) = In(g, X) \ Y
           /\ In(g, X) \subseteq X
BY DEF In

\* E matters for those who wait only.
LEMMA AccountedElsewhere ==
    ASSUME NEW l, NEW Q, NEW C, NEW E, NEW D, Accounted(l, Q, C, E), \A a \in Q : D[a] = E[a]
    PROVE  Accounted(l, Q, C, D)
<1>1. ASSUME NEW g \in Guilds, NEW lane, LaneFits(lane, In(g, Q), E)
      PROVE  LaneFits(lane, In(g, Q), D)
  <2>1. ASSUME NEW p \in Priorities PROVE Lined(lane.queues[p], Rank(In(g, Q), p), D)
    <3>1. Lined(lane.queues[p], Rank(In(g, Q), p), E)
      BY <1>1 DEF LaneFits
    <3>2. \A a \in Rank(In(g, Q), p) : D[a] = E[a]
      BY DEF Rank, In
    <3>3. QED
      BY <3>1, <3>2, LinedElsewhere
  <2>2. QED
    BY <1>1, <2>1 DEF LaneFits
<1>2. QED
  BY <1>1 DEF Accounted, GuildFits

\* What of a limiter a lane is accounted in.
LEMMA AccountedAlike ==
    ASSUME NEW l, NEW Q, NEW C, NEW E, Accounted(l, Q, C, E),
           NEW k \in Lims, k.lanes = l.lanes, k.order = l.order
    PROVE  Accounted(k, Q, C, E)
BY DEF Accounted

\* A change of one guild's lane.
LEMMA AccountedAt ==
    ASSUME NEW l, NEW Q, NEW C, NEW E, Accounted(l, Q, C, E),
           NEW g \in Guilds, NEW k \in Lims, NEW lane, k.lanes = [l.lanes EXCEPT ![g] = lane],
           NEW P \in SUBSET Actions, NEW B \in SUBSET Actions,
           \A h \in Guilds \ {g} : /\ In(h, P) = In(h, Q) /\ In(h, B) = In(h, C)
                                   /\ h \in Elements(k.order) <=> h \in Elements(l.order),
           GuildFits(g, lane, Elements(k.order), In(g, P), In(g, B), E)
    PROVE  Accounted(k, P, B, E)
<1>1. ASSUME NEW h \in Guilds
      PROVE  GuildFits(h, k.lanes[h], Elements(k.order), In(h, P), In(h, B), E)
  <2>1. GuildFits(h, l.lanes[h], Elements(l.order), In(h, Q), In(h, C), E) /\ l \in Lims
    BY DEF Accounted
  <2>2. k.lanes[h] = IF h = g THEN lane ELSE l.lanes[h]
    BY <2>1 DEF Lims
  <2>3. CASE h = g
    BY <2>2, <2>3
  <2>4. CASE h # g
    BY <2>1, <2>2, <2>4 DEF GuildFits
  <2>5. QED
    BY <2>3, <2>4
<1>2. QED
  BY <1>1 DEF Accounted

\* A new lane has no waiters and no calls.
LEMMA EmptyLaneFits ==
    ASSUME NEW E PROVE LaneFits(EmptyLane, {}, E) /\ EmptyLane # None /\ Depth(EmptyLane) = 0
<1>1. EmptyLane \in Lanes
  <2>1. <<>> \in Seq(Actions)
    OBVIOUS
  <2>2. QED
    BY <2>1 DEF EmptyLane, Lanes
<1>2. ASSUME NEW p \in Priorities PROVE Lined(EmptyLane.queues[p], Rank({}, p), E)
  <2>1. EmptyLane.queues[p] = <<>> /\ <<>> \in Seq(Actions) /\ Len(<<>>) = 0 /\ Rank({}, p) = {}
    BY DEF EmptyLane, Rank
  <2>2. Elements(<<>>) = {} /\ Ordered(<<>>, Precedes(E))
    BY DEF Elements, Ordered
  <2>3. QED
    BY <2>1, <2>2 DEF Lined
<1>3. LaneFits(EmptyLane, {}, E)
  BY <1>1, <1>2 DEF LaneFits
<1>4. QED
  BY <1>1, <1>3, DepthIsSize, FS_EmptySet, Parameters

\* A guild that has no lane gets one, and is listed.
LEMMA LaneForFits ==
    ASSUME NEW l, NEW Q, NEW C, NEW E, Accounted(l, Q, C, E), NEW g \in Guilds
    PROVE  /\ Accounted(LaneFor(l, g), Q, C, E) /\ LaneFor(l, g).lanes[g] # None
           /\ LaneFor(l, g).budget = l.budget /\ LaneFor(l, g).everything = l.everything
           /\ LaneFor(l, g).circuits = l.circuits
<1> DEFINE k == LaneFor(l, g)
<1>1. CASE l.lanes[g] # None
  BY <1>1 DEF LaneFor
<1>2. CASE l.lanes[g] = None
  <2>1. k = [l EXCEPT !.lanes[g] = EmptyLane, !.order = Append(@, g)]
    BY <1>2 DEF LaneFor
  <2> HIDE DEF k
  <2>2. l \in Lims /\ EmptyLane \in Lanes
    BY EmptyLaneFits DEF Accounted, LaneFits
  <2>3. /\ l.order \in Seq(Guilds) /\ Append(l.order, g) \in Seq(Guilds)
        /\ Elements(Append(l.order, g)) = Elements(l.order) \cup {g}
    <3>1. l.order \in Seq(Guilds)
      BY <2>2 DEF Lims
    <3>2. Ordered(l.order, Guilds \X Guilds) /\ \A b \in Elements(l.order) : <<b, g>> \in Guilds \X Guilds
      BY <3>1, ElementsAreRange DEF Ordered
    <3>3. QED
      BY <3>1, <3>2, AppendOrdered
  <2>4. /\ k \in Lims /\ k.lanes = [l.lanes EXCEPT ![g] = EmptyLane]
        /\ k.order = Append(l.order, g) /\ k.budget = l.budget
        /\ k.everything = l.everything /\ k.circuits = l.circuits
    <3> DEFINE o == Append(l.order, g)
               e == EmptyLane
    <3>1. o \in Seq(Guilds) /\ e \in Lanes /\ k = [l EXCEPT !.lanes[g] = e, !.order = o]
      BY <2>1, <2>2, <2>3 DEF Lims
    <3> HIDE DEF o, e
    <3>2. k \in Lims /\ k.lanes = [l.lanes EXCEPT ![g] = e] /\ k.order = o
          /\ k.budget = l.budget /\ k.everything = l.everything /\ k.circuits = l.circuits
      BY <2>2, <3>1 DEF Lims
    <3>3. QED
      BY <3>2 DEF o, e
  <2>5. In(g, Q) = {} /\ In(g, C) = {} /\ Q \subseteq Actions /\ C \subseteq Actions
    BY <1>2 DEF Accounted, GuildFits
  <2>6. GuildFits(g, EmptyLane, Elements(k.order), In(g, Q), In(g, C), E)
    <3>1. EmptyLane.inFlight = 0 /\ Cardinality({}) = 0 /\ IsFiniteSet({})
      BY FS_EmptySet DEF EmptyLane
    <3>2. 0 <= QueueMaxPerGuild
      BY Parameters
    <3>3. QED
      BY <2>3, <2>4, <2>5, <3>1, <3>2, EmptyLaneFits DEF GuildFits
  <2>7. Accounted(k, Q, C, E)
    BY <2>3, <2>4, <2>5, <2>6, AccountedAt
  <2>8. k.lanes[g] = EmptyLane
    BY <2>2, <2>4 DEF Lims
  <2>9. QED
    BY <2>4, <2>7, <2>8, EmptyLaneFits DEF k
<1>3. QED
  BY <1>1, <1>2

\* What covers the calls so far in l covers those of S too in k.
CoversMore(l, k, S) ==
    \A sent, after :
        /\ Covers(l, sent, now)
        /\ \A a \in Actions : after[a] = IF a \in S THEN now ELSE sent[a]
        => Covers(k, after, now)

\* What is left when the calls of S, all of guild g, have started.
ExecuteOutcome(l, k, Q, C, E, g, S) ==
    /\ Accounted(k, Q, C \cup S, E)
    /\ CoversMore(l, k, S)
    /\ k.lanes[g] # None
    /\ k.lanes[g].inFlight = l.lanes[g].inFlight + Cardinality(S)
    /\ Len(k.budget[g]) = Usage(l.budget[g], BudgetWindowMs, now) + Cardinality(S)
    /\ Len(k.everything) = Usage(l.everything, GlobalWindowMs, now) + Cardinality(S)
    /\ \A h \in Guilds \ {g} : k.budget[h] = l.budget[h] /\ k.lanes[h] = l.lanes[h]
    /\ k.circuits = l.circuits

\* The calls of S start.
LEMMA ExecuteFits ==
    ASSUME NEW l, NEW Q, NEW C, NEW E, Accounted(l, Q, C, E),
           NEW g \in Guilds, l.lanes[g] # None, now \in Nat,
           NEW S \in SUBSET In(g, Actions), IsFiniteSet(S), S \cap C = {}
    PROVE  ExecuteOutcome(l, Execute(l, g, Cardinality(S)), Q, C, E, g, S)
<1> DEFINE n == Cardinality(S)
           k == Execute(l, g, n)
           lane == [l.lanes[g] EXCEPT !.inFlight = @ + n]
           w == Record(l.budget[g], BudgetWindowMs, now, n)
           v == Record(l.everything, GlobalWindowMs, now, n)
<1>1. l \in Lims /\ GuildFits(g, l.lanes[g], Elements(l.order), In(g, Q), In(g, C), E)
  BY DEF Accounted
<1>2. n \in Nat /\ BudgetWindowMs \in Int /\ GlobalWindowMs \in Int
  BY FS_CardinalityType, Parameters
<1>3. l.budget[g] \in Seq(Nat) /\ l.everything \in Seq(Nat) /\ l.lanes[g] \in Lanes
  BY <1>1 DEF Lims
<1>4. /\ w \in Seq(Nat) /\ Len(w) = Usage(l.budget[g], BudgetWindowMs, now) + n
      /\ \A A, sent, after :
            /\ S \subseteq A /\ Covered(l.budget[g], A, sent, now - BudgetWindowMs)
            /\ \A a \in A : after[a] = IF a \in S THEN now ELSE sent[a]
            => Covered(w, A, after, now - BudgetWindowMs)
  <2> DEFINE x == l.budget[g]
  <2>1. x \in Seq(Nat)
    BY <1>3
  <2> HIDE DEF x
  <2>2. /\ Record(x, BudgetWindowMs, now, Cardinality(S)) \in Seq(Nat)
        /\ Len(Record(x, BudgetWindowMs, now, Cardinality(S)))
                = Usage(x, BudgetWindowMs, now) + Cardinality(S)
        /\ \A A, sent, after :
            /\ S \subseteq A /\ Covered(x, A, sent, now - BudgetWindowMs)
            /\ \A a \in A : after[a] = IF a \in S THEN now ELSE sent[a]
            => Covered(Record(x, BudgetWindowMs, now, Cardinality(S)), A, after, now - BudgetWindowMs)
    BY <1>2, <2>1, RecordCovers
  <2>3. QED
    BY <2>2 DEF x
<1>5. /\ v \in Seq(Nat) /\ Len(v) = Usage(l.everything, GlobalWindowMs, now) + n
      /\ \A A, sent, after :
            /\ S \subseteq A /\ Covered(l.everything, A, sent, now - GlobalWindowMs)
            /\ \A a \in A : after[a] = IF a \in S THEN now ELSE sent[a]
            => Covered(v, A, after, now - GlobalWindowMs)
  <2> DEFINE y == l.everything
  <2>1. y \in Seq(Nat)
    BY <1>3
  <2> HIDE DEF y
  <2>2. /\ Record(y, GlobalWindowMs, now, Cardinality(S)) \in Seq(Nat)
        /\ Len(Record(y, GlobalWindowMs, now, Cardinality(S)))
                = Usage(y, GlobalWindowMs, now) + Cardinality(S)
        /\ \A A, sent, after :
            /\ S \subseteq A /\ Covered(y, A, sent, now - GlobalWindowMs)
            /\ \A a \in A : after[a] = IF a \in S THEN now ELSE sent[a]
            => Covered(Record(y, GlobalWindowMs, now, Cardinality(S)), A, after, now - GlobalWindowMs)
    BY <1>2, <2>1, RecordCovers
  <2>3. QED
    BY <2>2 DEF y
<1>6. /\ lane \in Lanes /\ lane.inFlight = l.lanes[g].inFlight + n
      /\ lane.queues = l.lanes[g].queues
  <2> DEFINE old == l.lanes[g]
  <2>1. old \in Lanes
    BY <1>3
  <2> HIDE DEF n, old
  <2>2. /\ [old EXCEPT !.inFlight = @ + n] \in Lanes
        /\ [old EXCEPT !.inFlight = @ + n].inFlight = old.inFlight + n
        /\ [old EXCEPT !.inFlight = @ + n].queues = old.queues
    BY <1>2, <2>1 DEF Lanes
  <2>3. QED
    BY <2>2 DEF old
<1>7. k = [l EXCEPT !.lanes[g] = lane, !.budget[g] = w, !.everything = v]
  <2> HIDE DEF n
  <2>1. l.lanes \in [Guilds -> Lanes \cup {None}] /\ l.budget \in [Guilds -> Seq(Nat)]
    BY <1>1 DEF Lims
  <2>2. QED
    BY <1>1, <2>1 DEF Execute, Lims
<1> HIDE DEF n, k, lane, w, v
<1>8. /\ k \in Lims /\ k.lanes = [l.lanes EXCEPT ![g] = lane] /\ k.order = l.order
      /\ k.budget = [l.budget EXCEPT ![g] = w] /\ k.everything = v /\ k.circuits = l.circuits
  BY <1>1, <1>4, <1>5, <1>6, <1>7 DEF Lims
<1>9. k.lanes[g] = lane /\ k.budget[g] = w
  BY <1>1, <1>8 DEF Lims
<1>10. \A h \in Guilds \ {g} : k.budget[h] = l.budget[h] /\ k.lanes[h] = l.lanes[h]
  BY <1>1, <1>8 DEF Lims
<1>11. lane # None
  BY <1>6, Parameters
<1>12. Accounted(k, Q, C \cup S, E)
  <2>1. LaneFits(l.lanes[g], In(g, Q), E) /\ IsFiniteSet(In(g, C))
        /\ l.lanes[g].inFlight = Cardinality(In(g, C)) /\ Depth(l.lanes[g]) <= QueueMaxPerGuild
        /\ g \in Elements(l.order)
    BY <1>1 DEF GuildFits
  <2>2. LaneFits(lane, In(g, Q), E)
    BY <1>6, <2>1 DEF LaneFits
  <2>3. Depth(lane) = Depth(l.lanes[g])
    BY <1>6 DEF Depth, Waiters
  <2>4. In(g, C \cup S) = In(g, C) \cup S /\ In(g, C) \cap S = {}
    BY DEF In
  <2>5. IsFiniteSet(In(g, C) \cup S)
        /\ Cardinality(In(g, C) \cup S) = Cardinality(In(g, C)) + n
    <3>1. /\ IsFiniteSet(In(g, C) \cup S)
          /\ Cardinality(In(g, C) \cup S) =
                Cardinality(In(g, C)) + Cardinality(S) - Cardinality(In(g, C) \cap S)
      BY <2>1, FS_Union
    <3>2. Cardinality(In(g, C) \cap S) = 0 /\ Cardinality(In(g, C)) \in Nat
      BY <2>1, <2>4, FS_EmptySet, FS_CardinalityType
    <3>3. QED
      BY <1>2, <3>1, <3>2 DEF n
  <2>6. GuildFits(g, lane, Elements(k.order), In(g, Q), In(g, C \cup S), E)
    BY <1>6, <1>8, <1>11, <2>1, <2>2, <2>3, <2>4, <2>5 DEF GuildFits
  <2>7. \A h \in Guilds \ {g} : /\ In(h, Q) = In(h, Q) /\ In(h, C \cup S) = In(h, C)
                                /\ h \in Elements(k.order) <=> h \in Elements(l.order)
    BY <1>8 DEF In
  <2>8. Q \in SUBSET Actions /\ C \cup S \in SUBSET Actions
    BY DEF Accounted, In
  <2>9. QED
    BY <1>8, <2>6, <2>7, <2>8, AccountedAt
<1>13. ASSUME NEW sent, NEW after, Covers(l, sent, now),
              \A a \in Actions : after[a] = IF a \in S THEN now ELSE sent[a]
       PROVE  Covers(k, after, now)
  <2>1. Covered(v, Actions, after, now - GlobalWindowMs)
    <3>1. S \subseteq Actions
      BY DEF In
    <3>2. Covered(l.everything, Actions, sent, now - GlobalWindowMs)
      BY <1>13 DEF Covers
    <3>3. QED
      BY <1>5, <1>13, <3>1, <3>2
  <2>2. ASSUME NEW h \in Guilds
        PROVE  Covered(k.budget[h], In(h, Actions), after, now - BudgetWindowMs)
    <3>1. Covered(l.budget[h], In(h, Actions), sent, now - BudgetWindowMs)
      BY <1>13 DEF Covers
    <3>2. In(h, Actions) \subseteq Actions
      BY DEF In
    <3>3. CASE h = g
      BY <1>4, <1>9, <1>13, <3>1, <3>2, <3>3
    <3>4. CASE h # g
      <4>1. \A a \in In(h, Actions) : after[a] = sent[a]
        BY <1>13, <3>2, <3>4 DEF In
      <4>2. k.budget[h] = l.budget[h]
        BY <1>10, <3>4
      <4>3. QED
        BY <3>1, <4>1, <4>2, CoveredElsewhere
    <3>5. QED
      BY <3>3, <3>4
  <2>3. QED
    BY <1>8, <2>1, <2>2 DEF Covers
<1>14. QED
  BY <1>4, <1>5, <1>6, <1>8, <1>9, <1>10, <1>11, <1>12, <1>13 DEF k, n, CoversMore, ExecuteOutcome

\* Some waiters leave the lane of g.
Take(l, g, gone) == [l EXCEPT !.lanes[g] = Without(@, gone)]

\* What is left when they have.
RemoveOutcome(l, k, Q, C, E, g, gone) ==
    /\ Accounted(k, Q \ gone, C, E)
    /\ k.lanes[g] # None /\ k.lanes[g] = Without(l.lanes[g], gone)
    /\ k.lanes[g].inFlight = l.lanes[g].inFlight
    /\ \A h \in Guilds \ {g} : k.lanes[h] = l.lanes[h]
    /\ k.budget = l.budget /\ k.everything = l.everything /\ k.circuits = l.circuits

\* The waiters of one guild that are gone leave its queues.
LEMMA RemoveFits ==
    ASSUME NEW l, NEW Q, NEW C, NEW E, Accounted(l, Q, C, E),
           NEW g \in Guilds, l.lanes[g] # None, NEW gone \in SUBSET In(g, Actions)
    PROVE  RemoveOutcome(l, Take(l, g, gone), Q, C, E, g, gone)
<1> DEFINE lane == Without(l.lanes[g], gone)
           k == Take(l, g, gone)
           R == In(g, Q)
<1>1. /\ l \in Lims /\ GuildFits(g, l.lanes[g], Elements(l.order), In(g, Q), In(g, C), E)
      /\ Q \subseteq Actions /\ C \subseteq Actions
  BY DEF Accounted
<1>2. LaneFits(l.lanes[g], R, E) /\ R \in SUBSET Actions
  BY <1>1 DEF GuildFits, In
<1> HIDE DEF R
<1>3. LaneFits(lane, R \ gone, E) /\ lane.inFlight = l.lanes[g].inFlight
  BY <1>2, WithoutFits
<1>4. lane \in Lanes /\ lane # None
  BY <1>3, Parameters DEF LaneFits
<1>5. k = [l EXCEPT !.lanes[g] = lane]
  BY <1>1 DEF Lims, Take
<1> HIDE DEF lane, k
<1>6. /\ k \in Lims /\ k.lanes = [l.lanes EXCEPT ![g] = lane] /\ k.order = l.order
      /\ k.budget = l.budget /\ k.everything = l.everything /\ k.circuits = l.circuits
  BY <1>1, <1>4, <1>5 DEF Lims
<1>7. k.lanes[g] = lane /\ \A h \in Guilds \ {g} : k.lanes[h] = l.lanes[h]
  BY <1>1, <1>6 DEF Lims
<1>8. Depth(lane) <= Depth(l.lanes[g])
  <2>1. R \ gone \in SUBSET Actions
    BY <1>2
  <2>2. /\ IsFiniteSet(R) /\ Depth(l.lanes[g]) = Cardinality(R)
        /\ Depth(lane) = Cardinality(R \ gone)
    BY <1>2, <1>3, <2>1, DepthIsSize
  <2>3. QED
    BY <2>2, FS_Subset
<1>9. Depth(lane) \in Nat /\ Depth(l.lanes[g]) \in Nat
  <2>1. R \ gone \in SUBSET Actions
    BY <1>2
  <2>2. QED
    BY <1>2, <1>3, <2>1, DepthIsSize
<1>10. In(g, Q \ gone) = R \ gone
  BY DEF In, R
<1>11. GuildFits(g, lane, Elements(k.order), In(g, Q \ gone), In(g, C), E)
  <2>1. Depth(lane) <= QueueMaxPerGuild
    BY <1>1, <1>2, <1>4, <1>8, <1>9, Parameters DEF GuildFits
  <2>2. /\ IsFiniteSet(In(g, C)) /\ lane.inFlight = Cardinality(In(g, C))
        /\ g \in Elements(k.order)
    BY <1>1, <1>3, <1>6 DEF GuildFits
  <2>3. QED
    BY <1>3, <1>4, <1>10, <2>1, <2>2 DEF GuildFits
<1>12. \A h \in Guilds \ {g} : /\ In(h, Q \ gone) = In(h, Q) /\ In(h, C) = In(h, C)
                              /\ h \in Elements(k.order) <=> h \in Elements(l.order)
  BY <1>6 DEF In
<1>13. Q \ gone \in SUBSET Actions /\ C \in SUBSET Actions
  BY <1>1
<1>14. Accounted(k, Q \ gone, C, E)
  <2>1. ASSUME NEW h \in Guilds
        PROVE  GuildFits(h, k.lanes[h], Elements(k.order), In(h, Q \ gone), In(h, C), E)
    <3>1. CASE h = g
      <4>1. k.lanes[h] = lane
        BY <1>7, <3>1
      <4>2. QED
        BY <1>11, <3>1, <4>1
    <3>2. CASE h # g
      <4>1. GuildFits(h, l.lanes[h], Elements(l.order), In(h, Q), In(h, C), E)
        BY DEF Accounted
      <4>2. In(h, Q \ gone) = In(h, Q)
        BY <3>2 DEF In
      <4>3. k.lanes[h] = l.lanes[h] /\ k.order = l.order
        BY <1>6, <1>7, <3>2
      <4>4. QED
        BY <4>1, <4>2, <4>3
    <3>3. QED
      BY <3>1, <3>2
  <2>2. QED
    BY <1>6, <1>13, <2>1 DEF Accounted
<1>15. QED
  BY <1>3, <1>4, <1>6, <1>7, <1>14 DEF k, lane, RemoveOutcome

\* What abandoning actions does to the circuits.
LEMMA AbandonFits ==
    ASSUME NEW l \in Lims, NEW gone
    PROVE  LET k == Abandon(l, gone)
           IN  /\ k \in Lims /\ k.lanes = l.lanes /\ k.order = l.order
               /\ k.budget = l.budget /\ k.everything = l.everything
               /\ \A X : Held(l.circuits, X) => Held(k.circuits, X \ gone)
<1> DEFINE cs == [j \in CircuitKeys |->
                    IF \E a \in gone : CircuitOf[a] = j THEN ReleaseProbe(l.circuits, j)[j]
                    ELSE l.circuits[j]]
           k == Abandon(l, gone)
<1>1. l.circuits \in [CircuitKeys -> Circuits \cup {None}]
  BY DEF Lims
<1>2. ASSUME NEW j \in CircuitKeys
      PROVE  /\ ReleaseProbe(l.circuits, j)[j] \in Circuits \cup {None}
             /\ ReleaseProbe(l.circuits, j)[j] # None => ~ ReleaseProbe(l.circuits, j)[j].probing
  <2>1. CASE l.circuits[j] = None
    BY <1>1, <2>1 DEF ReleaseProbe
  <2>2. CASE l.circuits[j] # None
    <3> DEFINE c == l.circuits[j]
               d == [c EXCEPT !.probing = FALSE]
    <3>1. c \in Circuits
      BY <1>1, <2>2
    <3>2. ReleaseProbe(l.circuits, j)[j] = d
      BY <1>1, <2>2 DEF ReleaseProbe
    <3> HIDE DEF c
    <3>3. d \in Circuits /\ d.probing = FALSE
      BY <3>1 DEF Circuits
    <3>4. QED
      BY <3>2, <3>3
  <2>3. QED
    BY <2>1, <2>2
<1>3. cs \in [CircuitKeys -> Circuits \cup {None}]
  BY <1>1, <1>2
<1>4. ASSUME NEW X, Held(l.circuits, X) PROVE Held(cs, X \ gone)
  <2>1. SUFFICES ASSUME NEW j \in CircuitKeys, cs[j] # None, cs[j].probing
                 PROVE  \E a \in X \ gone : CircuitOf[a] = j
    BY DEF Held
  <2>2. ~ \E a \in gone : CircuitOf[a] = j
    BY <1>2, <2>1
  <2>3. cs[j] = l.circuits[j]
    BY <2>2
  <2>4. PICK a \in X : CircuitOf[a] = j
    BY <1>4, <2>1, <2>3 DEF Held
  <2>5. QED
    BY <2>2, <2>4
<1>5. k = [l EXCEPT !.circuits = cs]
  BY DEF Abandon
<1> HIDE DEF cs, k
<1>6. /\ k \in Lims /\ k.lanes = l.lanes /\ k.order = l.order
      /\ k.budget = l.budget /\ k.everything = l.everything /\ k.circuits = cs
  BY <1>3, <1>5 DEF Lims
<1>7. QED
  BY <1>4, <1>6 DEF k

\* A lane is dropped when nothing of its guild waits or is called.
LEMMA DropIdleFits ==
    ASSUME NEW l, NEW Q, NEW C, NEW E, Accounted(l, Q, C, E), NEW g \in Guilds, l.lanes[g] # None
    PROVE  LET k == DropIdleLane(l, g)
           IN  /\ Accounted(k, Q, C, E)
               /\ k.budget = l.budget /\ k.everything = l.everything /\ k.circuits = l.circuits
               /\ k.lanes[g] = l.lanes[g] \/ In(g, C) = {}
               /\ \A h \in Guilds \ {g} : k.lanes[h] = l.lanes[h]
<1> DEFINE k == DropIdleLane(l, g)
           idle == l.lanes[g].inFlight = 0 /\ Depth(l.lanes[g]) = 0
<1>1. /\ l \in Lims /\ GuildFits(g, l.lanes[g], Elements(l.order), In(g, Q), In(g, C), E)
      /\ Q \in SUBSET Actions /\ C \in SUBSET Actions
  BY DEF Accounted
<1>2. CASE ~ idle
  BY <1>2 DEF DropIdleLane
<1>3. CASE idle
  <2> DEFINE o == Kept(l.order, Guilds \ {g})
  <2>1. k = [l EXCEPT !.lanes[g] = None, !.order = o]
    BY <1>3 DEF DropIdleLane
  <2>2. l.order \in Seq(Guilds)
    BY <1>1 DEF Lims
  <2>3. Ordered(l.order, Guilds \X Guilds) /\ Elements(l.order) \subseteq Guilds
    BY <2>2, ElementsAreRange DEF Ordered, Elements
  <2>4. o \in Seq(Guilds) /\ Elements(o) = Elements(l.order) \ {g}
    <3> DEFINE s == l.order
               T == Guilds \ {g}
    <3>1. s \in Seq(Guilds) /\ Ordered(s, Guilds \X Guilds)
      BY <2>2, <2>3
    <3> HIDE DEF s, T
    <3>2. Kept(s, T) \in Seq(Guilds) /\ Elements(Kept(s, T)) = Elements(s) \cap T
      BY <3>1, KeptOrdered
    <3>3. o = Kept(s, T) /\ Elements(s) \cap T = Elements(l.order) \ {g}
      BY <2>3 DEF s, T
    <3>4. QED
      BY <3>2, <3>3
  <2> HIDE DEF k, o
  <2>5. /\ k \in Lims /\ k.lanes = [l.lanes EXCEPT ![g] = None] /\ k.order = o
        /\ k.budget = l.budget /\ k.everything = l.everything /\ k.circuits = l.circuits
    BY <1>1, <2>1, <2>4 DEF Lims
  <2>6. In(g, C) = {} /\ In(g, Q) = {}
    <3>1. /\ LaneFits(l.lanes[g], In(g, Q), E) /\ In(g, Q) \in SUBSET Actions
          /\ IsFiniteSet(In(g, C)) /\ Cardinality(In(g, C)) = 0
      BY <1>1, <1>3 DEF GuildFits, In
    <3>2. IsFiniteSet(In(g, Q)) /\ Cardinality(In(g, Q)) = 0
      BY <1>3, <3>1, DepthIsSize
    <3>3. QED
      BY <3>1, <3>2, FS_EmptySet
  <2>7. GuildFits(g, None, Elements(k.order), In(g, Q), In(g, C), E)
    BY <2>4, <2>5, <2>6 DEF GuildFits
  <2>8. \A h \in Guilds \ {g} : /\ In(h, Q) = In(h, Q) /\ In(h, C) = In(h, C)
                               /\ h \in Elements(k.order) <=> h \in Elements(l.order)
    BY <2>4, <2>5
  <2>9. Accounted(k, Q, C, E)
    BY <1>1, <2>5, <2>7, <2>8, AccountedAt
  <2>10. \A h \in Guilds \ {g} : k.lanes[h] = l.lanes[h]
    BY <1>1, <2>5 DEF Lims
  <2>11. QED
    BY <2>5, <2>6, <2>9, <2>10 DEF k
<1>4. QED
  BY <1>2, <1>3


-----------------------------------------------------------------------------
(* A drain. *)

\* A probe held by some of X is held by some of more.
LEMMA HeldMore ==
    ASSUME NEW cs, NEW X, NEW Y, X \subseteq Y, Held(cs, X) PROVE Held(cs, Y)
BY DEF Held

\* Who is timed out and who is started: the first of those who are left, as
\* many as there is room for.
LEMMA StartableFits ==
    ASSUME NEW l, NEW Q, NEW C, Accounted(l, Q, C, expiresAt),
           NEW g \in Guilds, l.lanes[g] # None, now \in Nat
    PROVE  LET late == Expired(l, g)
               S    == Startable(l, g)
           IN  /\ late \subseteq In(g, Q) /\ S \subseteq In(g, Q) \ late
               /\ IsFiniteSet(S) /\ Cardinality(S) \in Nat
               /\ \A a \in S, b \in In(g, Q) \ (late \cup S) : <<a, b>> \in Precedes(expiresAt)
               /\ S # {} =>
                    /\ l.lanes[g].inFlight + Cardinality(S) <= ConcurrencyPerGuild
                    /\ Usage(l.budget[g], BudgetWindowMs, now) + Cardinality(S) <= BudgetMaxActions
                    /\ Usage(l.everything, GlobalWindowMs, now) + Cardinality(S) <= GlobalMaxActions
<1> DEFINE late == Expired(l, g)
           S == Startable(l, g)
           W == In(g, Q)
           alive == Waiters(Without(l.lanes[g], late))
           n == Least(Room(l, g), Len(alive))
           m == IF n < 0 THEN 0 ELSE n
<1>1. l \in Lims /\ LaneFits(l.lanes[g], W, expiresAt) /\ W \in SUBSET Actions
  BY DEF Accounted, GuildFits, In
<1>2. Lined(Waiters(l.lanes[g]), W, expiresAt)
  BY <1>1, WaitersLined
<1>3. late \subseteq W
  BY <1>2, ElementsAreRange DEF Lined, Expired
<1>4. S = {alive[i] : i \in 1..n}
  BY DEF Startable
<1>5. LaneFits(Without(l.lanes[g], late), W \ late, expiresAt) /\ W \ late \in SUBSET Actions
  <2> HIDE DEF W, late
  <2>1. QED
    BY <1>1, WithoutFits
<1>6. Lined(alive, W \ late, expiresAt)
  <2> HIDE DEF W, late
  <2>1. QED
    BY <1>5, WaitersLined
<1>7. Len(alive) \in Nat
  BY <1>6, LinedSize
<1> DEFINE u == Usage(l.budget[g], BudgetWindowMs, now)
           v == Usage(l.everything, GlobalWindowMs, now)
           i0 == l.lanes[g].inFlight
<1>8. u \in Nat /\ v \in Nat /\ i0 \in Nat
  <2>1. l.budget[g] \in Seq(Nat) /\ l.everything \in Seq(Nat) /\ i0 \in Nat
    BY <1>1 DEF Lims, LaneFits, Lanes
  <2>2. now \in Int /\ BudgetWindowMs \in Int /\ GlobalWindowMs \in Int
    BY Parameters
  <2> DEFINE x == l.budget[g]
             y == l.everything
  <2>3. x \in Seq(Nat) /\ y \in Seq(Nat)
    BY <2>1
  <2> HIDE DEF x, y
  <2>4. Len(Trim(x, BudgetWindowMs, now)) \in Nat /\ Len(Trim(y, GlobalWindowMs, now)) \in Nat
    BY <2>2, <2>3, TrimCovers
  <2>5. QED
    BY <2>1, <2>4 DEF x, y, Usage
<1>9. Room(l, g) = Least(ConcurrencyPerGuild - i0, Least(BudgetMaxActions - u, GlobalMaxActions - v))
  BY DEF Room, Capacity
<1> HIDE DEF alive, u, v, i0, W, late, S
<1>10. /\ Room(l, g) \in Int /\ Room(l, g) <= ConcurrencyPerGuild - i0
       /\ Room(l, g) <= BudgetMaxActions - u /\ Room(l, g) <= GlobalMaxActions - v
  BY <1>8, <1>9, Parameters DEF Least
<1>11. m \in 0..Len(alive) /\ 1..n = 1..m /\ (m # 0 => m <= Room(l, g))
  BY <1>7, <1>10 DEF Least
<1>12. S = {alive[i] : i \in 1..m}
  BY <1>4, <1>11
<1> HIDE DEF n, m
<1>13. /\ IsFiniteSet({alive[i] : i \in 1..m}) /\ Cardinality({alive[i] : i \in 1..m}) = m
       /\ {alive[i] : i \in 1..m} \subseteq W \ late
       /\ \A a \in {alive[i] : i \in 1..m}, b \in (W \ late) \ {alive[i] : i \in 1..m} :
                    <<a, b>> \in Precedes(expiresAt)
  BY <1>6, <1>11, FirstOfLined
<1>14. /\ IsFiniteSet(S) /\ Cardinality(S) = m /\ S \subseteq W \ late
       /\ \A a \in S, b \in (W \ late) \ S : <<a, b>> \in Precedes(expiresAt)
  BY <1>12, <1>13, Zenon
<1>15. S # {} => /\ i0 + Cardinality(S) <= ConcurrencyPerGuild
                 /\ u + Cardinality(S) <= BudgetMaxActions
                 /\ v + Cardinality(S) <= GlobalMaxActions
  <2>1. S # {} => m # 0
    BY <1>12, <1>11
  <2>2. QED
    BY <1>8, <1>10, <1>11, <1>14, <2>1, Parameters
<1>16. m \in Nat
  BY <1>7, <1>11
<1>17. QED
  BY <1>3, <1>14, <1>15, <1>16 DEF u, v, i0, W, late, S

\* When the calls started, those of S now.
Sent(S, sent) == [a \in Actions |-> IF a \in S THEN now ELSE sent[a]]

\* Those who still wait during a drain.
Left(d, Q) == Q \ (d.starts \cup d.late)

\* The three bounds that what was started keeps to.
Paced(l, starts, C) ==
    /\ starts # {} => Len(l.everything) <= GlobalMaxActions
    /\ \A a \in starts :
        /\ Len(l.budget[GuildOf[a]]) <= BudgetMaxActions
        /\ Cardinality(In(GuildOf[a], C \cup starts)) <= ConcurrencyPerGuild

\* A drain on its way, of a limiter where Q waited and C called.
Draining(d, Q, C, sent) ==
    /\ d.starts \subseteq Q /\ d.late \subseteq Q /\ d.starts \cap d.late = {}
    /\ Accounted(d.lim, Left(d, Q), C \cup d.starts, expiresAt)
    /\ Covers(d.lim, Sent(d.starts, sent), now)
    /\ Held(d.lim.circuits, Left(d, Q) \cup C \cup d.starts)
    /\ \A a \in d.starts, b \in Left(d, Q) :
            GuildOf[a] = GuildOf[b] => <<a, b>> \in Precedes(expiresAt)
    /\ Paced(d.lim, d.starts, C)

\* One lane drained: the late ones go, those of S start, an idle lane is dropped.
Taken(l, g, late, S) ==
    DropIdleLane(Execute(Take(Abandon(l, late), g, late \cup S), g, Cardinality(S)), g)

\* What is left when it has been.
TakeOutcome(l, k, Q, C, E, g, late, S) ==
    /\ Accounted(k, Q \ (late \cup S), C \cup S, E)
    /\ CoversMore(l, k, S)
    /\ Held(l.circuits, Q \cup C) => Held(k.circuits, (Q \ (late \cup S)) \cup C \cup S)
    /\ l.lanes[g].inFlight + Cardinality(S) = Cardinality(In(g, C \cup S))
    /\ Len(k.budget[g]) = Usage(l.budget[g], BudgetWindowMs, now) + Cardinality(S)
    /\ Len(k.everything) = Usage(l.everything, GlobalWindowMs, now) + Cardinality(S)
    /\ \A h \in Guilds \ {g} : k.budget[h] = l.budget[h]

\* The lane's waiters that are late or start leave it, and the calls start.
LEMMA TakeFits ==
    ASSUME NEW l, NEW Q, NEW C, NEW E, Accounted(l, Q, C, E), Q \cap C = {}, now \in Nat,
           NEW g \in Guilds, l.lanes[g] # None,
           NEW late \in SUBSET In(g, Q), NEW S \in SUBSET In(g, Q), S \cap late = {},
           IsFiniteSet(S)
    PROVE  TakeOutcome(l, Taken(l, g, late, S), Q, C, E, g, late, S)
<1> DEFINE gone == late \cup S
           k1 == Abandon(l, late)
           k2 == Take(k1, g, gone)
           k3 == Execute(k2, g, Cardinality(S))
           k4 == DropIdleLane(k3, g)
           P == Q \ gone
           B == C \cup S
<1>1. gone \in SUBSET In(g, Actions) /\ S \in SUBSET In(g, Actions) /\ S \cap C = {}
  BY DEF Accounted, In
<1>2. l \in Lims
  BY DEF Accounted
<1>3. /\ k1 \in Lims /\ k1.lanes = l.lanes /\ k1.order = l.order
      /\ k1.budget = l.budget /\ k1.everything = l.everything
      /\ \A X : Held(l.circuits, X) => Held(k1.circuits, X \ late)
  BY <1>2, AbandonFits
<1> HIDE DEF k1
<1>4. Accounted(k1, Q, C, E)
  BY <1>3, AccountedAlike
<1>5. k1.lanes[g] # None
  BY <1>3
<1> HIDE DEF gone, k2, P, B
<1>6. /\ Accounted(k2, P, C, E)
      /\ k2.lanes[g] # None /\ k2.lanes[g].inFlight = l.lanes[g].inFlight
      /\ k2.budget = l.budget /\ k2.everything = l.everything /\ k2.circuits = k1.circuits
  <2>1. k2 = Take(k1, g, gone)
    BY DEF k2
  <2>2. RemoveOutcome(k1, k2, Q, C, E, g, gone)
    BY <1>1, <1>4, <1>5, <2>1, RemoveFits
  <2>3. QED
    BY <1>3, <2>2 DEF P, RemoveOutcome
<1> HIDE DEF k3
<1>7. /\ Accounted(k3, P, B, E)
      /\ CoversMore(k2, k3, S)
      /\ k3.lanes[g] # None
      /\ k3.lanes[g].inFlight = k2.lanes[g].inFlight + Cardinality(S)
      /\ Len(k3.budget[g]) = Usage(k2.budget[g], BudgetWindowMs, now) + Cardinality(S)
      /\ Len(k3.everything) = Usage(k2.everything, GlobalWindowMs, now) + Cardinality(S)
      /\ \A h \in Guilds \ {g} : k3.budget[h] = k2.budget[h]
      /\ k3.circuits = k2.circuits
  <2>1. k3 = Execute(k2, g, Cardinality(S))
    BY DEF k3
  <2>2. QED
    <3>1. /\ Accounted(k2, P, C, E) /\ k2.lanes[g] # None /\ now \in Nat
          /\ S \in SUBSET In(g, Actions) /\ IsFiniteSet(S) /\ S \cap C = {}
      BY <1>1, <1>6
    <3>2. ExecuteOutcome(k2, k3, P, C, E, g, S)
      BY <2>1, <3>1, ExecuteFits
    <3>3. QED
      BY <3>2 DEF ExecuteOutcome, B
<1>8. /\ Accounted(k4, P, B, E)
      /\ k4.budget = k3.budget /\ k4.everything = k3.everything /\ k4.circuits = k3.circuits
  BY <1>7, DropIdleFits
<1> HIDE DEF k4
<1>9. CoversMore(l, k4, S)
  <2>1. \A sent : Covers(l, sent, now) => Covers(k2, sent, now)
    BY <1>6 DEF Covers
  <2>2. \A after : Covers(k3, after, now) => Covers(k4, after, now)
    BY <1>8 DEF Covers
  <2>3. QED
    BY <1>7, <2>1, <2>2 DEF CoversMore
<1>10. ASSUME Held(l.circuits, Q \cup C) PROVE Held(k4.circuits, P \cup C \cup S)
  <2>1. Held(k4.circuits, (Q \cup C) \ late)
    BY <1>3, <1>6, <1>7, <1>8, <1>10
  <2>2. (Q \cup C) \ late \subseteq P \cup C \cup S
    BY DEF P, gone
  <2>3. QED
    BY <2>1, <2>2, HeldMore
<1>11. l.lanes[g].inFlight + Cardinality(S) = Cardinality(In(g, B))
  <2>1. GuildFits(g, k3.lanes[g], Elements(k3.order), In(g, P), In(g, B), E)
    BY <1>7 DEF Accounted
  <2>2. QED
    BY <1>6, <1>7, <2>1 DEF GuildFits
<1>12. QED
  <2>1. Taken(l, g, late, S) = k4
    BY DEF Taken, k4, k3, k2, k1, gone
  <2>2. QED
    BY <1>6, <1>7, <1>8, <1>9, <1>10, <1>11, <2>1 DEF TakeOutcome, P, B, gone

\* One lane drained.
LEMMA DrainFits ==
    ASSUME NEW d, NEW Q, NEW C, NEW sent, Draining(d, Q, C, sent), Q \cap C = {},
           now \in Nat, NEW g \in Guilds
    PROVE  Draining(Drain(d, g), Q, C, sent)
<1>1. CASE d.lim.lanes[g] = None
  BY <1>1 DEF Drain
<1>2. CASE d.lim.lanes[g] # None
  <2> DEFINE l == d.lim
             late == Expired(l, g)
             S == Startable(l, g)
             k == Taken(l, g, late, S)
             W == Left(d, Q)
             B == C \cup d.starts
             e == Drain(d, g)
  <2>1. e = [lim |-> k, starts |-> d.starts \cup S, late |-> d.late \cup late]
    BY <1>2 DEF Drain, Take, Taken
  <2>2. /\ Accounted(l, W, B, expiresAt) /\ Covers(l, Sent(d.starts, sent), now)
        /\ Held(l.circuits, W \cup B) /\ W \cap B = {} /\ l.lanes[g] # None
        /\ \A a \in d.starts, b \in W : GuildOf[a] = GuildOf[b] => <<a, b>> \in Precedes(expiresAt)
        /\ Paced(l, d.starts, C)
    <3>1. W \cup B = Left(d, Q) \cup C \cup d.starts
      OBVIOUS
    <3>2. W \cap B = {}
      BY DEF Left
    <3>3. QED
      BY <1>2, <3>1, <3>2 DEF Draining
  <2> HIDE DEF l, W, B
  <2>3. /\ late \subseteq In(g, W) /\ S \subseteq In(g, W) \ late
        /\ IsFiniteSet(S) /\ Cardinality(S) \in Nat
        /\ \A a \in S, b \in In(g, W) \ (late \cup S) : <<a, b>> \in Precedes(expiresAt)
        /\ S # {} =>
            /\ l.lanes[g].inFlight + Cardinality(S) <= ConcurrencyPerGuild
            /\ Usage(l.budget[g], BudgetWindowMs, now) + Cardinality(S) <= BudgetMaxActions
            /\ Usage(l.everything, GlobalWindowMs, now) + Cardinality(S) <= GlobalMaxActions
    BY <2>2, StartableFits
  <2> HIDE DEF late, S
  <2>4. /\ Accounted(k, W \ (late \cup S), B \cup S, expiresAt)
        /\ CoversMore(l, k, S)
        /\ Held(l.circuits, W \cup B) => Held(k.circuits, (W \ (late \cup S)) \cup B \cup S)
        /\ l.lanes[g].inFlight + Cardinality(S) = Cardinality(In(g, B \cup S))
        /\ Len(k.budget[g]) = Usage(l.budget[g], BudgetWindowMs, now) + Cardinality(S)
        /\ Len(k.everything) = Usage(l.everything, GlobalWindowMs, now) + Cardinality(S)
        /\ \A h \in Guilds \ {g} : k.budget[h] = l.budget[h]
    <3>1. /\ late \in SUBSET In(g, W) /\ S \in SUBSET In(g, W) /\ S \cap late = {}
          /\ IsFiniteSet(S)
      BY <2>3
    <3>2. /\ Accounted(l, W, B, expiresAt) /\ W \cap B = {} /\ now \in Nat /\ g \in Guilds
          /\ l.lanes[g] # None
      BY <2>2
    <3>3. TakeOutcome(l, k, W, B, expiresAt, g, late, S)
      BY <3>1, <3>2, TakeFits
    <3>4. QED
      BY <3>3 DEF TakeOutcome
  <2> HIDE DEF k, e
  <2>5. e.lim = k /\ e.starts = d.starts \cup S /\ e.late = d.late \cup late
    BY <2>1
  <2>6. /\ In(g, W) \subseteq W /\ W \subseteq Actions /\ \A a \in In(g, W) : GuildOf[a] = g
        /\ W = Q \ (d.starts \cup d.late)
    BY <2>2 DEF In, Accounted, W, Left
  <2>7. /\ Left(e, Q) = W \ (late \cup S) /\ C \cup e.starts = B \cup S
        /\ Left(e, Q) \cup C \cup e.starts = (W \ (late \cup S)) \cup B \cup S
    BY <2>5, <2>6 DEF Left, B
  <2>8. e.starts \subseteq Q /\ e.late \subseteq Q /\ e.starts \cap e.late = {}
    BY <2>3, <2>5, <2>6 DEF Draining
  <2>9. Accounted(e.lim, Left(e, Q), C \cup e.starts, expiresAt)
        /\ Held(e.lim.circuits, Left(e, Q) \cup C \cup e.starts)
    BY <2>2, <2>4, <2>5, <2>7
  <2>10. Covers(e.lim, Sent(e.starts, sent), now)
    <3>1. \A a \in Actions : Sent(e.starts, sent)[a] = IF a \in S THEN now ELSE Sent(d.starts, sent)[a]
      BY <2>5 DEF Sent
    <3>2. QED
      BY <2>2, <2>4, <2>5, <3>1 DEF CoversMore
  <2>11. ASSUME NEW a \in e.starts, NEW b \in Left(e, Q), GuildOf[a] = GuildOf[b]
         PROVE  <<a, b>> \in Precedes(expiresAt)
    <3>1. b \in W /\ b \notin late \cup S
      BY <2>7
    <3>2. CASE a \in d.starts
      BY <2>2, <2>11, <3>1, <3>2
    <3>3. CASE a \in S
      <4>1. GuildOf[b] = g
        BY <2>3, <2>6, <2>11, <3>3
      <4>2. b \in In(g, W) \ (late \cup S)
        BY <3>1, <4>1 DEF In
      <4>3. QED
        BY <2>3, <3>3, <4>2
    <3>4. QED
      BY <2>5, <3>2, <3>3
  <2>12. Paced(e.lim, e.starts, C)
    <3> DEFINE n == Cardinality(S)
               u == Usage(l.budget[g], BudgetWindowMs, now)
               v == Usage(l.everything, GlobalWindowMs, now)
    <3>1. /\ u \in Nat /\ u <= Len(l.budget[g]) /\ Len(l.budget[g]) \in Nat
          /\ v \in Nat /\ v <= Len(l.everything) /\ Len(l.everything) \in Nat
      <4> DEFINE x == l.budget[g]
                 y == l.everything
      <4>1. x \in Seq(Nat) /\ y \in Seq(Nat)
        BY <2>2 DEF Accounted, Lims
      <4>2. now \in Int /\ BudgetWindowMs \in Int /\ GlobalWindowMs \in Int
        BY Parameters
      <4> HIDE DEF x, y
      <4>3. /\ Len(Trim(x, BudgetWindowMs, now)) \in Nat /\ Len(Trim(x, BudgetWindowMs, now)) <= Len(x)
            /\ Len(Trim(y, GlobalWindowMs, now)) \in Nat /\ Len(Trim(y, GlobalWindowMs, now)) <= Len(y)
            /\ Len(x) \in Nat /\ Len(y) \in Nat
        BY <4>1, <4>2, TrimCovers
      <4>4. QED
        BY <4>3 DEF x, y, Usage
    <3>2. S = {} => n = 0
      BY FS_EmptySet
    <3>3. n \in Nat
      BY <2>3
    <3> HIDE DEF n, u, v
    <3>4. Len(k.everything) = v + n /\ Len(k.budget[g]) = u + n
          /\ (S # {} => v + n <= GlobalMaxActions /\ u + n <= BudgetMaxActions
                        /\ Cardinality(In(g, B \cup S)) <= ConcurrencyPerGuild)
      BY <2>3, <2>4 DEF u, v, n
    <3>5. ASSUME e.starts # {} PROVE Len(k.everything) <= GlobalMaxActions
      <4>1. CASE S # {}
        BY <3>4, <4>1
      <4>2. CASE S = {}
        <5>1. Len(l.everything) <= GlobalMaxActions
          BY <2>2, <2>5, <3>5, <4>2 DEF Paced
        <5>2. QED
          BY <3>1, <3>2, <3>4, <4>2, <5>1, Parameters
      <4>3. QED
        BY <4>1, <4>2
    <3>6. ASSUME NEW a \in e.starts
          PROVE  /\ Len(k.budget[GuildOf[a]]) <= BudgetMaxActions
                 /\ Cardinality(In(GuildOf[a], C \cup e.starts)) <= ConcurrencyPerGuild
      <4> DEFINE h == GuildOf[a]
      <4>1. h \in Guilds
        BY <2>5, <2>8, <2>9, Parameters DEF Accounted
      <4>2. CASE h = g /\ S # {}
        BY <2>7, <3>4, <4>2
      <4>3. CASE h # g \/ S = {}
        <5>1. a \in d.starts
          BY <2>3, <2>5, <2>6, <3>6, <4>3
        <5>2. Len(l.budget[h]) <= BudgetMaxActions /\ Cardinality(In(h, B)) <= ConcurrencyPerGuild
          BY <2>2, <5>1 DEF Paced, B
        <5>3. In(h, C \cup e.starts) = In(h, B)
          BY <2>3, <2>6, <2>7, <4>3 DEF In
        <5>4. Len(k.budget[h]) <= BudgetMaxActions
          <6>1. CASE h # g
            BY <2>4, <4>1, <5>2, <6>1
          <6>2. CASE h = g
            <7>1. S = {} /\ n = 0
              BY <3>2, <4>3, <6>2
            <7>2. Len(l.budget[g]) <= BudgetMaxActions
              BY <5>2, <6>2
            <7>3. Len(k.budget[g]) <= BudgetMaxActions
              BY <3>1, <3>3, <3>4, <7>1, <7>2, Parameters
            <7>4. QED
              BY <6>2, <7>3
          <6>3. QED
            BY <6>1, <6>2
        <5>5. QED
          BY <5>2, <5>3, <5>4
      <4>4. QED
        BY <4>2, <4>3
    <3>7. QED
      BY <2>5, <3>5, <3>6 DEF Paced
  <2>13. QED
    BY <2>8, <2>9, <2>10, <2>11, <2>12 DEF Draining, e
<1>3. QED
  BY <1>1, <1>2

\* Drained(l, keys) by its recursion.
LEMMA DrainedRecursion ==
    ASSUME NEW l, NEW keys, Len(keys) \in Nat
    PROVE  \E f : /\ f[0] = Undrained(l)
                  /\ \A i \in 1..Len(keys) : f[i] = Drain(f[i - 1], keys[i])
                  /\ Drained(l, keys) = f[Len(keys)]
<1> DEFINE Step(f, i) == IF i = 0 THEN Undrained(l) ELSE Drain(f[i - 1], keys[i])
           Keeps(f, n) == f = [i \in 0..n |-> Step(f, i)]
           Bad == {n \in Nat : ~ \E f : Keeps(f, n)}
<1>1. Bad = {}
  <2>1. SUFFICES ASSUME Bad # {} PROVE FALSE
    OBVIOUS
  <2>2. PICK m \in Bad : \A k \in Bad : m <= k
    BY <2>1, LeastOf
  <2>3. m # 0
    <3>1. Keeps([i \in 0..0 |-> Undrained(l)], 0)
      OBVIOUS
    <3>2. QED
      BY <3>1
  <2>4. m - 1 \in Nat /\ m - 1 \notin Bad
    <3>1. m \in Nat
      OBVIOUS
    <3>2. m - 1 \in Nat
      BY <2>3, <3>1
    <3> HIDE DEF Bad
    <3>3. QED
      BY <2>2, <3>1, <3>2
  <2>5. PICK f : Keeps(f, m - 1)
    BY <2>4
  <2> DEFINE last == Drain(f[m - 1], keys[m])
             g == [i \in 0..m |-> IF i = m THEN last ELSE f[i]]
  <2>6. \A i \in 0..m : g[i] = IF i = 0 THEN Undrained(l) ELSE Drain(g[i - 1], keys[i])
    <3>1. \A i \in 0..(m - 1) : g[i] = f[i]
      BY <2>4
    <3>2. g[m] = last
      BY <2>4
    <3>3. TAKE i \in 0..m
    <3>4. CASE i = m
      BY <2>3, <2>4, <3>1, <3>2, <3>4
    <3>5. CASE i # m
      <4>1. i \in 0..(m - 1) /\ (i # 0 => i - 1 \in 0..(m - 1))
        BY <2>4, <3>5
      <4> HIDE DEF g
      <4>2. QED
        BY <2>5, <3>1, <4>1
    <3>6. QED
      BY <3>4, <3>5
  <2>7. Keeps(g, m)
    <3>1. g = [i \in 0..m |-> g[i]]
      OBVIOUS
    <3> HIDE DEF g
    <3>2. QED
      BY <2>6, <3>1
  <2>8. QED
    BY <2>7
<1>2. \E f : Keeps(f, Len(keys))
  BY <1>1
<1> DEFINE after == CHOOSE f : Keeps(f, Len(keys))
<1>3. Keeps(after, Len(keys))
  BY <1>2
<1>4. Drained(l, keys) = after[Len(keys)]
  BY DEF Drained
<1> HIDE DEF after
<1>5. \A i \in 0..Len(keys) : after[i] = Step(after, i)
  <2> HIDE DEF Step
  <2>1. QED
    BY <1>3
<1>6. after[0] = Undrained(l)
  BY <1>5
<1>7. ASSUME NEW i \in 1..Len(keys) PROVE after[i] = Drain(after[i - 1], keys[i])
  <2>1. i \in 0..Len(keys) /\ i # 0
    OBVIOUS
  <2>2. QED
    BY <1>5, <2>1
<1>8. QED
  BY <1>4, <1>6, <1>7

\* Nothing drained yet.
LEMMA UndrainedFits ==
    ASSUME NEW l, NEW Q, NEW C, NEW sent, Accounted(l, Q, C, expiresAt),
           \E s : Covers(l, s, now) /\ \A a \in Actions : s[a] = sent[a],
           Held(l.circuits, Q \cup C)
    PROVE  Draining(Undrained(l), Q, C, sent)
<1> DEFINE d == Undrained(l)
<1>1. d.lim = l /\ d.starts = {} /\ d.late = {}
  BY DEF Undrained
<1> HIDE DEF d
<1>2. Left(d, Q) = Q /\ C \cup d.starts = C /\ Left(d, Q) \cup C \cup d.starts = Q \cup C
  BY <1>1 DEF Left
<1>3. Covers(l, Sent({}, sent), now)
  <2>1. PICK s : Covers(l, s, now) /\ \A a \in Actions : s[a] = sent[a]
    OBVIOUS
  <2> DEFINE t == Sent({}, sent)
  <2>2. \A a \in Actions : t[a] = s[a]
    BY <2>1 DEF Sent
  <2> HIDE DEF t
  <2>3. Covered(l.everything, Actions, t, now - GlobalWindowMs)
    BY <2>1, <2>2, CoveredElsewhere DEF Covers
  <2>4. ASSUME NEW g \in Guilds PROVE Covered(l.budget[g], In(g, Actions), t, now - BudgetWindowMs)
    <3>1. Covered(l.budget[g], In(g, Actions), s, now - BudgetWindowMs)
      BY <2>1 DEF Covers
    <3>2. \A a \in In(g, Actions) : t[a] = s[a]
      BY <2>2 DEF In
    <3>3. QED
      BY <3>1, <3>2, CoveredElsewhere
  <2>5. QED
    BY <2>3, <2>4 DEF Covers, t
<1>4. Paced(d.lim, d.starts, C)
  BY <1>1 DEF Paced
<1>5. QED
  BY <1>1, <1>2, <1>3, <1>4 DEF Draining, d

\* Every lane drained, in whatever order they are listed (drainAll).
LEMMA DrainedFits ==
    ASSUME NEW l, NEW keys \in Seq(Guilds), NEW Q, NEW C, NEW sent,
           Draining(Undrained(l), Q, C, sent), Q \cap C = {}, now \in Nat
    PROVE  Draining(Drained(l, keys), Q, C, sent)
<1>1. PICK f : /\ f[0] = Undrained(l)
               /\ \A i \in 1..Len(keys) : f[i] = Drain(f[i - 1], keys[i])
               /\ Drained(l, keys) = f[Len(keys)]
  BY DrainedRecursion
<1> DEFINE Bad == {n \in Nat : n <= Len(keys) /\ ~ Draining(f[n], Q, C, sent)}
<1>2. Bad = {}
  <2>1. SUFFICES ASSUME Bad # {} PROVE FALSE
    OBVIOUS
  <2>2. PICK m \in Bad : \A k \in Bad : m <= k
    BY <2>1, LeastOf
  <2>3. m # 0 /\ m \in 0..Len(keys)
    BY <1>1
  <2>4. m - 1 \in 0..Len(keys) /\ m \in 1..Len(keys) /\ keys[m] \in Guilds
    BY <2>3
  <2>5. m - 1 \notin Bad
    <3> HIDE DEF Bad
    <3>1. QED
      BY <2>2, <2>3, <2>4
  <2>6. Draining(f[m - 1], Q, C, sent)
    BY <2>4, <2>5
  <2>7. Draining(Drain(f[m - 1], keys[m]), Q, C, sent)
    BY <2>4, <2>6, DrainFits
  <2>8. QED
    BY <1>1, <2>4, <2>7
<1>3. QED
  BY <1>1, <1>2

-----------------------------------------------------------------------------
(* The circuits. *)

\* An action that the breaker lets past holds the probe, if there is one.
LEMMA CircuitsAfterAllows ==
    ASSUME NEW cs \in [CircuitKeys -> Circuits \cup {None}], NEW a \in Actions, NEW X,
           Held(cs, X)
    PROVE  LET ds == AfterAllows(cs, CircuitOf[a], now)
           IN  ds \in [CircuitKeys -> Circuits \cup {None}] /\ Held(ds, X \cup {a})
<1> DEFINE k == CircuitOf[a]
           ds == AfterAllows(cs, k, now)
<1>1. k \in CircuitKeys /\ CircuitOf[a] = k
  BY Parameters
<1> HIDE DEF k
<1>2. CASE ~ (IsOpen(cs, k) /\ Allows(cs, k, now))
  <2>1. ds = cs
    BY <1>2 DEF AfterAllows
  <2>2. QED
    BY <2>1, HeldMore DEF k
<1>3. CASE IsOpen(cs, k) /\ Allows(cs, k, now)
  <2> DEFINE c == cs[k]
             d == [c EXCEPT !.probing = TRUE]
  <2>1. c \in Circuits
    BY <1>1, <1>3 DEF IsOpen
  <2> HIDE DEF c
  <2>2. d \in Circuits
    BY <2>1 DEF Circuits
  <2> HIDE DEF d
  <2>3. ds = [cs EXCEPT ![k] = d]
    BY <1>3 DEF AfterAllows, c, d
  <2>4. ds \in [CircuitKeys -> Circuits \cup {None}] /\ \A j \in CircuitKeys \ {k} : ds[j] = cs[j]
    BY <1>1, <2>2, <2>3
  <2>5. Held(ds, X \cup {a})
    BY <1>1, <2>4 DEF Held
  <2>6. QED
    BY <2>4, <2>5 DEF k
<1>4. QED
  BY <1>2, <1>3

\* A call that reports, well or badly, leaves its circuit without a probe.
LEMMA CircuitsAfterCall ==
    ASSUME NEW cs \in [CircuitKeys -> Circuits \cup {None}], NEW a \in Actions, NEW X,
           Held(cs, X \cup {a}), now \in Nat
    PROVE  /\ RecordSuccess(cs, CircuitOf[a]) \in [CircuitKeys -> Circuits \cup {None}]
           /\ Held(RecordSuccess(cs, CircuitOf[a]), X)
           /\ RecordFailure(cs, CircuitOf[a], now) \in [CircuitKeys -> Circuits \cup {None}]
           /\ Held(RecordFailure(cs, CircuitOf[a], now), X)
<1> DEFINE k == CircuitOf[a]
           ss == RecordSuccess(cs, k)
           fs == RecordFailure(cs, k, now)
<1>1. k \in CircuitKeys /\ CircuitOf[a] = k
  BY Parameters
<1> HIDE DEF k
<1>2. ss \in [CircuitKeys -> Circuits \cup {None}] /\ ss[k] = None
      /\ \A j \in CircuitKeys \ {k} : ss[j] = cs[j]
  BY <1>1 DEF RecordSuccess
<1>3. Held(ss, X)
  <2> HIDE DEF ss
  <2>1. QED
    BY <1>1, <1>2 DEF Held
<1>4. PICK c : c \in Circuits /\ c.probing = FALSE /\ fs = [cs EXCEPT ![k] = c]
  <2> DEFINE old == IF cs[k] = None THEN FirstTouch(now) ELSE cs[k]
             expired == now - old.windowStartedAt > CircuitWindowMs
             counted == IF expired THEN 1 ELSE old.failures + 1
             trips == counted >= FailureThreshold
             one == [failures |-> old.failures, windowStartedAt |-> old.windowStartedAt,
                     openedAt |-> now, probing |-> FALSE, lastTouchedAt |-> now]
             start == IF expired THEN now ELSE old.windowStartedAt
             opened == IF trips THEN now ELSE None
             two == [failures |-> counted, windowStartedAt |-> start,
                     openedAt |-> opened, probing |-> FALSE, lastTouchedAt |-> now]
  <2>1. old.failures \in Nat /\ old.windowStartedAt \in Nat
    <3>1. CASE cs[k] = None
      BY <3>1 DEF FirstTouch
    <3>2. CASE cs[k] # None
      <4>1. cs[k] \in Circuits
        BY <1>1, <3>2
      <4>2. QED
        BY <3>2, <4>1 DEF Circuits
    <3>3. QED
      BY <3>1, <3>2
  <2>2. fs = [cs EXCEPT ![k] = IF old.openedAt # None THEN one ELSE two]
    BY DEF RecordFailure
  <2> HIDE DEF old
  <2>3. counted \in Nat /\ start \in Nat /\ opened \in Nat \cup {None}
    BY <2>1
  <2> HIDE DEF counted, start, opened, expired, trips
  <2>4. one \in Circuits /\ one.probing = FALSE /\ two \in Circuits /\ two.probing = FALSE
    BY <2>1, <2>3 DEF Circuits
  <2> HIDE DEF one, two
  <2>5. QED
    BY <2>2, <2>4
<1> HIDE DEF fs
<1>5. fs \in [CircuitKeys -> Circuits \cup {None}] /\ fs[k] = c
      /\ \A j \in CircuitKeys \ {k} : fs[j] = cs[j]
  BY <1>1, <1>4
<1>6. Held(fs, X)
  BY <1>1, <1>4, <1>5 DEF Held
<1>7. QED
  BY <1>2, <1>3, <1>5, <1>6 DEF k, ss, fs

\* A sweep forgets circuits, and brings no probe out.
LEMMA CircuitsAfterSweep ==
    ASSUME NEW cs \in [CircuitKeys -> Circuits \cup {None}], NEW X, Held(cs, X)
    PROVE  /\ SweepCircuits(cs, now) \in [CircuitKeys -> Circuits \cup {None}]
           /\ Held(SweepCircuits(cs, now), X)
BY DEF SweepCircuits, Held

\* No circuits, no probes.
LEMMA NoCircuitsHeld ==
    ASSUME NEW X
    PROVE  NoCircuits \in [CircuitKeys -> Circuits \cup {None}] /\ Held(NoCircuits, X)
BY DEF NoCircuits, Held

-----------------------------------------------------------------------------
(* The invariant. *)

Queued == {a \in Actions : status[a] = "queued"}

Calling == {a \in Actions : status[a] = "calling"}

\* What may become of an action.
Statuses == Unsettled \cup {"short-circuited", "dropped", "timed-out", "executed", "failed"}

\* The types, those the module's type invariant leaves to the lanes besides.
Typed ==
    /\ lim \in Lims /\ status \in [Actions -> Statuses]
    /\ expiresAt \in [Actions -> Nat \cup {None}]
    /\ sentAt \in [Actions -> Nat \cup {None}]
    /\ stopped \in BOOLEAN /\ now \in Nat

\* The inductive invariant.
IInv ==
    /\ Typed
    /\ \A a \in Queued : expiresAt[a] \in Nat /\ expiresAt[a] <= now + QueueTimeoutMs
    /\ ~ stopped => Accounted(lim, Queued, Calling, expiresAt) /\ Covers(lim, sentAt, now)
    /\ stopped => Queued = {} /\ \A g \in Guilds : lim.lanes[g] = None
    /\ Held(lim.circuits, Queued \cup Calling)

\* An action joins the queue of its priority, as the last one of it.
LEMMA PushFits ==
    ASSUME NEW l, NEW Q, NEW C, NEW E, Accounted(l, Q, C, E), NEW a \in Actions \ Q,
           l.lanes[GuildOf[a]] # None, Depth(l.lanes[GuildOf[a]]) < QueueMaxPerGuild,
           NEW D, \A b \in Q : D[b] = E[b], \A b \in Q : D[b] <= D[a]
    PROVE  /\ Accounted(Push(l, a), Q \cup {a}, C, D)
           /\ Push(l, a).budget = l.budget /\ Push(l, a).everything = l.everything
           /\ Push(l, a).circuits = l.circuits
<1> DEFINE g == GuildOf[a]
           p == PriorityOf[a]
           W == In(g, Q)
           old == l.lanes[g]
           longer == Append(old.queues[p], a)
           lane == [old EXCEPT !.queues[p] = longer]
           k == Push(l, a)
<1>1. /\ a \in Actions /\ a \notin Q /\ g \in Guilds /\ p \in Priorities /\ g = GuildOf[a]
      /\ p = PriorityOf[a]
  BY Parameters
<1> HIDE DEF g, p
<1>2. Accounted(l, Q, C, D)
  BY AccountedElsewhere
<1>3. l \in Lims /\ Q \in SUBSET Actions /\ C \in SUBSET Actions
      /\ GuildFits(g, old, Elements(l.order), W, In(g, C), D) /\ old # None
  BY <1>1, <1>2 DEF Accounted
<1>4. LaneFits(old, W, D) /\ old \in Lanes /\ W \in SUBSET Actions
  BY <1>3 DEF GuildFits, LaneFits, In
<1>5. k = [l EXCEPT !.lanes[g] = lane]
  <2>1. k = [l EXCEPT !.lanes[g].queues[p] = Append(@, a)]
    BY DEF Push, g, p
  <2>2. QED
    BY <1>3, <2>1 DEF Lims
<1> HIDE DEF W, old, longer
<1>6. Lined(old.queues[p], Rank(W, p), D)
  BY <1>1, <1>4 DEF LaneFits
<1>7. Lined(longer, Rank(W \cup {a}, p), D)
  <2>1. ASSUME NEW b \in Rank(W, p) PROVE <<b, a>> \in Precedes(D)
    <3>1. b \in Q /\ PriorityOf[b] = p /\ b \in Actions
      BY <1>3 DEF Rank, In, W
    <3>2. b # a /\ D[b] <= D[a]
      BY <1>1, <3>1
    <3>3. QED
      BY <1>1, <3>1, <3>2, PrecedesMeans
  <2>2. Rank(W \cup {a}, p) = Rank(W, p) \cup {a}
    BY <1>1 DEF Rank
  <2>3. QED
    <3> DEFINE s == old.queues[p]
               R == Rank(W, p)
    <3>1. Lined(s, R, D) /\ \A b \in R : <<b, a>> \in Precedes(D)
      BY <1>6, <2>1
    <3> HIDE DEF s, R
    <3>2. Lined(Append(s, a), R \cup {a}, D)
      BY <1>1, <3>1, AppendLined
    <3>3. QED
      BY <2>2, <3>2 DEF longer, s, R
<1>8. longer \in Seq(Actions)
  BY <1>7 DEF Lined
<1>9. /\ lane \in Lanes /\ lane.inFlight = old.inFlight /\ lane.queues[p] = longer
      /\ \A q \in Priorities \ {p} : lane.queues[q] = old.queues[q]
  BY <1>1, <1>4, <1>8 DEF Lanes
<1> HIDE DEF lane, k
<1>10. LaneFits(lane, W \cup {a}, D)
  <2>1. ASSUME NEW q \in Priorities PROVE Lined(lane.queues[q], Rank(W \cup {a}, q), D)
    <3>1. CASE q = p
      BY <1>7, <1>9, <3>1
    <3>2. CASE q # p
      <4>1. Rank(W \cup {a}, q) = Rank(W, q)
        BY <1>1, <3>2 DEF Rank
      <4>2. Lined(old.queues[q], Rank(W, q), D)
        BY <1>4 DEF LaneFits
      <4>3. QED
        BY <1>9, <3>2, <4>1, <4>2
    <3>3. QED
      BY <3>1, <3>2
  <2>2. QED
    BY <1>9, <2>1 DEF LaneFits
<1>11. lane # None /\ Depth(lane) <= QueueMaxPerGuild
  <2>1. IsFiniteSet(W) /\ Depth(old) = Cardinality(W) /\ Depth(old) \in Nat
    BY <1>4, DepthIsSize
  <2>2. W \cup {a} \in SUBSET Actions /\ a \notin W
    BY <1>1, <1>4 DEF W, In
  <2>3. Depth(lane) = Cardinality(W \cup {a})
    BY <1>10, <2>2, DepthIsSize
  <2>4. Cardinality(W \cup {a}) = Cardinality(W) + 1
    BY <2>1, <2>2, FS_AddElement
  <2>5. Depth(old) < QueueMaxPerGuild
    BY DEF old, g
  <2>6. QED
    BY <1>9, <2>1, <2>3, <2>4, <2>5, Parameters
<1>12. /\ k \in Lims /\ k.lanes = [l.lanes EXCEPT ![g] = lane] /\ k.order = l.order
       /\ k.budget = l.budget /\ k.everything = l.everything /\ k.circuits = l.circuits
  BY <1>3, <1>5, <1>9 DEF Lims
<1>13. Accounted(k, Q \cup {a}, C, D)
  <2> DEFINE P == Q \cup {a}
  <2>1. In(g, P) = W \cup {a}
    BY <1>1 DEF In, W
  <2>2. GuildFits(g, lane, Elements(k.order), In(g, P), In(g, C), D)
    BY <1>3, <1>9, <1>10, <1>11, <1>12, <2>1 DEF GuildFits
  <2>3. ASSUME NEW h \in Guilds
        PROVE  GuildFits(h, k.lanes[h], Elements(k.order), In(h, P), In(h, C), D)
    <3>1. CASE h = g
      <4>1. k.lanes[h] = lane
        BY <1>1, <1>3, <1>12, <3>1 DEF Lims
      <4>2. QED
        BY <2>2, <3>1, <4>1
    <3>2. CASE h # g
      <4>1. In(h, P) = In(h, Q)
        BY <1>1, <3>2 DEF In
      <4>2. k.lanes[h] = l.lanes[h] /\ k.order = l.order
        BY <1>3, <1>12, <3>2 DEF Lims
      <4>3. GuildFits(h, l.lanes[h], Elements(l.order), In(h, Q), In(h, C), D)
        BY <1>2 DEF Accounted
      <4>4. QED
        BY <4>1, <4>2, <4>3
    <3>3. QED
      BY <3>1, <3>2
  <2>4. P \subseteq Actions
    BY <1>1, <1>3
  <2>5. QED
    BY <1>3, <1>12, <2>3, <2>4 DEF Accounted
<1>14. QED
  BY <1>12, <1>13 DEF k

\* An action past the breaker, with its guild's lane in place.
LEMMA AdmitFits ==
    ASSUME IInv, ~ stopped, NEW a \in Actions, status[a] = "new"
    PROVE  /\ Accounted(Admitted(a), Queued, Calling, expiresAt)
           /\ Covers(Admitted(a), sentAt, now)
           /\ Admitted(a).lanes[GuildOf[a]] # None
           /\ Held(Admitted(a).circuits, Queued \cup Calling \cup {a})
           /\ a \notin Queued \cup Calling /\ Queued \cap Calling = {}
           /\ Admitted(a) \in Lims /\ GuildOf[a] \in Guilds
<1> DEFINE g == GuildOf[a]
           cs == lim.circuits
           ds == IF IsCritical(a) THEN cs ELSE AfterAllows(cs, CircuitOf[a], now)
           l == [lim EXCEPT !.circuits = ds]
           X == Queued \cup Calling
<1>1. /\ lim \in Lims /\ Accounted(lim, Queued, Calling, expiresAt) /\ Covers(lim, sentAt, now)
      /\ Held(cs, X) /\ cs \in [CircuitKeys -> Circuits \cup {None}]
  BY DEF IInv, Typed, Lims
<1>2. ds \in [CircuitKeys -> Circuits \cup {None}] /\ Held(ds, X \cup {a})
  <2>1. CASE IsCritical(a)
    BY <1>1, <2>1, HeldMore
  <2> HIDE DEF cs, X
  <2>2. CASE ~ IsCritical(a)
    <3>1. ds = AfterAllows(cs, CircuitOf[a], now)
      BY <2>2
    <3> HIDE DEF ds
    <3>2. QED
      BY <1>1, <3>1, CircuitsAfterAllows
  <2>3. QED
    BY <2>1, <2>2
<1>3. g \in Guilds
  BY Parameters
<1>4. Admitted(a) = LaneFor(l, g)
  BY DEF Admitted
<1> HIDE DEF ds, X
<1>5. /\ l \in Lims /\ l.lanes = lim.lanes /\ l.order = lim.order /\ l.budget = lim.budget
      /\ l.everything = lim.everything /\ l.circuits = ds
  BY <1>1, <1>2 DEF Lims
<1> HIDE DEF l, g
<1>6. Accounted(l, Queued, Calling, expiresAt) /\ Covers(l, sentAt, now)
  <2>1. Accounted(l, Queued, Calling, expiresAt)
    BY <1>1, <1>5, AccountedAlike
  <2>2. QED
    BY <1>1, <1>5, <2>1 DEF Covers
<1> DEFINE k == LaneFor(l, g)
<1>7. /\ Accounted(k, Queued, Calling, expiresAt) /\ k.lanes[g] # None
      /\ k.budget = l.budget /\ k.everything = l.everything /\ k.circuits = l.circuits
  BY <1>3, <1>6, LaneForFits
<1> HIDE DEF k
<1>8. Covers(k, sentAt, now)
  BY <1>6, <1>7 DEF Covers
<1>9. k \in Lims
  BY <1>7 DEF Accounted
<1>10. a \notin Queued \cup Calling /\ Queued \cap Calling = {}
  BY DEF Queued, Calling
<1>11. QED
  BY <1>2, <1>3, <1>4, <1>5, <1>7, <1>8, <1>9, <1>10 DEF k, g, X

-----------------------------------------------------------------------------
(* What the steps promise of what they start. *)

\* A step that starts calls as PacedStarts says.
PacedStep ==
    \A a \in Actions :
        ~ stopped /\ ~ IsCritical(a) /\ sentAt[a] # sentAt'[a] =>
            LET mine == {b \in Actions : GuildOf[b] = GuildOf[a]}
            IN  /\ SentSince(now - BudgetWindowMs, mine) <= BudgetMaxActions
                /\ SentSince(now - GlobalWindowMs, Actions) <= GlobalMaxActions
                /\ Cardinality({b \in mine : status'[b] = "calling"}) <= ConcurrencyPerGuild

\* A step that starts and drops as UrgentFirst says.
UrgentStep ==
    \A a, b \in Actions :
        GuildOf[a] = GuildOf[b] /\ status'[b] = "queued" /\ ~ stopped' =>
            /\ status[a] = "queued" /\ status'[a] = "calling" /\ status[b] = "queued" =>
                \/ PriorityOf[a] < PriorityOf[b]
                \/ PriorityOf[a] = PriorityOf[b] /\ expiresAt[a] <= expiresAt[b]
            /\ status[a] # "dropped" /\ status'[a] = "dropped" => PriorityOf[b] <= PriorityOf[a]

\* A start that keeps to the windows is paced.
LEMMA PacedOne ==
    ASSUME Covers(lim', sentAt', now), lim' \in Lims, NEW a \in Actions,
           Len(lim'.budget[GuildOf[a]]) <= BudgetMaxActions,
           Len(lim'.everything) <= GlobalMaxActions,
           Cardinality(In(GuildOf[a], Calling')) <= ConcurrencyPerGuild
    PROVE  LET mine == {b \in Actions : GuildOf[b] = GuildOf[a]}
           IN  /\ SentSince(now - BudgetWindowMs, mine) <= BudgetMaxActions
               /\ SentSince(now - GlobalWindowMs, Actions) <= GlobalMaxActions
               /\ Cardinality({b \in mine : status'[b] = "calling"}) <= ConcurrencyPerGuild
<1> DEFINE g == GuildOf[a]
           mine == {b \in Actions : GuildOf[b] = g}
           w == lim'.budget[g]
           v == lim'.everything
<1>1. g \in Guilds /\ mine = In(g, Actions)
  BY Parameters DEF In
<1>2. w \in Seq(Nat) /\ v \in Seq(Nat) /\ Len(w) \in Nat /\ Len(v) \in Nat
  <2>1. w \in Seq(Nat) /\ v \in Seq(Nat)
    BY <1>1 DEF Lims
  <2> HIDE DEF w, v
  <2>2. QED
    BY <2>1
<1>3. Covered(w, mine, sentAt', now - BudgetWindowMs) /\ Covered(v, Actions, sentAt', now - GlobalWindowMs)
  BY <1>1 DEF Covers
<1>4. Len(w) <= BudgetMaxActions /\ Len(v) <= GlobalMaxActions
  OBVIOUS
<1>5. {b \in mine : status'[b] = "calling"} = In(g, Calling')
  BY DEF In, Calling
<1>6. Cardinality({b \in mine : status'[b] = "calling"}) <= ConcurrencyPerGuild
  BY <1>5
<1> HIDE DEF w, v, mine, g
<1>7. /\ Cardinality(Recent(mine, sentAt', now - BudgetWindowMs)) \in Nat
      /\ Cardinality(Recent(mine, sentAt', now - BudgetWindowMs)) <= Len(w)
      /\ Cardinality(Recent(Actions, sentAt', now - GlobalWindowMs)) \in Nat
      /\ Cardinality(Recent(Actions, sentAt', now - GlobalWindowMs)) <= Len(v)
  BY <1>2, <1>3, CoveredCount
<1>8. /\ SentSince(now - BudgetWindowMs, mine) = Cardinality(Recent(mine, sentAt', now - BudgetWindowMs))
      /\ SentSince(now - GlobalWindowMs, Actions) = Cardinality(Recent(Actions, sentAt', now - GlobalWindowMs))
  BY DEF SentSince, Recent
<1>9. /\ SentSince(now - BudgetWindowMs, mine) <= BudgetMaxActions
      /\ SentSince(now - GlobalWindowMs, Actions) <= GlobalMaxActions
  BY <1>2, <1>4, <1>7, <1>8, Parameters
<1>10. QED
  BY <1>6, <1>9 DEF mine, g

\* What a drain comes to.
LEMMA BecomesFits ==
    ASSUME IInv, ~ stopped, NEW d, NEW settled, NEW C, Draining(d, Queued, C, sentAt),
           Becomes(d, settled), DOMAIN settled \subseteq Calling, C = Calling \ DOMAIN settled,
           \A a \in DOMAIN settled : settled[a] \in {"executed", "failed"},
           stopped' = stopped, now' = now
    PROVE  IInv' /\ PacedStep /\ UrgentStep
<1>1. /\ Typed /\ \A a \in Queued : expiresAt[a] \in Nat /\ expiresAt[a] <= now + QueueTimeoutMs
  BY DEF IInv
<1>2. /\ lim' = d.lim
      /\ status' = [a \in Actions |->
                    IF a \in d.starts THEN "calling"
                    ELSE IF a \in d.late THEN "timed-out"
                    ELSE IF a \in DOMAIN settled THEN settled[a] ELSE status[a]]
      /\ sentAt' = Sent(d.starts, sentAt)
      /\ expiresAt' = [a \in Actions |-> IF a \in d.starts \cup d.late THEN None ELSE expiresAt[a]]
  BY DEF Becomes, Sent
<1>3. /\ d.starts \subseteq Queued /\ d.late \subseteq Queued
      /\ Accounted(d.lim, Left(d, Queued), C \cup d.starts, expiresAt)
      /\ Covers(d.lim, Sent(d.starts, sentAt), now)
      /\ Held(d.lim.circuits, Left(d, Queued) \cup C \cup d.starts)
      /\ \A a \in d.starts, b \in Left(d, Queued) :
            GuildOf[a] = GuildOf[b] => <<a, b>> \in Precedes(expiresAt)
      /\ Paced(d.lim, d.starts, C)
  BY DEF Draining
<1>4. Queued' = Left(d, Queued)
  BY <1>2 DEF Queued, Calling, Left
<1>5. Calling' = C \cup d.starts
  BY <1>2, <1>3 DEF Queued, Calling
<1>6. Typed'
  <2>1. lim' \in Lims
    BY <1>2, <1>3 DEF Accounted
  <2>2. status' \in [Actions -> Statuses]
    BY <1>1, <1>2 DEF Typed, Statuses, Unsettled
  <2>3. expiresAt' \in [Actions -> Nat \cup {None}] /\ sentAt' \in [Actions -> Nat \cup {None}]
    BY <1>1, <1>2 DEF Typed, Sent
  <2>4. QED
    BY <1>1, <2>1, <2>2, <2>3 DEF Typed
<1>7. \A a \in Queued' : a \in Queued /\ a \in Actions /\ expiresAt'[a] = expiresAt[a]
  BY <1>2, <1>4 DEF Left, Queued
<1>8. Accounted(lim', Queued', Calling', expiresAt')
  <2>1. Accounted(lim', Queued', Calling', expiresAt)
    BY <1>2, <1>3, <1>4, <1>5
  <2>2. QED
    BY <1>7, <2>1, AccountedElsewhere
<1>9. Covers(lim', sentAt', now)
  BY <1>2, <1>3
<1>10. Held(lim'.circuits, Queued' \cup Calling')
  <2>1. Queued' \cup Calling' = Left(d, Queued) \cup C \cup d.starts
    BY <1>4, <1>5
  <2>2. QED
    BY <1>2, <1>3, <2>1
<1>11. IInv'
  <2>1. \A a \in Queued' : expiresAt'[a] \in Nat /\ expiresAt'[a] <= now' + QueueTimeoutMs
    BY <1>1, <1>7
  <2>2. Covers(lim', sentAt', now')
    BY <1>9
  <2>3. QED
    BY <1>6, <1>8, <1>10, <2>1, <2>2 DEF IInv
<1>12. PacedStep
  <2>1. SUFFICES ASSUME NEW a \in Actions, sentAt[a] # sentAt'[a]
                 PROVE  LET mine == {b \in Actions : GuildOf[b] = GuildOf[a]}
                        IN  /\ SentSince(now - BudgetWindowMs, mine) <= BudgetMaxActions
                            /\ SentSince(now - GlobalWindowMs, Actions) <= GlobalMaxActions
                            /\ Cardinality({b \in mine : status'[b] = "calling"})
                                    <= ConcurrencyPerGuild
    BY DEF PacedStep
  <2>2. a \in d.starts
    BY <1>2, <2>1 DEF Sent
  <2>3. /\ Len(lim'.budget[GuildOf[a]]) <= BudgetMaxActions
        /\ Len(lim'.everything) <= GlobalMaxActions
        /\ Cardinality(In(GuildOf[a], Calling')) <= ConcurrencyPerGuild
    BY <1>2, <1>3, <1>5, <2>2 DEF Paced
  <2>4. lim' \in Lims
    BY <1>6 DEF Typed
  <2>5. QED
    BY <1>9, <2>3, <2>4, PacedOne
<1>13. UrgentStep
  <2>1. ASSUME NEW a \in Actions, NEW b \in Actions, GuildOf[a] = GuildOf[b],
               status'[b] = "queued", status[a] = "queued", status'[a] = "calling"
        PROVE  \/ PriorityOf[a] < PriorityOf[b]
               \/ PriorityOf[a] = PriorityOf[b] /\ expiresAt[a] <= expiresAt[b]
    <3>1. a \in d.starts
      BY <1>2, <2>1 DEF Calling
    <3>2. b \in Left(d, Queued)
      BY <1>4, <2>1 DEF Queued
    <3>3. <<a, b>> \in Precedes(expiresAt)
      BY <1>3, <2>1, <3>1, <3>2
    <3>4. QED
      BY <3>3, PrecedesMeans
  <2>2. ASSUME NEW a \in Actions, status[a] # "dropped" PROVE status'[a] # "dropped"
    BY <1>2, <2>2
  <2>3. QED
    BY <2>1, <2>2 DEF UrgentStep
<1>14. QED
  BY <1>11, <1>12, <1>13

-----------------------------------------------------------------------------
(* run(). *)

\* An action that the breaker turns away changes nothing.
LEMMA ShortCircuitsStep ==
    ASSUME IInv, NEW a \in Actions, ShortCircuits(a)
    PROVE  IInv' /\ PacedStep /\ UrgentStep
<1>1. /\ ~ stopped /\ status[a] = "new" /\ status' = [status EXCEPT ![a] = "short-circuited"]
      /\ UNCHANGED <<lim, expiresAt, sentAt, stopped, now>>
  BY DEF ShortCircuits, Asked
<1>2. /\ Typed /\ \A b \in Queued : expiresAt[b] \in Nat /\ expiresAt[b] <= now + QueueTimeoutMs
      /\ Accounted(lim, Queued, Calling, expiresAt) /\ Covers(lim, sentAt, now)
      /\ Held(lim.circuits, Queued \cup Calling)
  BY <1>1 DEF IInv
<1>3. Typed'
  BY <1>1, <1>2 DEF Typed, Statuses, Unsettled
<1>4. Queued' = Queued /\ Calling' = Calling
  BY <1>1, <1>2 DEF Queued, Calling, Typed
<1>5. IInv'
  BY <1>1, <1>2, <1>3, <1>4 DEF IInv
<1>6. PacedStep
  BY <1>1 DEF PacedStep
<1>7. UrgentStep
  BY <1>1, <1>2 DEF UrgentStep, Typed
<1>8. QED
  BY <1>5, <1>6, <1>7

\* An action that is called at once: its guild has room, or it is critical.
LEMMA RunsNowStep ==
    ASSUME IInv, NEW a \in Actions, RunsNow(a)
    PROVE  IInv' /\ PacedStep /\ UrgentStep
<1> DEFINE g == GuildOf[a]
           l == Admitted(a)
           k == Execute(l, g, Cardinality({a}))
<1>1. /\ ~ stopped /\ status[a] = "new" /\ RunsAtOnce(a)
      /\ status' = [status EXCEPT ![a] = "calling"] /\ sentAt' = [sentAt EXCEPT ![a] = now]
      /\ UNCHANGED <<expiresAt, stopped, now>>
  BY DEF RunsNow, Asked
<1>2. /\ Typed /\ \A b \in Queued : expiresAt[b] \in Nat /\ expiresAt[b] <= now + QueueTimeoutMs
  BY DEF IInv
<1>3. /\ Accounted(l, Queued, Calling, expiresAt) /\ Covers(l, sentAt, now)
      /\ l.lanes[g] # None /\ Held(l.circuits, Queued \cup Calling \cup {a})
      /\ a \notin Queued \cup Calling /\ l \in Lims /\ g \in Guilds
  BY <1>1, AdmitFits
<1>4. Cardinality({a}) = 1 /\ IsFiniteSet({a})
  BY FS_Singleton
<1>5. lim' = k
  BY <1>4 DEF RunsNow
<1>6. {a} \in SUBSET In(g, Actions) /\ {a} \cap Calling = {} /\ now \in Nat
  BY <1>2, <1>3 DEF In, Typed
<1> HIDE DEF l
<1>7. /\ Accounted(k, Queued, Calling \cup {a}, expiresAt) /\ CoversMore(l, k, {a})
      /\ k.lanes[g].inFlight = l.lanes[g].inFlight + 1
      /\ Len(k.budget[g]) = Usage(l.budget[g], BudgetWindowMs, now) + 1
      /\ Len(k.everything) = Usage(l.everything, GlobalWindowMs, now) + 1
      /\ k.circuits = l.circuits /\ k.lanes[g] # None
  <2> DEFINE S == {a}
             m == Execute(l, g, Cardinality(S))
  <2>1. /\ S \in SUBSET In(g, Actions) /\ S \cap Calling = {} /\ IsFiniteSet(S) /\ now \in Nat
        /\ Cardinality(S) = 1
    BY <1>4, <1>6
  <2>2. m = k
    OBVIOUS
  <2> HIDE DEF S, g, k
  <2>3. ExecuteOutcome(l, m, Queued, Calling, expiresAt, g, S)
    BY <1>3, <2>1, ExecuteFits
  <2> HIDE DEF m
  <2>4. /\ Accounted(m, Queued, Calling \cup S, expiresAt) /\ CoversMore(l, m, S)
        /\ m.lanes[g].inFlight = l.lanes[g].inFlight + Cardinality(S)
        /\ Len(m.budget[g]) = Usage(l.budget[g], BudgetWindowMs, now) + Cardinality(S)
        /\ Len(m.everything) = Usage(l.everything, GlobalWindowMs, now) + Cardinality(S)
        /\ m.circuits = l.circuits /\ m.lanes[g] # None
    BY <2>3 DEF ExecuteOutcome
  <2>5. QED
    BY <2>1, <2>2, <2>4 DEF S
<1> HIDE DEF k
<1>8. Queued' = Queued /\ Calling' = Calling \cup {a}
  BY <1>1, <1>2, <1>3 DEF Queued, Calling, Typed
<1>9. Covers(k, sentAt', now)
  <2>1. \A b \in Actions : sentAt'[b] = IF b \in {a} THEN now ELSE sentAt[b]
    BY <1>1, <1>2 DEF Typed
  <2>2. QED
    BY <1>3, <1>7, <2>1 DEF CoversMore
<1>10. Typed'
  <2>1. lim' \in Lims
    BY <1>5, <1>7 DEF Accounted
  <2>2. QED
    BY <1>1, <1>2, <2>1 DEF Typed, Statuses, Unsettled
<1>11. IInv'
  <2>1. Held(lim'.circuits, Queued' \cup Calling')
    <3>1. Queued' \cup Calling' = Queued \cup Calling \cup {a}
      BY <1>8
    <3>2. QED
      BY <1>3, <1>5, <1>7, <3>1
  <2>2. QED
    BY <1>1, <1>2, <1>5, <1>7, <1>8, <1>9, <1>10, <2>1 DEF IInv
<1>12. PacedStep
  <2>1. SUFFICES ASSUME ~ IsCritical(a)
                 PROVE  LET mine == {b \in Actions : GuildOf[b] = GuildOf[a]}
                        IN  /\ SentSince(now - BudgetWindowMs, mine) <= BudgetMaxActions
                            /\ SentSince(now - GlobalWindowMs, Actions) <= GlobalMaxActions
                            /\ Cardinality({b \in mine : status'[b] = "calling"})
                                    <= ConcurrencyPerGuild
    <3>1. \A b \in Actions : sentAt[b] # sentAt'[b] => b = a
      BY <1>1, <1>2 DEF Typed
    <3>2. QED
      BY <3>1 DEF PacedStep
  <2> DEFINE u == Usage(l.budget[g], BudgetWindowMs, now)
             v == Usage(l.everything, GlobalWindowMs, now)
             i == l.lanes[g].inFlight
  <2>2. u \in Nat /\ v \in Nat /\ i \in Nat
    <3> DEFINE x == l.budget[g]
               y == l.everything
    <3>1. x \in Seq(Nat) /\ y \in Seq(Nat) /\ i \in Nat
      BY <1>3 DEF Lims, Lanes
    <3>2. now \in Int /\ BudgetWindowMs \in Int /\ GlobalWindowMs \in Int
      BY <1>6, Parameters
    <3> HIDE DEF x, y
    <3>3. Len(Trim(x, BudgetWindowMs, now)) \in Nat /\ Len(Trim(y, GlobalWindowMs, now)) \in Nat
      BY <3>1, <3>2, TrimCovers
    <3>4. QED
      BY <3>1, <3>3 DEF x, y, Usage
  <2>3. Room(l, g) = Least(ConcurrencyPerGuild - i, Least(BudgetMaxActions - u, GlobalMaxActions - v))
    BY DEF Room, Capacity
  <2>4. Room(l, g) > 0
    BY <1>1, <2>1 DEF RunsAtOnce, l
  <2> HIDE DEF u, v, i
  <2>5. i + 1 <= ConcurrencyPerGuild /\ u + 1 <= BudgetMaxActions /\ v + 1 <= GlobalMaxActions
    BY <2>2, <2>3, <2>4, Parameters DEF Least
  <2>6. Cardinality(In(g, Calling')) = i + 1
    <3>1. GuildFits(g, k.lanes[g], Elements(k.order), In(g, Queued), In(g, Calling \cup {a}), expiresAt)
      BY <1>3, <1>7 DEF Accounted
    <3>2. QED
      BY <1>7, <1>8, <3>1 DEF GuildFits, i
  <2>7. Len(k.budget[g]) = u + 1 /\ Len(k.everything) = v + 1
    BY <1>7 DEF u, v
  <2>8. /\ Len(lim'.budget[GuildOf[a]]) <= BudgetMaxActions
        /\ Len(lim'.everything) <= GlobalMaxActions
        /\ Cardinality(In(GuildOf[a], Calling')) <= ConcurrencyPerGuild
    BY <1>5, <2>5, <2>6, <2>7
  <2>9. lim' \in Lims /\ Covers(lim', sentAt', now)
    BY <1>5, <1>9, <1>10 DEF Typed
  <2>10. QED
    BY <2>8, <2>9, PacedOne
<1>13. UrgentStep
  BY <1>1, <1>2 DEF UrgentStep, Typed
<1>14. QED
  BY <1>11, <1>12, <1>13

\* An action asked for when nothing of its guild may start at once.
LEMMA WaitsIn ==
    ASSUME IInv, NEW a \in Actions, Asked(a)
    PROVE  /\ LaneFits(Admitted(a).lanes[GuildOf[a]], In(GuildOf[a], Queued), expiresAt)
           /\ Depth(Admitted(a).lanes[GuildOf[a]]) \in Nat
           /\ Depth(Admitted(a).lanes[GuildOf[a]]) <= QueueMaxPerGuild
           /\ \A b \in Queued : GuildOf[b] = GuildOf[a] /\ PriorityOf[b] > PriorityOf[a]
                                    => PriorityOf[b] \in LessUrgent(a)
<1> DEFINE g == GuildOf[a]
           lane == Admitted(a).lanes[g]
           W == In(g, Queued)
<1>1. Accounted(Admitted(a), Queued, Calling, expiresAt) /\ lane # None /\ g \in Guilds
  BY AdmitFits DEF Asked
<1>2. LaneFits(lane, W, expiresAt) /\ Depth(lane) <= QueueMaxPerGuild
  BY <1>1 DEF Accounted, GuildFits
<1>3. W \in SUBSET Actions
  BY DEF In, Queued
<1> HIDE DEF lane
<1>4. Depth(lane) \in Nat
  <2> HIDE DEF W
  <2>1. QED
    BY <1>2, <1>3, DepthIsSize
<1>5. ASSUME NEW b \in Queued, GuildOf[b] = g, PriorityOf[b] > PriorityOf[a]
      PROVE  PriorityOf[b] \in LessUrgent(a)
  <2> DEFINE p == PriorityOf[b]
             s == lane.queues[p]
  <2>1. p \in Priorities /\ b \in Rank(W, p)
    BY <1>3, <1>5, Parameters DEF Rank, In, Queued
  <2>2. Lined(s, Rank(W, p), expiresAt)
    BY <1>2, <2>1 DEF LaneFits
  <2> HIDE DEF s
  <2>3. s # <<>>
    BY <2>1, <2>2 DEF Lined, Elements
  <2>4. QED
    BY <1>5, <2>1, <2>3 DEF LessUrgent, s, lane
<1>6. QED
  BY <1>2, <1>4, <1>5 DEF lane

\* An action that waits goes behind those as urgent, who give up no later.
LEMMA EnqueuesStep ==
    ASSUME IInv, NEW a \in Actions, Enqueues(a)
    PROVE  IInv' /\ PacedStep /\ UrgentStep
<1> DEFINE l == Admitted(a)
           k == Push(l, a)
           D == expiresAt'
<1>1. /\ ~ stopped /\ status[a] = "new" /\ Asked(a) /\ ~ Full(a) /\ lim' = k
      /\ status' = [status EXCEPT ![a] = "queued"]
      /\ expiresAt' = [expiresAt EXCEPT ![a] = now + QueueTimeoutMs]
      /\ UNCHANGED <<sentAt, stopped, now>>
  BY DEF Enqueues, Asked
<1>2. /\ Typed /\ \A b \in Queued : expiresAt[b] \in Nat /\ expiresAt[b] <= now + QueueTimeoutMs
  BY DEF IInv
<1>3. /\ Accounted(l, Queued, Calling, expiresAt) /\ Covers(l, sentAt, now)
      /\ l.lanes[GuildOf[a]] # None /\ Held(l.circuits, Queued \cup Calling \cup {a})
      /\ a \notin Queued \cup Calling
  BY <1>1, AdmitFits
<1>4. Depth(l.lanes[GuildOf[a]]) < QueueMaxPerGuild
  BY <1>1, WaitsIn, Parameters DEF Full
<1>5. D[a] = now + QueueTimeoutMs /\ \A b \in Queued : D[b] = expiresAt[b]
  BY <1>1, <1>2, <1>3 DEF Typed, Queued
<1>6. /\ \A b \in Queued : D[b] <= D[a]
      /\ a \in Actions \ Queued
  BY <1>2, <1>3, <1>5
<1>7. now + QueueTimeoutMs \in Nat
  BY <1>2, Parameters DEF Typed
<1> HIDE DEF l, D
<1>8. /\ Accounted(k, Queued \cup {a}, Calling, D)
      /\ k.budget = l.budget /\ k.everything = l.everything /\ k.circuits = l.circuits
  BY <1>3, <1>4, <1>5, <1>6, PushFits
<1> HIDE DEF k
<1>9. Queued' = Queued \cup {a} /\ Calling' = Calling
  BY <1>1, <1>2, <1>3 DEF Queued, Calling, Typed
<1>10. Typed'
  <2>1. lim' \in Lims
    BY <1>1, <1>8 DEF Accounted
  <2>2. QED
    BY <1>1, <1>2, <1>7, <2>1 DEF Typed, Statuses, Unsettled
<1>11. IInv'
  <2>1. Held(lim'.circuits, Queued' \cup Calling')
    <3>1. Queued' \cup Calling' = Queued \cup Calling \cup {a}
      BY <1>9
    <3>2. QED
      BY <1>1, <1>3, <1>8, <3>1
  <2>2. \A b \in Queued' : expiresAt'[b] \in Nat /\ expiresAt'[b] <= now' + QueueTimeoutMs
    BY <1>1, <1>2, <1>5, <1>7, <1>9 DEF D
  <2>3. Covers(lim', sentAt', now')
    BY <1>1, <1>3, <1>8 DEF Covers
  <2>4. QED
    BY <1>1, <1>8, <1>9, <1>10, <2>1, <2>2, <2>3 DEF IInv, D
<1>12. PacedStep
  BY <1>1 DEF PacedStep
<1>13. UrgentStep
  BY <1>1, <1>2 DEF UrgentStep, Typed
<1>14. QED
  BY <1>11, <1>12, <1>13

\* The victim waits, is less urgent than the action and at least as little as
\* all of its guild.
LEMMA VictimIs ==
    ASSUME IInv, NEW a \in Actions, Asked(a), LessUrgent(a) # {}
    PROVE  /\ Victim(a) \in In(GuildOf[a], Queued)
           /\ PriorityOf[a] < PriorityOf[Victim(a)]
           /\ \A b \in In(GuildOf[a], Queued) : PriorityOf[b] <= PriorityOf[Victim(a)]
<1> DEFINE g == GuildOf[a]
           lane == Admitted(a).lanes[g]
           W == In(g, Queued)
           U == LessUrgent(a)
           p == CHOOSE q \in U : \A r \in U : r <= q
<1>1. U \subseteq 0..3
  BY DEF LessUrgent, Priorities, Critical, Low
<1>2. \E q \in U : \A r \in U : r <= q
  <2>1. CASE 3 \in U
    BY <1>1, <2>1
  <2>2. CASE 3 \notin U /\ 2 \in U
    BY <1>1, <2>2
  <2>3. CASE 3 \notin U /\ 2 \notin U /\ 1 \in U
    BY <1>1, <2>3
  <2>4. CASE 3 \notin U /\ 2 \notin U /\ 1 \notin U
    BY <1>1, <2>4
  <2>5. QED
    BY <2>1, <2>2, <2>3, <2>4
<1>3. p \in U /\ \A r \in U : r <= p
  BY <1>2
<1> HIDE DEF p
<1>4. p \in Priorities /\ p > PriorityOf[a] /\ lane.queues[p] # <<>>
  BY <1>3 DEF LessUrgent
<1>5. Victim(a) = Head(lane.queues[p])
  BY DEF Victim, p
<1>6. LaneFits(lane, W, expiresAt)
  BY WaitsIn
<1> HIDE DEF lane
<1>7. Victim(a) \in Rank(W, p)
  <2> DEFINE s == lane.queues[p]
  <2>1. Lined(s, Rank(W, p), expiresAt) /\ s # <<>>
    BY <1>4, <1>6 DEF LaneFits
  <2> HIDE DEF s
  <2>2. s \in Seq(Actions) /\ Elements(s) = Rank(W, p)
    BY <2>1 DEF Lined
  <2>3. 1 \in 1..Len(s) /\ Head(s) = s[1]
    BY <2>1, <2>2
  <2>4. Head(s) \in Elements(s)
    BY <2>3 DEF Elements
  <2>5. QED
    BY <1>5, <2>2, <2>4 DEF s
<1>8. Victim(a) \in W /\ PriorityOf[Victim(a)] = p
  BY <1>7 DEF Rank
<1>9. ASSUME NEW b \in W PROVE PriorityOf[b] <= p
  <2>1. b \in Queued /\ GuildOf[b] = g /\ b \in Actions
    BY DEF In, Queued
  <2>2. PriorityOf[b] \in 0..3 /\ PriorityOf[a] \in 0..3 /\ p \in 0..3
    BY <1>4, <2>1, Parameters DEF Priorities, Critical, Low
  <2>3. CASE PriorityOf[b] > PriorityOf[a]
    BY <1>3, <2>1, <2>3, WaitsIn
  <2>4. CASE ~ (PriorityOf[b] > PriorityOf[a])
    BY <1>4, <2>2, <2>4
  <2>5. QED
    BY <2>3, <2>4
<1>10. PriorityOf[a] \in Int
  BY Parameters DEF Priorities, Critical, Low
<1>11. QED
  BY <1>4, <1>8, <1>9, <1>10

\* An action that waits in the place of the oldest of its guild's least urgent.
LEMMA EvictsStep ==
    ASSUME IInv, NEW a \in Actions, EvictsAndEnqueues(a)
    PROVE  IInv' /\ PacedStep /\ UrgentStep
<1> DEFINE l == Admitted(a)
           g == GuildOf[a]
           v == Victim(a)
           k1 == Abandon(l, {v})
           k2 == Take(k1, g, {v})
           k == Push(k2, a)
           D == expiresAt'
           P == Queued \ {v}
<1>1. /\ ~ stopped /\ status[a] = "new" /\ Asked(a) /\ LessUrgent(a) # {}
      /\ status' = [status EXCEPT ![a] = "queued", ![v] = "dropped"]
      /\ expiresAt' = [expiresAt EXCEPT ![a] = now + QueueTimeoutMs, ![v] = None]
      /\ UNCHANGED <<sentAt, stopped, now>>
  BY DEF EvictsAndEnqueues, Asked
<1>2. lim' = k
  BY DEF EvictsAndEnqueues, Take
<1>3. /\ Typed /\ \A b \in Queued : expiresAt[b] \in Nat /\ expiresAt[b] <= now + QueueTimeoutMs
  BY DEF IInv
<1>4. /\ Accounted(l, Queued, Calling, expiresAt) /\ Covers(l, sentAt, now)
      /\ l.lanes[g] # None /\ Held(l.circuits, Queued \cup Calling \cup {a})
      /\ a \notin Queued \cup Calling /\ l \in Lims /\ g \in Guilds /\ Queued \cap Calling = {}
  BY <1>1, AdmitFits
<1>5. /\ v \in In(g, Queued) /\ PriorityOf[a] < PriorityOf[v]
      /\ \A b \in In(g, Queued) : PriorityOf[b] <= PriorityOf[v]
  BY <1>1, VictimIs
<1>6. LaneFits(l.lanes[g], In(g, Queued), expiresAt) /\ Depth(l.lanes[g]) <= QueueMaxPerGuild
      /\ Depth(l.lanes[g]) \in Nat
  BY <1>1, WaitsIn
<1> HIDE DEF l, v
<1>7. v \in Queued /\ v \in Actions /\ GuildOf[v] = g /\ v # a /\ v \notin Calling
  BY <1>4, <1>5 DEF In, Queued
<1> HIDE DEF g
<1>8. /\ k1 \in Lims /\ k1.lanes = l.lanes /\ k1.order = l.order
      /\ k1.budget = l.budget /\ k1.everything = l.everything
      /\ \A X : Held(l.circuits, X) => Held(k1.circuits, X \ {v})
  BY <1>4, AbandonFits
<1> HIDE DEF k1
<1>9. Accounted(k1, Queued, Calling, expiresAt) /\ k1.lanes[g] # None
  BY <1>4, <1>8, AccountedAlike
<1>10. /\ Accounted(k2, P, Calling, expiresAt)
       /\ k2.lanes[g] # None
       /\ k2.budget = k1.budget /\ k2.everything = k1.everything /\ k2.circuits = k1.circuits
  <2> DEFINE gone == {v}
  <2>1. gone \in SUBSET In(g, Actions) /\ P = Queued \ gone /\ k2 = Take(k1, g, gone)
    BY <1>7 DEF In
  <2> HIDE DEF gone, k2, P
  <2>2. RemoveOutcome(k1, k2, Queued, Calling, expiresAt, g, gone)
    BY <1>4, <1>9, <2>1, RemoveFits
  <2>3. QED
    BY <2>1, <2>2 DEF RemoveOutcome
<1> HIDE DEF k2
<1>11. Depth(k2.lanes[g]) < QueueMaxPerGuild
  <2>1. LaneFits(k2.lanes[g], In(g, P), expiresAt)
    BY <1>4, <1>10 DEF Accounted, GuildFits
  <2>2. In(g, P) = In(g, Queued) \ {v} /\ In(g, P) \in SUBSET Actions
        /\ In(g, Queued) \in SUBSET Actions
    BY DEF In, Queued
  <2>3. IsFiniteSet(In(g, Queued)) /\ Depth(l.lanes[g]) = Cardinality(In(g, Queued))
    BY <1>6, <2>2, DepthIsSize
  <2>4. Depth(k2.lanes[g]) = Cardinality(In(g, P)) /\ Depth(k2.lanes[g]) \in Nat
    <3> HIDE DEF P
    <3>1. QED
      BY <2>1, <2>2, DepthIsSize
  <2>5. Cardinality(In(g, Queued) \ {v}) = Cardinality(In(g, Queued)) - 1
    BY <1>5, <2>3, FS_RemoveElement
  <2>6. Depth(k2.lanes[g]) = Depth(l.lanes[g]) - 1
    BY <2>2, <2>3, <2>4, <2>5
  <2>7. QED
    BY <1>6, <2>6, Parameters
<1>12. D[a] = now + QueueTimeoutMs /\ \A b \in P : D[b] = expiresAt[b]
  BY <1>1, <1>3, <1>4, <1>7 DEF Typed, Queued
<1>13. /\ \A b \in P : D[b] <= D[a]
       /\ a \in Actions \ P
  BY <1>3, <1>4, <1>12
<1>14. now + QueueTimeoutMs \in Nat
  BY <1>3, Parameters DEF Typed
<1>15. k2.lanes[GuildOf[a]] # None /\ Depth(k2.lanes[GuildOf[a]]) < QueueMaxPerGuild
  BY <1>10, <1>11 DEF g
<1> HIDE DEF D, P
<1>16. /\ Accounted(k, P \cup {a}, Calling, D)
       /\ k.budget = k2.budget /\ k.everything = k2.everything /\ k.circuits = k2.circuits
  BY <1>10, <1>12, <1>13, <1>15, PushFits
<1> HIDE DEF k
<1>17. Queued' = P \cup {a} /\ Calling' = Calling
  BY <1>1, <1>3, <1>4, <1>7 DEF Queued, Calling, Typed, P
<1>18. Typed'
  <2>1. lim' \in Lims
    BY <1>2, <1>16 DEF Accounted
  <2>2. QED
    BY <1>1, <1>3, <1>14, <2>1 DEF Typed, Statuses, Unsettled
<1>19. IInv'
  <2>1. Held(lim'.circuits, Queued' \cup Calling')
    <3>1. Held(k1.circuits, (Queued \cup Calling \cup {a}) \ {v})
      BY <1>4, <1>8
    <3>2. (Queued \cup Calling \cup {a}) \ {v} \subseteq Queued' \cup Calling'
      BY <1>17 DEF P
    <3>3. Held(k1.circuits, Queued' \cup Calling')
      BY <3>1, <3>2, HeldMore
    <3>4. QED
      BY <1>2, <1>10, <1>16, <3>3
  <2>2. \A b \in Queued' : expiresAt'[b] \in Nat /\ expiresAt'[b] <= now' + QueueTimeoutMs
    <3>1. \A b \in P : b \in Queued
      BY DEF P
    <3>2. now' = now /\ expiresAt'[a] = now + QueueTimeoutMs
      BY <1>1, <1>12 DEF D
    <3>3. ASSUME NEW b \in P
          PROVE  expiresAt'[b] \in Nat /\ expiresAt'[b] <= now + QueueTimeoutMs
      <4>1. expiresAt'[b] = expiresAt[b]
        BY <1>12 DEF D
      <4>2. QED
        BY <1>3, <3>1, <4>1
    <3>4. now + QueueTimeoutMs <= now + QueueTimeoutMs
      BY <1>14
    <3>5. QED
      BY <1>14, <1>17, <3>2, <3>3, <3>4
  <2>3. Covers(lim', sentAt', now')
    BY <1>1, <1>2, <1>4, <1>8, <1>10, <1>16 DEF Covers
  <2>4. QED
    BY <1>1, <1>2, <1>16, <1>17, <1>18, <2>1, <2>2, <2>3 DEF IInv, D
<1>20. PacedStep
  BY <1>1 DEF PacedStep
<1>21. UrgentStep
  <2>1. ASSUME NEW x \in Actions, NEW b \in Actions, GuildOf[x] = GuildOf[b],
               status'[b] = "queued", status[x] # "dropped", status'[x] = "dropped"
        PROVE  PriorityOf[b] <= PriorityOf[x]
    <3>1. x = v
      BY <1>1, <1>3, <2>1 DEF Typed
    <3>2. b \in Queued' /\ GuildOf[b] = g
      BY <1>7, <2>1, <3>1 DEF Queued
    <3>3. CASE b = a
      <4>1. PriorityOf[a] \in Int /\ PriorityOf[v] \in Int
        BY <1>7, Parameters DEF Priorities, Critical, Low
      <4>2. QED
        BY <1>5, <3>1, <3>3, <4>1
    <3>4. CASE b # a
      <4>1. b \in In(g, Queued)
        BY <1>17, <3>2, <3>4 DEF In, P
      <4>2. QED
        BY <1>5, <3>1, <4>1
    <3>5. QED
      BY <3>3, <3>4
  <2>2. ASSUME NEW x \in Actions, status[x] = "queued" PROVE status'[x] # "calling"
    BY <1>1, <1>3, <2>2 DEF Typed
  <2>3. QED
    BY <2>1, <2>2 DEF UrgentStep
<1>22. QED
  BY <1>19, <1>20, <1>21

\* An action that finds only as urgent ones in a full queue gives its probe back.
LEMMA DropsStep ==
    ASSUME IInv, NEW a \in Actions, Drops(a)
    PROVE  IInv' /\ PacedStep /\ UrgentStep
<1> DEFINE l == Admitted(a)
           k == Abandon(l, {a})
<1>1. /\ ~ stopped /\ status[a] = "new" /\ Asked(a) /\ LessUrgent(a) = {} /\ lim' = k
      /\ status' = [status EXCEPT ![a] = "dropped"]
      /\ UNCHANGED <<expiresAt, sentAt, stopped, now>>
  BY DEF Drops, Asked
<1>2. /\ Typed /\ \A b \in Queued : expiresAt[b] \in Nat /\ expiresAt[b] <= now + QueueTimeoutMs
  BY DEF IInv
<1>3. /\ Accounted(l, Queued, Calling, expiresAt) /\ Covers(l, sentAt, now)
      /\ Held(l.circuits, Queued \cup Calling \cup {a})
      /\ a \notin Queued \cup Calling /\ l \in Lims
  BY <1>1, AdmitFits
<1> HIDE DEF l
<1>4. /\ k \in Lims /\ k.lanes = l.lanes /\ k.order = l.order
      /\ k.budget = l.budget /\ k.everything = l.everything
      /\ \A X : Held(l.circuits, X) => Held(k.circuits, X \ {a})
  BY <1>3, AbandonFits
<1> HIDE DEF k
<1>5. Accounted(k, Queued, Calling, expiresAt)
  BY <1>3, <1>4, AccountedAlike
<1>6. Queued' = Queued /\ Calling' = Calling
  BY <1>1, <1>2, <1>3 DEF Queued, Calling, Typed
<1>7. Typed'
  BY <1>1, <1>2, <1>4 DEF Typed, Statuses, Unsettled
<1>8. IInv'
  <2>1. Held(lim'.circuits, Queued' \cup Calling')
    <3>1. Held(k.circuits, (Queued \cup Calling \cup {a}) \ {a})
      BY <1>3, <1>4
    <3>2. (Queued \cup Calling \cup {a}) \ {a} \subseteq Queued \cup Calling
      OBVIOUS
    <3>3. QED
      BY <1>1, <1>6, <3>1, <3>2, HeldMore
  <2>2. Covers(lim', sentAt', now')
    BY <1>1, <1>3, <1>4 DEF Covers
  <2>3. QED
    BY <1>1, <1>2, <1>5, <1>6, <1>7, <2>1, <2>2 DEF IInv
<1>9. PacedStep
  BY <1>1 DEF PacedStep
<1>10. UrgentStep
  <2>1. ASSUME NEW x \in Actions, NEW b \in Actions, GuildOf[x] = GuildOf[b],
               status'[b] = "queued", status[x] # "dropped", status'[x] = "dropped"
        PROVE  PriorityOf[b] <= PriorityOf[x]
    <3>1. x = a
      BY <1>1, <1>2, <2>1 DEF Typed
    <3>2. b \in Queued
      BY <1>6, <2>1 DEF Queued
    <3>3. ~ (PriorityOf[b] > PriorityOf[a])
      BY <1>1, <2>1, <3>1, <3>2, WaitsIn
    <3>4. PriorityOf[a] \in Int /\ PriorityOf[b] \in Int
      BY Parameters DEF Priorities, Critical, Low
    <3>5. QED
      BY <3>1, <3>3, <3>4
  <2>2. ASSUME NEW x \in Actions, status[x] = "queued" PROVE status'[x] # "calling"
    BY <1>1, <1>2, <2>2 DEF Typed
  <2>3. QED
    BY <2>1, <2>2 DEF UrgentStep
<1>11. QED
  BY <1>8, <1>9, <1>10

-----------------------------------------------------------------------------
(* A call settles. *)

\* A call reports to its circuit, which it holds no longer.
LEMMA ReportedFits ==
    ASSUME IInv, NEW a \in Actions, status[a] = "calling", NEW result \in {"executed", "failed"}
    PROVE  LET l == Reported(a, result)
           IN  /\ l \in Lims /\ l.lanes = lim.lanes /\ l.order = lim.order
               /\ l.budget = lim.budget /\ l.everything = lim.everything
               /\ Held(l.circuits, Queued \cup (Calling \ {a}))
<1> DEFINE cs == lim.circuits
           ds == IF result = "executed" THEN RecordSuccess(cs, CircuitOf[a])
                 ELSE RecordFailure(cs, CircuitOf[a], now)
           l == Reported(a, result)
           X == Queued \cup (Calling \ {a})
<1>1. lim \in Lims /\ cs \in [CircuitKeys -> Circuits \cup {None}] /\ now \in Nat
  BY DEF IInv, Typed, Lims
<1>2. Held(cs, X \cup {a})
  <2>1. X \cup {a} = Queued \cup Calling
    BY DEF Calling
  <2>2. QED
    BY <2>1 DEF IInv
<1>3. l = [lim EXCEPT !.circuits = ds]
  BY <1>1 DEF Reported, Lims
<1>4. ds \in [CircuitKeys -> Circuits \cup {None}] /\ Held(ds, X)
  <2> HIDE DEF cs, X
  <2>1. /\ RecordSuccess(cs, CircuitOf[a]) \in [CircuitKeys -> Circuits \cup {None}]
        /\ Held(RecordSuccess(cs, CircuitOf[a]), X)
        /\ RecordFailure(cs, CircuitOf[a], now) \in [CircuitKeys -> Circuits \cup {None}]
        /\ Held(RecordFailure(cs, CircuitOf[a], now), X)
    BY <1>1, <1>2, CircuitsAfterCall
  <2>2. QED
    BY <2>1
<1> HIDE DEF ds, l
<1>5. /\ l \in Lims /\ l.lanes = lim.lanes /\ l.order = lim.order
      /\ l.budget = lim.budget /\ l.everything = lim.everything /\ l.circuits = ds
  BY <1>1, <1>3, <1>4 DEF Lims
<1>6. QED
  BY <1>4, <1>5 DEF l

\* One call less on its guild's lane.
LEMMA ReleasedFits ==
    ASSUME NEW l, NEW Q, NEW C, NEW E, Accounted(l, Q, C, E), NEW a \in C
    PROVE  /\ Accounted(Released(l, a), Q, C \ {a}, E)
           /\ Released(l, a).budget = l.budget /\ Released(l, a).everything = l.everything
           /\ Released(l, a).circuits = l.circuits
<1> DEFINE g == GuildOf[a]
           old == l.lanes[g]
           lane == [old EXCEPT !.inFlight = @ - 1]
           k == Released(l, a)
           B == C \ {a}
<1>1. /\ l \in Lims /\ a \in Actions /\ g \in Guilds /\ Q \in SUBSET Actions /\ C \in SUBSET Actions
  BY Parameters DEF Accounted
<1>2. GuildFits(g, old, Elements(l.order), In(g, Q), In(g, C), E) /\ a \in In(g, C)
  BY <1>1 DEF Accounted, In
<1>3. /\ old # None /\ LaneFits(old, In(g, Q), E) /\ Depth(old) <= QueueMaxPerGuild
      /\ IsFiniteSet(In(g, C)) /\ old.inFlight = Cardinality(In(g, C)) /\ g \in Elements(l.order)
  BY <1>2 DEF GuildFits
<1>4. In(g, B) = In(g, C) \ {a}
  BY DEF In
<1>5. /\ IsFiniteSet(In(g, B)) /\ Cardinality(In(g, B)) \in Nat
      /\ Cardinality(In(g, B)) = old.inFlight - 1
  <2> DEFINE Y == In(g, C)
  <2>1. IsFiniteSet(Y) /\ a \in Y
    BY <1>2, <1>3
  <2> HIDE DEF Y
  <2>2. IsFiniteSet(Y \ {a}) /\ Cardinality(Y \ {a}) = Cardinality(Y) - 1
        /\ Cardinality(Y \ {a}) \in Nat
    BY <2>1, FS_RemoveElement, FS_CardinalityType
  <2>3. QED
    BY <1>3, <1>4, <2>2 DEF Y
<1>6. k = [l EXCEPT !.lanes[g] = lane]
  <2>1. k = [l EXCEPT !.lanes[g].inFlight = @ - 1]
    BY <1>3 DEF Released
  <2>2. QED
    BY <1>1, <1>3, <2>1 DEF Lims
<1> HIDE DEF old
<1>7. /\ lane \in Lanes /\ lane.inFlight = Cardinality(In(g, B)) /\ lane.queues = old.queues
  BY <1>3, <1>5 DEF Lanes, LaneFits
<1>8. LaneFits(lane, In(g, Q), E) /\ Depth(lane) = Depth(old) /\ lane # None
  BY <1>3, <1>7, Parameters DEF LaneFits, Depth, Waiters
<1> HIDE DEF lane, k, g
<1>9. /\ k \in Lims /\ k.lanes = [l.lanes EXCEPT ![g] = lane] /\ k.order = l.order
      /\ k.budget = l.budget /\ k.everything = l.everything /\ k.circuits = l.circuits
  BY <1>1, <1>6, <1>7 DEF Lims
<1>10. GuildFits(g, lane, Elements(k.order), In(g, Q), In(g, B), E)
  BY <1>3, <1>5, <1>7, <1>8, <1>9 DEF GuildFits
<1>11. ASSUME NEW h \in Guilds
       PROVE  GuildFits(h, k.lanes[h], Elements(k.order), In(h, Q), In(h, B), E)
  <2>1. CASE h = g
    <3>1. k.lanes[h] = lane
      BY <1>1, <1>9, <2>1 DEF Lims
    <3>2. QED
      BY <1>10, <2>1, <3>1
  <2>2. CASE h # g
    <3>1. In(h, B) = In(h, C)
      BY <2>2 DEF In, g
    <3>2. k.lanes[h] = l.lanes[h] /\ k.order = l.order
      BY <1>1, <1>9, <2>2 DEF Lims
    <3>3. GuildFits(h, l.lanes[h], Elements(l.order), In(h, Q), In(h, C), E)
      BY DEF Accounted
    <3>4. QED
      BY <3>1, <3>2, <3>3
  <2>3. QED
    BY <2>1, <2>2
<1>12. Accounted(k, Q, B, E)
  <2>1. B \subseteq Actions
    BY <1>1
  <2>2. QED
    BY <1>1, <1>9, <1>11, <2>1 DEF Accounted
<1>13. QED
  BY <1>9, <1>12 DEF k

\* A call reports, its lane counts one less and is drained.
LEMMA SettlesStep ==
    ASSUME IInv, NEW a \in Actions, NEW result \in {"executed", "failed"}, Settles(a, result)
    PROVE  IInv' /\ PacedStep /\ UrgentStep
<1> DEFINE g == GuildOf[a]
           l == Reported(a, result)
           k == Released(l, a)
           d == Drain(Undrained(k), g)
           settled == [b \in {a} |-> result]
           C == Calling \ {a}
<1>1. status[a] = "calling" /\ Becomes(d, settled) /\ stopped' = stopped /\ now' = now
  BY DEF Settles
<1>2. /\ l \in Lims /\ l.lanes = lim.lanes /\ l.order = lim.order
      /\ l.budget = lim.budget /\ l.everything = lim.everything
      /\ Held(l.circuits, Queued \cup C)
  BY <1>1, ReportedFits
<1>3. /\ Typed /\ g \in Guilds /\ a \in Calling /\ DOMAIN settled = {a} /\ settled[a] = result
  BY <1>1, Parameters DEF IInv, Calling
<1> HIDE DEF l
<1>4. CASE ~ stopped
  <2>1. /\ Accounted(lim, Queued, Calling, expiresAt) /\ Covers(lim, sentAt, now)
        /\ Queued \cap Calling = {} /\ now \in Nat
    BY <1>3, <1>4 DEF IInv, Queued, Calling, Typed
  <2>2. Accounted(l, Queued, Calling, expiresAt)
    BY <1>2, <2>1, AccountedAlike
  <2>3. /\ Accounted(k, Queued, C, expiresAt) /\ k.budget = l.budget
        /\ k.everything = l.everything /\ k.circuits = l.circuits
    BY <1>3, <2>2, ReleasedFits
  <2> HIDE DEF k, C
  <2>4. Covers(k, sentAt, now) /\ Held(k.circuits, Queued \cup C)
    BY <1>2, <2>1, <2>3 DEF Covers
  <2>5. Draining(Undrained(k), Queued, C, sentAt)
    BY <2>3, <2>4, UndrainedFits
  <2>6. Queued \cap C = {}
    BY <2>1 DEF C
  <2>7. Draining(d, Queued, C, sentAt)
    BY <1>3, <2>1, <2>5, <2>6, DrainFits
  <2>8. DOMAIN settled \subseteq Calling /\ C = Calling \ DOMAIN settled
        /\ \A b \in DOMAIN settled : settled[b] \in {"executed", "failed"}
    BY <1>3 DEF C
  <2> HIDE DEF d, settled
  <2>9. QED
    BY <1>1, <1>4, <2>7, <2>8, BecomesFits
<1>5. CASE stopped
  <2>1. Queued = {} /\ \A h \in Guilds : lim.lanes[h] = None
    BY <1>5 DEF IInv
  <2>2. k = l
    BY <1>2, <1>3, <2>1 DEF Released
  <2>3. d = Undrained(l)
    BY <1>2, <1>3, <2>1, <2>2 DEF Drain, Undrained
  <2>4. d.lim = l /\ d.starts = {} /\ d.late = {}
    BY <2>3 DEF Undrained
  <2> HIDE DEF d, settled
  <2>5. /\ lim' = l
        /\ status' = [b \in Actions |-> IF b = a THEN result ELSE status[b]]
        /\ sentAt' = [b \in Actions |-> sentAt[b]] /\ expiresAt' = [b \in Actions |-> expiresAt[b]]
    BY <1>1, <1>3, <2>4 DEF Becomes
  <2>6. Queued' = {} /\ Calling' = C
    BY <2>1, <2>5 DEF Queued, Calling
  <2>7. Typed'
    BY <1>1, <1>2, <1>3, <2>5 DEF Typed, Statuses, Unsettled
  <2>8. Held(lim'.circuits, Queued' \cup Calling')
    BY <1>2, <2>1, <2>5, <2>6
  <2>9. IInv'
    BY <1>1, <1>2, <1>5, <2>1, <2>5, <2>6, <2>7, <2>8 DEF IInv
  <2>10. PacedStep /\ UrgentStep
    BY <1>1, <1>5 DEF PacedStep, UrgentStep
  <2>11. QED
    BY <2>9, <2>10
<1>6. QED
  BY <1>4, <1>5

-----------------------------------------------------------------------------
(* The timers. *)

\* A drain tick begins at the cursor, and ends with every lane drained.
LEMMA DrainTickStep ==
    ASSUME IInv, DrainTick
    PROVE  IInv' /\ PacedStep /\ UrgentStep
<1> DEFINE n == Len(lim.order)
           first == lim.cursor % n
           keys == SubSeq(lim.order, first + 1, n) \o SubSeq(lim.order, 1, first)
           l == [lim EXCEPT !.cursor = (first + 1) % n]
           d == Drained(l, keys)
<1>1. ~ stopped /\ lim.order # <<>> /\ Becomes(d, Nothing) /\ stopped' = stopped /\ now' = now
  BY DEF DrainTick
<1>2. /\ lim \in Lims /\ Accounted(lim, Queued, Calling, expiresAt) /\ Covers(lim, sentAt, now)
      /\ Held(lim.circuits, Queued \cup Calling)
      /\ Queued \cap Calling = {} /\ now \in Nat
  BY <1>1 DEF IInv, Queued, Calling, Typed
<1>3. n \in Nat \ {0} /\ lim.order \in Seq(Guilds) /\ lim.cursor \in Nat
  <2> DEFINE s == lim.order
  <2>1. s \in Seq(Guilds) /\ s # <<>> /\ lim.cursor \in Nat
    BY <1>1, <1>2 DEF Lims
  <2> HIDE DEF s
  <2>2. Len(s) \in Nat /\ Len(s) # 0
    BY <2>1
  <2>3. QED
    BY <2>1, <2>2 DEF s
<1>4. first \in 0..(n - 1) /\ (first + 1) % n \in Nat
  <2> HIDE DEF n
  <2>1. first \in 0..(n - 1)
    BY <1>3
  <2> HIDE DEF first
  <2>2. (first + 1) % n \in Nat
    BY <1>3, <2>1
  <2>3. QED
    BY <2>1, <2>2
<1>5. keys \in Seq(Guilds)
  <2> DEFINE s == lim.order
  <2>1. s \in Seq(Guilds) /\ n = Len(s)
    BY <1>3
  <2> HIDE DEF s, n, first
  <2>2. SubSeq(s, first + 1, n) \in Seq(Guilds)
    <3>1. \A i \in (first + 1)..n : s[i] \in Guilds
      BY <1>3, <1>4, <2>1
    <3>2. QED
      BY <1>3, <1>4, <2>1, <3>1, SubSeqProperties
  <2>3. SubSeq(s, 1, first) \in Seq(Guilds)
    <3>1. \A i \in 1..first : s[i] \in Guilds
      BY <1>3, <1>4, <2>1
    <3>2. QED
      BY <1>3, <1>4, <2>1, <3>1, SubSeqProperties
  <2>4. keys = SubSeq(s, first + 1, n) \o SubSeq(s, 1, first)
    BY DEF s
  <2> HIDE DEF keys
  <2>5. QED
    BY <2>2, <2>3, <2>4
<1>6. /\ l \in Lims /\ l.lanes = lim.lanes /\ l.order = lim.order
      /\ l.budget = lim.budget /\ l.everything = lim.everything /\ l.circuits = lim.circuits
  <2> HIDE DEF first, n
  <2>1. QED
    BY <1>2, <1>4 DEF Lims
<1> HIDE DEF l, keys
<1>7. Accounted(l, Queued, Calling, expiresAt)
  BY <1>2, <1>6, AccountedAlike
<1>8. Covers(l, sentAt, now) /\ Held(l.circuits, Queued \cup Calling)
  BY <1>2, <1>6 DEF Covers
<1>9. Draining(Undrained(l), Queued, Calling, sentAt)
  BY <1>7, <1>8, UndrainedFits
<1>10. Draining(d, Queued, Calling, sentAt)
  BY <1>2, <1>5, <1>9, DrainedFits
<1>11. DOMAIN Nothing = {}
  BY DEF Nothing
<1>12. DOMAIN Nothing \subseteq Calling /\ Calling = Calling \ DOMAIN Nothing
       /\ \A b \in DOMAIN Nothing : Nothing[b] \in {"executed", "failed"}
  BY <1>11
<1> HIDE DEF d
<1>13. QED
  BY <1>1, <1>10, <1>12, BecomesFits

\* A sweep of the circuits touches no lane.
LEMMA SweepTickStep ==
    ASSUME IInv, SweepTick
    PROVE  IInv' /\ PacedStep /\ UrgentStep
<1> DEFINE ds == SweepCircuits(lim.circuits, now)
<1>1. /\ ~ stopped /\ lim' = [lim EXCEPT !.circuits = ds]
      /\ UNCHANGED <<status, expiresAt, sentAt, stopped, now>>
  BY DEF SweepTick, IInv, Typed, Lims
<1>2. /\ Typed /\ \A b \in Queued : expiresAt[b] \in Nat /\ expiresAt[b] <= now + QueueTimeoutMs
      /\ Accounted(lim, Queued, Calling, expiresAt) /\ Covers(lim, sentAt, now)
      /\ Held(lim.circuits, Queued \cup Calling) /\ lim \in Lims
  BY <1>1 DEF IInv, Typed
<1>3. ds \in [CircuitKeys -> Circuits \cup {None}] /\ Held(ds, Queued \cup Calling)
  <2>1. lim.circuits \in [CircuitKeys -> Circuits \cup {None}]
    BY <1>2 DEF Lims
  <2>2. QED
    BY <1>2, <2>1, CircuitsAfterSweep
<1> HIDE DEF ds
<1>4. /\ lim' \in Lims /\ lim'.lanes = lim.lanes /\ lim'.order = lim.order
      /\ lim'.budget = lim.budget /\ lim'.everything = lim.everything /\ lim'.circuits = ds
  BY <1>1, <1>2, <1>3 DEF Lims
<1>5. Queued' = Queued /\ Calling' = Calling
  BY <1>1 DEF Queued, Calling
<1>6. Accounted(lim', Queued, Calling, expiresAt)
  BY <1>2, <1>4, AccountedAlike
<1>7. IInv'
  <2>1. Typed'
    BY <1>1, <1>2, <1>4 DEF Typed
  <2>2. Covers(lim', sentAt', now')
    BY <1>1, <1>2, <1>4 DEF Covers
  <2>3. QED
    BY <1>1, <1>2, <1>3, <1>4, <1>5, <1>6, <2>1, <2>2 DEF IInv
<1>8. PacedStep /\ UrgentStep
  BY <1>1 DEF PacedStep, UrgentStep
<1>9. QED
  BY <1>7, <1>8

\* Nobody waits and no lane is left once the limiter has stopped.
LEMMA StopStep ==
    ASSUME IInv, Stop
    PROVE  IInv' /\ PacedStep /\ UrgentStep
<1> DEFINE ls == [g \in Guilds |-> None]
           bs == [g \in Guilds |-> <<>>]
<1>1. /\ stopped' = TRUE
      /\ status' = [a \in Actions |-> IF a \in Queued THEN "dropped" ELSE status[a]]
      /\ lim' = [ lanes |-> ls, order |-> <<>>, cursor |-> lim.cursor, budget |-> bs,
                  everything |-> <<>>, circuits |-> NoCircuits ]
      /\ expiresAt' = [a \in Actions |-> None] /\ UNCHANGED <<sentAt, now>>
  BY DEF Stop, Abandoned, Queued
<1>2. Typed
  BY DEF IInv
<1>3. lim' \in Lims /\ lim'.circuits = NoCircuits /\ \A g \in Guilds : lim'.lanes[g] = None
  <2>1. /\ ls \in [Guilds -> Lanes \cup {None}] /\ bs \in [Guilds -> Seq(Nat)]
        /\ <<>> \in Seq(Guilds) /\ <<>> \in Seq(Nat) /\ lim.cursor \in Nat
        /\ NoCircuits \in [CircuitKeys -> Circuits \cup {None}]
    <3>1. <<>> \in Seq(Guilds) /\ <<>> \in Seq(Nat)
      OBVIOUS
    <3>2. ls \in [Guilds -> Lanes \cup {None}] /\ bs \in [Guilds -> Seq(Nat)]
      BY <3>1
    <3>3. lim.cursor \in Nat
      BY <1>2 DEF Typed, Lims
    <3>4. QED
      BY <3>1, <3>2, <3>3, NoCircuitsHeld
  <2>2. \A g \in Guilds : ls[g] = None
    OBVIOUS
  <2> HIDE DEF ls, bs
  <2>3. QED
    BY <1>1, <2>1, <2>2 DEF Lims
<1>4. Queued' = {}
  BY <1>1 DEF Queued
<1>5. Typed'
  BY <1>1, <1>2, <1>3 DEF Typed, Statuses, Unsettled
<1>6. IInv'
  BY <1>1, <1>3, <1>4, <1>5, NoCircuitsHeld DEF IInv
<1>7. PacedStep
  BY <1>1 DEF PacedStep
<1>8. UrgentStep
  BY <1>1 DEF UrgentStep
<1>9. QED
  BY <1>6, <1>7, <1>8

\* Time passes: waiters come closer to giving up, calls fall out of the windows.
LEMMA TickStep ==
    ASSUME IInv, Tick
    PROVE  IInv' /\ PacedStep /\ UrgentStep
<1>1. now' = now + 1 /\ UNCHANGED <<lim, status, expiresAt, sentAt, stopped>>
  BY DEF Tick
<1>2. /\ Typed /\ \A b \in Queued : expiresAt[b] \in Nat /\ expiresAt[b] <= now + QueueTimeoutMs
  BY DEF IInv
<1>3. now \in Nat /\ now' \in Nat /\ now' = now + 1
  BY <1>1, <1>2 DEF Typed
<1>4. Queued' = Queued /\ Calling' = Calling
  BY <1>1 DEF Queued, Calling
<1>5. Typed'
  BY <1>1, <1>2, <1>3 DEF Typed
<1>6. ASSUME ~ stopped PROVE Covers(lim, sentAt, now')
  <2>1. Covers(lim, sentAt, now) /\ \A a \in Actions : sentAt[a] \in Nat \cup {None}
    BY <1>2, <1>6 DEF IInv, Typed
  <2> DEFINE cut(windowMs) == now - windowMs
             later(windowMs) == now' - windowMs
  <2>2. /\ cut(BudgetWindowMs) \in Int /\ later(BudgetWindowMs) \in Int
        /\ cut(BudgetWindowMs) <= later(BudgetWindowMs)
        /\ cut(GlobalWindowMs) \in Int /\ later(GlobalWindowMs) \in Int
        /\ cut(GlobalWindowMs) <= later(GlobalWindowMs)
    BY <1>3, Parameters
  <2>3. Covered(lim.everything, Actions, sentAt, cut(GlobalWindowMs))
    BY <2>1 DEF Covers
  <2>4. \A g \in Guilds : Covered(lim.budget[g], In(g, Actions), sentAt, cut(BudgetWindowMs))
    BY <2>1 DEF Covers
  <2> HIDE DEF cut, later
  <2>5. Covered(lim.everything, Actions, sentAt, later(GlobalWindowMs))
    BY <2>1, <2>2, <2>3, CoveredLater
  <2>6. ASSUME NEW g \in Guilds
        PROVE  Covered(lim.budget[g], In(g, Actions), sentAt, later(BudgetWindowMs))
    <3> DEFINE A == In(g, Actions)
    <3>1. Covered(lim.budget[g], A, sentAt, cut(BudgetWindowMs))
          /\ \A a \in A : sentAt[a] \in Nat \cup {None}
      BY <2>1, <2>4 DEF In
    <3> HIDE DEF A
    <3>2. Covered(lim.budget[g], A, sentAt, later(BudgetWindowMs))
      BY <2>2, <3>1, CoveredLater
    <3>3. QED
      BY <3>2 DEF A
  <2>7. QED
    BY <2>5, <2>6 DEF Covers, later
<1>7. \A b \in Queued : expiresAt[b] \in Nat /\ expiresAt[b] <= now' + QueueTimeoutMs
  BY <1>2, <1>3, Parameters
<1>8. IInv'
  BY <1>1, <1>4, <1>5, <1>6, <1>7 DEF IInv
<1>9. PacedStep /\ UrgentStep
  BY <1>1 DEF PacedStep, UrgentStep
<1>10. QED
  BY <1>8, <1>9

-----------------------------------------------------------------------------
(* The theorems. *)

\* The invariant holds to begin with.
LEMMA InitInvariant == Init => IInv
<1> SUFFICES ASSUME Init PROVE IInv
  OBVIOUS
<1> DEFINE ls == [g \in Guilds |-> None]
           bs == [g \in Guilds |-> <<>>]
<1>1. /\ lim = [ lanes |-> ls, order |-> <<>>, cursor |-> 0, budget |-> bs,
                 everything |-> <<>>, circuits |-> NoCircuits ]
      /\ status = [a \in Actions |-> "new"] /\ expiresAt = [a \in Actions |-> None]
      /\ sentAt = [a \in Actions |-> None] /\ stopped = FALSE /\ now = 0
  BY DEF Init
<1>2. /\ lim \in Lims /\ lim.lanes = ls /\ lim.order = <<>> /\ lim.budget = bs
      /\ lim.everything = <<>> /\ lim.circuits = NoCircuits
  <2>1. <<>> \in Seq(Guilds) /\ <<>> \in Seq(Nat)
    OBVIOUS
  <2>2. ls \in [Guilds -> Lanes \cup {None}] /\ bs \in [Guilds -> Seq(Nat)]
    BY <2>1
  <2> HIDE DEF ls, bs
  <2>3. QED
    BY <1>1, <2>1, <2>2, NoCircuitsHeld DEF Lims
<1>3. Queued = {} /\ Calling = {}
  BY <1>1 DEF Queued, Calling
<1>4. Typed
  BY <1>1, <1>2 DEF Typed, Statuses, Unsettled
<1>5. Accounted(lim, {}, {}, expiresAt)
  <2>1. Elements(lim.order) = {}
    BY <1>2 DEF Elements
  <2>2. \A g \in Guilds : In(g, {}) = {} /\ lim.lanes[g] = None
    BY <1>2 DEF In
  <2>3. QED
    BY <1>2, <2>1, <2>2 DEF Accounted, GuildFits
<1>6. ASSUME NEW A \in SUBSET Actions, NEW cutoff PROVE Covered(<<>>, A, sentAt, cutoff)
  <2>1. Recent(A, sentAt, cutoff) = {}
    BY <1>1 DEF Recent
  <2>2. [a \in {} |-> 1] \in [{} -> 1..Len(<<>>)]
    OBVIOUS
  <2>3. QED
    BY <2>1, <2>2 DEF Covered
<1>7. Covers(lim, sentAt, now)
  <2>1. \A g \in Guilds : lim.budget[g] = <<>> /\ In(g, Actions) \in SUBSET Actions
    BY <1>2 DEF In
  <2>2. QED
    BY <1>2, <1>6, <2>1 DEF Covers
<1>8. QED
  BY <1>1, <1>2, <1>3, <1>4, <1>5, <1>7, NoCircuitsHeld DEF IInv

\* Every step keeps the invariant, paces what it starts and starts it in order.
LEMMA NextStep == IInv /\ Next => IInv' /\ PacedStep /\ UrgentStep
<1> SUFFICES ASSUME IInv, Next PROVE IInv' /\ PacedStep /\ UrgentStep
  OBVIOUS
<1>1. ASSUME NEW a \in Actions, Run(a) PROVE IInv' /\ PacedStep /\ UrgentStep
  <2>1. CASE ShortCircuits(a)
    BY <2>1, ShortCircuitsStep
  <2>2. CASE RunsNow(a)
    BY <2>2, RunsNowStep
  <2>3. CASE Enqueues(a)
    BY <2>3, EnqueuesStep
  <2>4. CASE EvictsAndEnqueues(a)
    BY <2>4, EvictsStep
  <2>5. CASE Drops(a)
    BY <2>5, DropsStep
  <2>6. QED
    BY <1>1, <2>1, <2>2, <2>3, <2>4, <2>5 DEF Run
<1>2. ASSUME NEW a \in Actions, NEW result \in {"executed", "failed"}, Settles(a, result)
      PROVE  IInv' /\ PacedStep /\ UrgentStep
  BY <1>2, SettlesStep
<1>3. CASE DrainTick
  BY <1>3, DrainTickStep
<1>4. CASE SweepTick
  BY <1>4, SweepTickStep
<1>5. CASE Stop
  BY <1>5, StopStep
<1>6. CASE Tick
  BY <1>6, TickStep
<1>7. QED
  BY <1>1, <1>2, <1>3, <1>4, <1>5, <1>6 DEF Next

\* The lanes, the windows and the circuits are what the promises say, in every
\* reachable state of any number of guilds and actions.
THEOREM Invariance == Spec => []IInv
<1>1. IInv /\ [Next]_vars => IInv'
  <2>1. ASSUME IInv, UNCHANGED vars PROVE IInv'
    BY <2>1 DEF IInv, Typed, Queued, Calling, vars
  <2>2. QED
    BY <2>1, NextStep
<1>2. QED
  BY <1>1, InitInvariant, PTL DEF Spec

\* No drain, and no mix of fresh calls, evictions, completions and drain ticks,
\* drops a lane in use, loses a waiter or counts a call twice, whatever the
\* number of guilds and actions, the budgets and the limits of the lanes
\* (outbound.limiter.ts:227-247, 335).
THEOREM LanesAreExact == Spec => []LaneAccounting
<1>1. IInv => LaneAccounting
  <2> SUFFICES ASSUME IInv PROVE LaneAccounting
    OBVIOUS
  <2>1. TypeOK
    BY DEF IInv, Typed, Lims, Statuses, TypeOK
  <2>2. ASSUME ~ stopped, NEW g \in Guilds
        PROVE  LET lane == lim.lanes[g]
               IN  /\ g \in ToSet(lim.order) <=> lane # None
                   /\ lane = None => Of(g, "calling") = {} /\ Of(g, "queued") = {}
                   /\ lane # None =>
                        /\ lane.inFlight = Cardinality(Of(g, "calling"))
                        /\ Depth(lane) = Cardinality(Of(g, "queued"))
                        /\ Depth(lane) <= QueueMaxPerGuild
                        /\ \A p \in Priorities : ToSet(lane.queues[p]) =
                                {a \in Of(g, "queued") : PriorityOf[a] = p}
    <3> DEFINE lane == lim.lanes[g]
               W == In(g, Queued)
    <3>1. GuildFits(g, lane, Elements(lim.order), W, In(g, Calling), expiresAt)
      BY <2>2 DEF IInv, Accounted
    <3>2. Of(g, "queued") = W /\ Of(g, "calling") = In(g, Calling) /\ W \in SUBSET Actions
      BY DEF Of, In, Queued, Calling
    <3>3. ToSet(lim.order) = Elements(lim.order)
      <4>1. lim.order \in Seq(Guilds)
        BY DEF IInv, Typed, Lims
      <4>2. QED
        BY <4>1, ElementsAreRange
    <3> HIDE DEF lane, W
    <3>4. CASE lane # None
      <4>1. LaneFits(lane, W, expiresAt)
        BY <3>1, <3>4 DEF GuildFits
      <4>2. Depth(lane) = Cardinality(W)
        BY <3>2, <4>1, DepthIsSize
      <4>3. ASSUME NEW p \in Priorities
            PROVE  ToSet(lane.queues[p]) = {a \in W : PriorityOf[a] = p}
        <5> DEFINE s == lane.queues[p]
        <5>1. Lined(s, Rank(W, p), expiresAt)
          BY <4>1 DEF LaneFits
        <5> HIDE DEF s
        <5>2. s \in Seq(Actions) /\ Elements(s) = Rank(W, p)
          BY <5>1 DEF Lined
        <5>3. ToSet(s) = Rank(W, p)
          BY <5>2, ElementsAreRange
        <5>4. QED
          BY <5>3 DEF s, Rank
      <4>4. QED
        BY <3>1, <3>2, <3>3, <3>4, <4>2, <4>3 DEF GuildFits, lane
    <3>5. CASE lane = None
      BY <3>1, <3>2, <3>3, <3>5 DEF GuildFits, lane
    <3>6. QED
      BY <3>4, <3>5
  <2>3. QED
    BY <2>1, <2>2 DEF LaneAccounting
<1>2. QED
  BY <1>1, Invariance, PTL

\* No circuit waits for a probe that nobody will report or give back, whoever
\* was dropped, evicted, timed out or stopped (circuit-breaker.ts:56-66).
THEOREM ProbesAreHeld == Spec => []ProbeIsHeld
<1>1. IInv => ProbeIsHeld
  BY DEF IInv, Held, ProbeIsHeld, Queued, Calling
<1>2. QED
  BY <1>1, Invariance, PTL

\* Every start of a call that is not critical keeps to its guild's window, the
\* process's and the guild's concurrency, whatever their lengths and limits
\* (action.types.ts:45-62).
THEOREM StartsArePaced == Spec => PacedStarts
<1>1. IInv /\ [Next]_vars => [PacedStep]_vars
  BY NextStep
<1>2. QED
  BY <1>1, Invariance, PTL DEF Spec, PacedStarts, PacedStep

\* Nothing starts from the queue past a more urgent or an older waiter of its
\* guild, and nothing is dropped for room while a less urgent one of it waits
\* (action.types.ts:4-7).
THEOREM UrgentGoesFirst == Spec => UrgentFirst
<1>1. IInv /\ [Next]_vars => [UrgentStep]_vars
  BY NextStep
<1>2. QED
  BY <1>1, Invariance, PTL DEF Spec, UrgentFirst, UrgentStep
=============================================================================
