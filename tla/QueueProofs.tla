----------------------------- MODULE QueueProofs -----------------------------
(***************************************************************************)
(* What Without does to a queue, and what is needed to reason about it and *)
(* about the other recursive functions of this project: that the           *)
(* recursion defines something, and that an invariant of its step holds of *)
(* all its values.  Both are stated with sets and functions in place of    *)
(* operators, as the provers do not instantiate operators.                 *)
(***************************************************************************)
EXTENDS Queues, FiniteSetsExt, TLAPS, WellFoundedInduction

\* A set of indices with 0 and with the successor of each of its members has
\* all of them.
LEMMA Induction ==
    ASSUME NEW n \in Nat, NEW Good, 0 \in Good,
           \A i \in 1 .. n : i - 1 \in Good => i \in Good
    PROVE  0 .. n \subseteq Good
<1> DEFINE R   == {r \in Nat \X Nat : r[1] < r[2]}
           bad == (0 .. n) \ Good
<1>1. IsWellFoundedOn(R, Nat)
  BY NatLessThanWellFounded DEF OpToRel
<1>2. SUFFICES ASSUME bad # {} PROVE FALSE
  OBVIOUS
<1>3. PICK x \in bad : \A y \in bad : ~(<<y, x>> \in R)
  <2> HIDE DEF R
  <2>1. bad \subseteq Nat
    OBVIOUS
  <2> QED
    BY <1>1, <1>2, <2>1, WFMin
<1>4. x \in 1 .. n
  BY <1>3
<1>5. x - 1 \notin Good => x - 1 \in bad /\ <<x - 1, x>> \in R
  BY <1>4
<1> QED
  BY <1>3, <1>4, <1>5

\* Some natural numbers have a least.
LEMMA MinOfNaturals ==
    ASSUME NEW S \in SUBSET Nat, S # {}
    PROVE  Min(S) \in S /\ \A x \in S : Min(S) <= x
<1> DEFINE R == {r \in Nat \X Nat : r[1] < r[2]}
<1>1. IsWellFoundedOn(R, Nat)
  BY NatLessThanWellFounded DEF OpToRel
<1>2. PICK m \in S : \A y \in S : ~(<<y, m>> \in R)
  <2> HIDE DEF R
  <2> QED
    BY <1>1, WFMin
<1>3. \A y \in S : m <= y
  <2> SUFFICES ASSUME NEW y \in S, y < m PROVE FALSE
    OBVIOUS
  <2> QED
    BY <1>2
<1> QED
  BY <1>3 DEF Min

\* A round takes what the one before it made: Round has the triples of its
\* number, what it takes and what it makes.
CanGoOn(S, n, Round) ==
    \A i \in 1 .. n : \A x \in S : \E y \in S : <<i, x, y>> \in Round
Courses(S, n, first, Round) ==
    {g \in [0 .. n -> S] :
        g[0] = first /\ \A i \in 1 .. n : <<i, g[i - 1], g[i]>> \in Round}

\* Rounds that can all be made can be made one after the other.
LEMMA CoursesExist ==
    ASSUME NEW S, NEW n \in Nat, NEW first \in S, NEW Round, CanGoOn(S, n, Round)
    PROVE  Courses(S, n, first, Round) # {}
<1> DEFINE Upto(j) == Courses(S, j, first, Round)
           Good == {j \in 0 .. n : Upto(j) # {}}
<1>1. 0 \in Good
  <2>1. [i \in 0 .. 0 |-> first] \in Upto(0)
    BY DEF Courses
  <2> QED
    BY <2>1
<1>2. ASSUME NEW j \in 1 .. n, j - 1 \in Good PROVE j \in Good
  <2>1. PICK g \in [0 .. j - 1 -> S] :
            g[0] = first /\ \A i \in 1 .. j - 1 : <<i, g[i - 1], g[i]>> \in Round
    BY <1>2 DEF Courses
  <2>2. PICK y \in S : <<j, g[j - 1], y>> \in Round
    <3>1. g[j - 1] \in S
      BY <2>1
    <3> QED
      BY <3>1 DEF CanGoOn
  <2> DEFINE h == [i \in 0 .. j |-> IF i = j THEN y ELSE g[i]]
  <2>3. h \in [0 .. j -> S]
    BY <2>1, <2>2
  <2>4. h[0] = first
    BY <2>1
  <2>5. ASSUME NEW i \in 1 .. j PROVE <<i, h[i - 1], h[i]>> \in Round
    <3>1. h[i - 1] = g[i - 1]
      OBVIOUS
    <3>2. CASE i = j
      BY <2>2, <3>1, <3>2
    <3>3. CASE i # j
      <4>1. i \in 1 .. j - 1 /\ h[i] = g[i]
        BY <3>3
      <4> QED
        BY <2>1, <3>1, <4>1
    <3> QED
      BY <3>2, <3>3
  <2> HIDE DEF h
  <2>6. h \in Upto(j)
    BY <2>3, <2>4, <2>5 DEF Courses
  <2> HIDE DEF Upto
  <2> QED
    BY <2>6
<1>3. n \in Good
  <2> HIDE DEF Good
  <2>1. 0 .. n \subseteq Good
    BY <1>1, <1>2, Induction
  <2> QED
    BY <2>1
<1> QED
  BY <1>3

-----------------------------------------------------------------------------
(* Without.                                                                *)

\* What is kept of the first i entries.
Keepings(T, q, gone) ==
    {kept \in [0 .. Len(q) -> Seq(T)] :
        /\ kept[0] = <<>>
        /\ \A i \in 1 .. Len(q) :
              kept[i] = IF q[i] \in gone THEN kept[i - 1] ELSE Append(kept[i - 1], q[i])
        /\ Without(q, gone) = kept[Len(q)]}

LEMMA KeptUnfolds ==
    ASSUME NEW T, NEW q \in Seq(T), NEW gone
    PROVE  Keepings(T, q, gone) # {}
<1> DEFINE n == Len(q)
           Kept == Seq(T)
           none == <<>>
           Made(i, x) == IF q[i] \in gone THEN x ELSE Append(x, q[i])
           Def(g) == [i \in 0 .. n |-> IF i = 0 THEN none ELSE Made(i, g[i - 1])]
           Round == {t \in (1 .. n) \X Kept \X Kept : t[3] = Made(t[1], t[2])}
           kept == CHOOSE g : g = Def(g)
<1>1. n \in Nat /\ \A i \in 1 .. n : q[i] \in T
  OBVIOUS
<1>2. /\ none \in Kept
      /\ \A i \in 1 .. n : \A x \in Kept : Made(i, x) \in Kept
  BY <1>1
<1> HIDE DEF n, Kept, none, Made
<1>3. CanGoOn(Kept, n, Round)
  BY <1>2 DEF CanGoOn
<1>4. PICK g \in [0 .. n -> Kept] :
          g[0] = none /\ \A i \in 1 .. n : <<i, g[i - 1], g[i]>> \in Round
  <2> HIDE DEF Round
  <2>1. Courses(Kept, n, none, Round) # {}
    BY <1>1, <1>2, <1>3, CoursesExist
  <2> QED
    BY <2>1 DEF Courses
<1>5. g = Def(g)
  <2>1. ASSUME NEW i \in 0 .. n PROVE g[i] = Def(g)[i]
    <3>1. CASE i = 0
      BY <1>4, <3>1
    <3>2. CASE i # 0
      <4>1. i \in 1 .. n
        BY <1>1, <3>2
      <4> QED
        BY <1>4, <3>2, <4>1
    <3> QED
      BY <3>1, <3>2
  <2>2. g = [i \in 0 .. n |-> g[i]]
    BY <1>4
  <2> QED
    BY <2>1, <2>2
<1>6. kept = Def(kept)
  <2> HIDE DEF Def
  <2> QED
    BY <1>5
<1>7. Without(q, gone) = kept[n]
  BY DEF Without, Made, none, n
<1> HIDE DEF kept
<1>8. /\ kept = [i \in 0 .. n |-> kept[i]] /\ kept[0] = none
      /\ \A i \in 1 .. n : kept[i] = Made(i, kept[i - 1])
  BY <1>1, <1>6
<1>9. \A i \in 0 .. n : kept[i] \in Kept
  <2> DEFINE Good == {i \in 0 .. n : kept[i] \in Kept}
  <2>1. 0 \in Good
    BY <1>1, <1>2, <1>8
  <2>2. ASSUME NEW i \in 1 .. n, i - 1 \in Good PROVE i \in Good
    <3>1. i - 1 \in 0 .. n /\ kept[i - 1] \in Kept
      BY <1>1, <2>2
    <3>2. kept[i] \in Kept
      BY <1>2, <1>8, <3>1
    <3> QED
      BY <1>1, <3>2
  <2> HIDE DEF Good
  <2>3. 0 .. n \subseteq Good
    BY <1>1, <2>1, <2>2, Induction
  <2> QED
    BY <2>3 DEF Good
<1>10. kept \in [0 .. n -> Kept]
  BY <1>8, <1>9
<1> QED
  BY <1>7, <1>8, <1>10 DEF n, Kept, none, Made, Keepings

\* What is taken out is gone, everything else is still there, and the queue
\* has not grown.
LEMMA WithoutProperties ==
    ASSUME NEW T, NEW q \in Seq(T), NEW gone
    PROVE  /\ Without(q, gone) \in Seq(T)
           /\ Len(Without(q, gone)) <= Len(q)
           /\ \A x : (\E i \in 1 .. Len(Without(q, gone)) : Without(q, gone)[i] = x)
                 <=> x \notin gone /\ \E i \in 1 .. Len(q) : q[i] = x
<1> DEFINE n == Len(q)
<1>1. n \in Nat /\ \A i \in 1 .. n : q[i] \in T
  OBVIOUS
<1>2. PICK kept \in [0 .. n -> Seq(T)] :
              /\ kept[0] = <<>>
              /\ \A i \in 1 .. n :
                    kept[i] = IF q[i] \in gone THEN kept[i - 1] ELSE Append(kept[i - 1], q[i])
              /\ Without(q, gone) = kept[n]
  <2>1. Keepings(T, q, gone) # {}
    BY KeptUnfolds
  <2> QED
    BY <2>1 DEF Keepings
<1> HIDE DEF n
<1> DEFINE Holds(s, x) == \E i \in 1 .. Len(s) : s[i] = x
           Shorter == {i \in 0 .. n : Len(kept[i]) <= i}
           Right == {i \in 0 .. n : \A x :
                        Holds(kept[i], x) <=> x \notin gone /\ \E k \in 1 .. i : q[k] = x}
<1>3. \A i \in 0 .. n : kept[i] \in Seq(T) /\ Len(kept[i]) \in Nat
  BY <1>2
<1>4. 0 .. n \subseteq Shorter
  <2>1. 0 \in Shorter
    BY <1>1, <1>2
  <2>2. ASSUME NEW i \in 1 .. n, i - 1 \in Shorter PROVE i \in Shorter
    <3>1. i - 1 \in 0 .. n /\ i \in 0 .. n /\ Len(kept[i - 1]) <= i - 1
      BY <1>1, <2>2
    <3>2. /\ kept[i - 1] \in Seq(T) /\ q[i] \in T
          /\ kept[i] = kept[i - 1] \/ kept[i] = Append(kept[i - 1], q[i])
      BY <1>1, <1>2, <3>1
    <3>3. Len(Append(kept[i - 1], q[i])) = Len(kept[i - 1]) + 1
      BY <3>2
    <3> QED
      BY <1>3, <3>1, <3>2, <3>3
  <2> HIDE DEF Shorter
  <2> QED
    BY <1>1, <2>1, <2>2, Induction
<1>5. ASSUME NEW s \in Seq(T), NEW y \in T, NEW x
      PROVE  Holds(Append(s, y), x) <=> Holds(s, x) \/ x = y
  <2>1. /\ Len(Append(s, y)) = Len(s) + 1 /\ Len(s) \in Nat
        /\ \A k \in 1 .. Len(s) : Append(s, y)[k] = s[k]
        /\ Append(s, y)[Len(s) + 1] = y
    OBVIOUS
  <2>2. 1 .. Len(s) + 1 = (1 .. Len(s)) \cup {Len(s) + 1}
    BY <2>1
  <2> QED
    BY <2>1, <2>2
<1>6. 0 .. n \subseteq Right
  <2>1. 0 \in Right
    BY <1>1, <1>2
  <2>2. ASSUME NEW i \in 1 .. n, i - 1 \in Right PROVE i \in Right
    <3>1. i - 1 \in 0 .. n /\ i \in 0 .. n /\ kept[i - 1] \in Seq(T) /\ q[i] \in T
      BY <1>1, <1>2
    <3>2. 1 .. i = (1 .. i - 1) \cup {i}
      BY <1>1
    <3> SUFFICES ASSUME NEW x
                 PROVE  Holds(kept[i], x) <=> x \notin gone /\ \E k \in 1 .. i : q[k] = x
      BY <3>1
    <3>3. Holds(kept[i - 1], x) <=> x \notin gone /\ \E k \in 1 .. i - 1 : q[k] = x
      BY <2>2
    <3>4. Holds(Append(kept[i - 1], q[i]), x) <=> Holds(kept[i - 1], x) \/ x = q[i]
      <4> HIDE DEF Holds
      <4> QED
        BY <1>5, <3>1
    <3> HIDE DEF Holds
    <3> QED
      BY <1>2, <3>2, <3>3, <3>4
  <2> HIDE DEF Right
  <2> QED
    BY <1>1, <2>1, <2>2, Induction
<1>7. n \in Shorter /\ n \in Right
  <2> HIDE DEF Shorter, Right
  <2> QED
    BY <1>1, <1>4, <1>6
<1>8. /\ Len(kept[n]) <= n /\ kept[n] \in Seq(T)
      /\ \A x : Holds(kept[n], x) <=> x \notin gone /\ \E k \in 1 .. n : q[k] = x
  BY <1>1, <1>3, <1>7
<1> QED
  BY <1>2, <1>8 DEF n


NoRepeats(q) == \A i, j \in 1 .. Len(q) : q[i] = q[j] => i = j

\* What is kept of a queue without repetitions has none.
LEMMA WithoutRepeatsNothing ==
    ASSUME NEW T, NEW q \in Seq(T), NoRepeats(q), NEW gone
    PROVE  NoRepeats(Without(q, gone))
<1> DEFINE n == Len(q)
<1>1. n \in Nat /\ \A i \in 1 .. n : q[i] \in T
  OBVIOUS
<1>2. PICK kept \in [0 .. n -> Seq(T)] :
              /\ kept[0] = <<>>
              /\ \A i \in 1 .. n :
                    kept[i] = IF q[i] \in gone THEN kept[i - 1] ELSE Append(kept[i - 1], q[i])
              /\ Without(q, gone) = kept[n]
  <2>1. Keepings(T, q, gone) # {}
    BY KeptUnfolds
  <2> QED
    BY <2>1 DEF Keepings
<1>3. \A i, j \in 1 .. n : q[i] = q[j] => i = j
  BY DEF NoRepeats
<1> HIDE DEF n
<1> DEFINE From(s, i) == \A k \in 1 .. Len(s) : \E l \in 1 .. i : s[k] = q[l]
           Good == {i \in 0 .. n : From(kept[i], i) /\ NoRepeats(kept[i])}
<1>4. 0 \in Good
  BY <1>1, <1>2 DEF NoRepeats
<1>5. ASSUME NEW i \in 1 .. n, i - 1 \in Good PROVE i \in Good
  <2> DEFINE s == kept[i - 1]
             t == Append(s, q[i])
  <2>1. /\ i - 1 \in 0 .. n /\ i \in 0 .. n /\ s \in Seq(T) /\ q[i] \in T
        /\ kept[i] = IF q[i] \in gone THEN s ELSE t
    BY <1>1, <1>2
  <2>2. From(s, i - 1) /\ NoRepeats(s)
    BY <1>5
  <2> HIDE DEF s
  <2>3. From(s, i)
    <3>1. \A l \in 1 .. i - 1 : l \in 1 .. i
      BY <1>1
    <3>2. SUFFICES ASSUME NEW k \in 1 .. Len(s) PROVE \E l \in 1 .. i : s[k] = q[l]
      OBVIOUS
    <3>3. PICK l \in 1 .. i - 1 : s[k] = q[l]
      BY <2>2
    <3> QED
      BY <3>1, <3>3
  <2>4. /\ Len(t) = Len(s) + 1 /\ Len(s) \in Nat
        /\ \A k \in 1 .. Len(s) : t[k] = s[k]
        /\ t[Len(s) + 1] = q[i]
    BY <2>1
  <2>5. \A k \in 1 .. Len(s) : s[k] # q[i]
    <3>1. SUFFICES ASSUME NEW k \in 1 .. Len(s), s[k] = q[i] PROVE FALSE
      OBVIOUS
    <3>2. PICK l \in 1 .. i - 1 : s[k] = q[l]
      BY <2>2
    <3>3. l \in 1 .. n /\ l # i
      BY <1>1
    <3>4. q[l] = q[i]
      BY <3>1, <3>2
    <3> QED
      BY <1>3, <3>3, <3>4
  <2> HIDE DEF t
  <2>6. From(t, i)
    <3>1. SUFFICES ASSUME NEW k \in 1 .. Len(t) PROVE \E l \in 1 .. i : t[k] = q[l]
      OBVIOUS
    <3>2. k \in 1 .. Len(s) \/ k = Len(s) + 1
      BY <2>4
    <3>3. CASE k \in 1 .. Len(s)
      BY <2>3, <2>4, <3>3
    <3>4. CASE k = Len(s) + 1
      BY <1>1, <2>4, <3>4
    <3> QED
      BY <3>2, <3>3, <3>4
  <2>7. NoRepeats(t)
    <3>1. SUFFICES ASSUME NEW k \in 1 .. Len(t), NEW l \in 1 .. Len(t), t[k] = t[l]
                   PROVE  k = l
      BY DEF NoRepeats
    <3>2. /\ k \in 1 .. Len(s) \/ k = Len(s) + 1
          /\ l \in 1 .. Len(s) \/ l = Len(s) + 1
      BY <2>4
    <3>3. CASE k \in 1 .. Len(s) /\ l \in 1 .. Len(s)
      BY <2>2, <2>4, <3>1, <3>3 DEF NoRepeats
    <3>4. CASE k = Len(s) + 1 /\ l \in 1 .. Len(s)
      BY <2>4, <2>5, <3>1, <3>4
    <3>5. CASE k \in 1 .. Len(s) /\ l = Len(s) + 1
      BY <2>4, <2>5, <3>1, <3>5
    <3> QED
      BY <3>2, <3>3, <3>4, <3>5
  <2> QED
    BY <2>1, <2>2, <2>3, <2>6, <2>7
<1> HIDE DEF Good
<1>6. 0 .. n \subseteq Good
  BY <1>1, <1>4, <1>5, Induction
<1> QED
  BY <1>1, <1>2, <1>6 DEF Good, n

=============================================================================
