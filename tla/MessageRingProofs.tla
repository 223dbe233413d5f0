--------------------------- MODULE MessageRingProofs ---------------------------
(***************************************************************************)
(* What the operators of MessageRing return, for every ring, every set of  *)
(* messages a view hides, and every limit.                                 *)
(*                                                                         *)
(* Without and Filled are recursive functions: there is one series of      *)
(* results that satisfies their equations (SeriesExists, by induction over *)
(* the index), and every fact about them is an induction along that        *)
(* series.  Filling in keeps the order of a ring (FillInOrder) since each  *)
(* message finds the object in front of which it belongs, or that object   *)
(* was dropped with all older ones.                                        *)
(*                                                                         *)
(* The second half is about a channel and the copy a view has of it: the   *)
(* copy "Serves" when, from some message g on, it is what the channel has  *)
(* for the view, and there are enough of these to be shown, or the copy    *)
(* has all that the channel has before g, too, and room for what would     *)
(* push it out.  That is all there is to keep: g moves on when the channel *)
(* drops its oldest messages, and the copy may have lost what the channel  *)
(* still has, or have it twice, as long as that is before g.  Whatever     *)
(* happens to both keeps it (AddServes, FillServes, PageServes,            *)
(* ResetServes, PushServes).                                               *)
(***************************************************************************)
EXTENDS MessageRing, SequenceTheorems, FiniteSetTheorems, WellFoundedInduction, TLAPS

-----------------------------------------------------------------------------
(* Numbers *)

\* A set of natural numbers has a least element.
LEMMA Least ==
  ASSUME NEW S, S \subseteq Nat, S # {}
  PROVE  /\ Min(S) \in S
         /\ \A x \in S : Min(S) <= x
<1>1. \E m \in S : \A x \in S : ~ (<<x, m>> \in OpToRel(<, Nat))
  BY NatLessThanWellFounded, WFMin
<1>2. PICK m \in S : \A x \in S : ~ (<<x, m>> \in OpToRel(<, Nat))
  BY <1>1
<1>3. \A x \in S : m <= x
  <2>1. TAKE x \in S
  <2>2. ~ (x < m)
    BY <1>2 DEF OpToRel
  <2> QED
    BY <2>2
<1> QED
  BY <1>3 DEF Min

\* Induction over the numbers from 0 to n.
LEMMA UpTo ==
  ASSUME NEW n \in Nat, NEW T, 0 \in T, \A i \in 1 .. n : i - 1 \in T => i \in T
  PROVE  0 .. n \subseteq T
<1> DEFINE R == (0 .. n) \ T
<1>1. SUFFICES ASSUME R # {}
               PROVE  FALSE
  OBVIOUS
<1>2. PICK m \in R : \A x \in R : m <= x
  <2>1. R \subseteq Nat
    OBVIOUS
  <2>2. Min(R) \in R /\ \A x \in R : Min(R) <= x
    <3> HIDE DEF R
    <3> QED
      BY <1>1, <2>1, Least
  <2> QED
    BY <2>2
<1>3. m \in 1 .. n /\ m - 1 \notin R
  BY <1>2
<1> QED
  BY <1>2, <1>3

\* The functions that take a value to the next one, for the numbers from 1 to n,
\* and the series of values they make from the first one.
Steps(n, A) == [1 .. n -> [A -> A]]

Series(n, A, a, step) ==
  {f \in [0 .. n -> A] : f[0] = a /\ \A i \in 1 .. n : f[i] = step[i][f[i - 1]]}

\* A function of the numbers from 0 to n may be defined by its first value and
\* a step from each value to the next.
LEMMA SeriesExists ==
  ASSUME NEW n \in Nat, NEW A, NEW a \in A, NEW step \in Steps(n, A)
  PROVE  Series(n, A, a, step) # {}
<1> DEFINE Upto(k, f) == f[0] = a /\ \A i \in 1 .. k : f[i] = step[i][f[i - 1]]
           T == {k \in 0 .. n : \E f \in [0 .. k -> A] : Upto(k, f)}
<1> USE DEF Steps
<1>1. 0 \in T
  <2>1. [i \in 0 .. 0 |-> a] \in [0 .. 0 -> A] /\ Upto(0, [i \in 0 .. 0 |-> a])
    OBVIOUS
  <2>2. \E f \in [0 .. 0 -> A] : Upto(0, f)
    <3> HIDE DEF Upto
    <3> QED
      BY <2>1
  <2> QED
    BY <2>2
<1>2. ASSUME NEW k \in 1 .. n, k - 1 \in T
      PROVE  k \in T
  <2>1. PICK f \in [0 .. k - 1 -> A] : Upto(k - 1, f)
    BY <1>2
  <2> DEFINE g == [i \in 0 .. k |-> IF i < k THEN f[i] ELSE step[k][f[k - 1]]]
  <2>2. step[k][f[k - 1]] \in A
    BY <2>1
  <2>3. g \in [0 .. k -> A]
    BY <2>1, <2>2
  <2>4. g[0] = a
    BY <2>1
  <2>5. \A i \in 1 .. k : g[i] = step[i][g[i - 1]]
    BY <2>1
  <2>6. \E h \in [0 .. k -> A] : Upto(k, h)
    <3>1. Upto(k, g)
      BY <2>4, <2>5
    <3> HIDE DEF g, Upto
    <3> QED
      BY <2>3, <3>1
  <2>7. k \in 0 .. n
    OBVIOUS
  <2> HIDE DEF Upto
  <2> QED
    BY <2>6, <2>7
<1>3. n \in T
  <2>1. 0 .. n \subseteq T
    <3> HIDE DEF T
    <3> QED
      BY <1>1, <1>2, UpTo
  <2> QED
    BY <2>1
<1> QED
  BY <1>3 DEF Series

-----------------------------------------------------------------------------
(* Sequences *)

\* What Without keeps of the first i elements of s, for every i.
Leaving(A, s, S) ==
  {f \in [0 .. Len(s) -> Seq(A)] :
     /\ f[0] = <<>>
     /\ \A i \in 1 .. Len(s) : f[i] = IF s[i] \in S THEN f[i - 1] ELSE Append(f[i - 1], s[i])
     /\ Without(s, S) = f[Len(s)]}

\* What is left of a sequence is the last of a series that grows with it.
LEMMA WithoutSteps ==
  ASSUME NEW A, NEW s \in Seq(A), NEW S
  PROVE  Leaving(A, s, S) # {}
<1> DEFINE n == Len(s)
           step == [i \in 1 .. n |-> [q \in Seq(A) |-> IF s[i] \in S THEN q ELSE Append(q, s[i])]]
           Body(f) == [i \in 0 .. n |->
                        IF i = 0 THEN <<>>
                        ELSE IF s[i] \in S THEN f[i - 1] ELSE Append(f[i - 1], s[i])]
<1>1. n \in Nat /\ \A i \in 1 .. n : s[i] \in A
  OBVIOUS
<1>2. step \in [1 .. n -> [Seq(A) -> Seq(A)]]
  BY <1>1
<1>3. <<>> \in Seq(A)
  OBVIOUS
<1>4. PICK f \in [0 .. n -> Seq(A)] :
        f[0] = <<>> /\ \A i \in 1 .. n : f[i] = step[i][f[i - 1]]
  <2> DEFINE B == Seq(A)
             e == <<>>
  <2>1. step \in Steps(n, B) /\ e \in B /\ n \in Nat
    BY <1>1, <1>2, <1>3 DEF Steps
  <2>2. Series(n, B, e, step) # {}
    <3> HIDE DEF step, n, B, e
    <3> QED
      BY <2>1, SeriesExists
  <2> QED
    BY <2>2 DEF Series
<1>5. \A i \in 1 .. n : f[i] = IF s[i] \in S THEN f[i - 1] ELSE Append(f[i - 1], s[i])
  <2>1. TAKE i \in 1 .. n
  <2>2. f[i - 1] \in Seq(A)
    BY <1>1
  <2> QED
    BY <1>4, <2>2
<1>6. f = Body(f)
  <2>1. \A i \in 0 .. n : f[i] = Body(f)[i]
    <3>1. TAKE i \in 0 .. n
    <3>2. CASE i = 0
      BY <1>4, <3>2
    <3>3. CASE i # 0
      <4>1. i \in 1 .. n
        BY <1>1, <3>3
      <4>2. f[i] = IF s[i] \in S THEN f[i - 1] ELSE Append(f[i - 1], s[i])
        BY <1>5, <4>1
      <4> QED
        BY <3>3, <4>2
    <3> QED
      BY <3>2, <3>3
  <2>2. DOMAIN f = 0 .. n /\ f = [i \in 0 .. n |-> f[i]]
    BY <1>4
  <2> QED
    BY <2>1, <2>2
<1>7. PICK g : g = Body(g) /\ Without(s, S) = g[n]
  BY <1>6 DEF Without
<1>8. g = f
  <2> DEFINE T == {i \in 0 .. n : g[i] = f[i]}
  <2>1. 0 \in T
    BY <1>1, <1>4, <1>7
  <2>2. ASSUME NEW i \in 1 .. n, i - 1 \in T
        PROVE  i \in T
    <3>1. g[i - 1] = f[i - 1] /\ i \in 0 .. n /\ i # 0
      BY <1>1, <2>2
    <3>2. g[i] = IF s[i] \in S THEN g[i - 1] ELSE Append(g[i - 1], s[i])
      BY <1>7, <3>1
    <3> QED
      BY <1>5, <3>1, <3>2
  <2>3. 0 .. n \subseteq T
    <3> HIDE DEF T
    <3> QED
      BY <1>1, <2>1, <2>2, UpTo
  <2> QED
    BY <1>7, <2>3
<1> QED
  BY <1>4, <1>5, <1>7, <1>8 DEF Leaving

\* A sequence in strictly ascending order.
Ascends(s) == \A i, j \in DOMAIN s : i < j => s[i] < s[j]

\* What is left of a sequence without S has its other elements.
LEMMA WithoutMembers ==
  ASSUME NEW A, NEW s \in Seq(A), NEW S
  PROVE  /\ Without(s, S) \in Seq(A)
         /\ Range(Without(s, S)) = Range(s) \ S
<1> DEFINE n == Len(s)
<1>1. n \in Nat /\ DOMAIN s = 1 .. n /\ \A i \in 1 .. n : s[i] \in A
  OBVIOUS
<1>a. PICK f \in Leaving(A, s, S) : TRUE
  BY WithoutSteps
<1>2. /\ f \in [0 .. n -> Seq(A)]
      /\ f[0] = <<>>
      /\ \A i \in 1 .. n : f[i] = IF s[i] \in S THEN f[i - 1] ELSE Append(f[i - 1], s[i])
      /\ Without(s, S) = f[n]
  BY DEF Leaving
<1>3. \A i \in 0 .. n : f[i] \in Seq(A)
  BY <1>2
<1> HIDE DEF n
<1> DEFINE T == {i \in 0 .. n : Range(f[i]) = {s[j] : j \in 1 .. i} \ S}
<1>4. 0 \in T
  BY <1>1, <1>2 DEF Range
<1>5. ASSUME NEW i \in 1 .. n, i - 1 \in T
      PROVE  i \in T
  <2>a. i - 1 \in 0 .. n /\ i \in 0 .. n
    BY <1>1
  <2>b. Range(f[i - 1]) = {s[j] : j \in 1 .. i - 1} \ S
    BY <1>5
  <2>1. f[i - 1] \in Seq(A) /\ Range(f[i - 1]) = {s[j] : j \in 1 .. i - 1} \ S /\ i \in 0 .. n
    BY <1>3, <2>a, <2>b
  <2>2. {s[j] : j \in 1 .. i} = {s[j] : j \in 1 .. i - 1} \union {s[i]}
    <3>1. 1 .. i = (1 .. i - 1) \union {i}
      BY <1>1
    <3> QED
      BY <3>1
  <2>3. Range(f[i]) = IF s[i] \in S THEN Range(f[i - 1]) ELSE Range(f[i - 1]) \union {s[i]}
    <3>1. CASE s[i] \in S
      BY <1>2, <3>1
    <3>2. CASE s[i] \notin S
      <4>1. f[i] = Append(f[i - 1], s[i])
        BY <1>2, <3>2
      <4> DEFINE q == f[i - 1]
      <4>2. q \in Seq(A) /\ s[i] \in A
        BY <1>1, <2>1
      <4>3. Range(Append(q, s[i])) = Range(q) \union {s[i]}
        <5> HIDE DEF q
        <5>1. DOMAIN Append(q, s[i]) = 1 .. Len(q) + 1 /\ DOMAIN q = 1 .. Len(q) /\ Len(q) \in Nat
          BY <4>2
        <5>2. \A k \in 1 .. Len(q) : Append(q, s[i])[k] = q[k]
          BY <4>2
        <5>3. Append(q, s[i])[Len(q) + 1] = s[i]
          BY <4>2
        <5> QED
          BY <5>1, <5>2, <5>3 DEF Range
      <4> QED
        BY <3>2, <4>1, <4>3
    <3> QED
      BY <3>1, <3>2
  <2> QED
    BY <2>1, <2>2, <2>3
<1>6. n \in T
  <2>1. 0 .. n \subseteq T
    <3> HIDE DEF T
    <3> QED
      BY <1>1, <1>4, <1>5, UpTo
  <2> QED
    BY <1>1, <2>1
<1>7. Range(s) = {s[j] : j \in 1 .. n}
  BY <1>1 DEF Range
<1> QED
  BY <1>1, <1>2, <1>3, <1>6, <1>7

\* Leaving out what is not there leaves the sequence.
LEMMA WithoutNothing ==
  ASSUME NEW A, NEW s \in Seq(A), NEW S, Range(s) \cap S = {}
  PROVE  Without(s, S) = s
<1> DEFINE n == Len(s)
<1>1. n \in Nat /\ DOMAIN s = 1 .. n /\ \A i \in 1 .. n : s[i] \in A \ S
  BY DEF Range
<1>a. PICK f \in Leaving(A, s, S) : TRUE
  BY WithoutSteps
<1>2. /\ f \in [0 .. n -> Seq(A)]
      /\ f[0] = <<>>
      /\ \A i \in 1 .. n : f[i] = IF s[i] \in S THEN f[i - 1] ELSE Append(f[i - 1], s[i])
      /\ Without(s, S) = f[n]
  BY DEF Leaving
<1>3. \A i \in 0 .. n : f[i] \in Seq(A)
  BY <1>2
<1>4. \A i \in 1 .. n : f[i] = Append(f[i - 1], s[i])
  BY <1>1, <1>2
<1>5. f[0] = <<>> /\ Without(s, S) = f[n]
  BY <1>2
<1> DEFINE T == {i \in 0 .. n : Len(f[i]) = i /\ \A j \in 1 .. i : f[i][j] = s[j]}
<1> HIDE DEF n
<1>6. 0 \in T
  BY <1>1, <1>5
<1>7. ASSUME NEW i \in 1 .. n, i - 1 \in T
      PROVE  i \in T
  <2> DEFINE q == f[i - 1]
  <2>1. q \in Seq(A) /\ Len(q) = i - 1 /\ (\A j \in 1 .. i - 1 : q[j] = s[j]) /\ i \in 0 .. n
    BY <1>1, <1>3, <1>7
  <2>2. f[i] = Append(q, s[i])
    BY <1>4
  <2> HIDE DEF q
  <2>3. Len(f[i]) = i /\ \A j \in 1 .. i : f[i][j] = s[j]
    BY <1>1, <2>1, <2>2
  <2> QED
    BY <2>1, <2>3
<1>8. n \in T
  <2>1. 0 .. n \subseteq T
    <3> HIDE DEF T
    <3> QED
      BY <1>1, <1>6, <1>7, UpTo
  <2> QED
    BY <1>1, <2>1
<1>9. Len(f[n]) = Len(s) /\ (\A j \in 1 .. Len(s) : f[n][j] = s[j]) /\ f[n] \in Seq(A)
  BY <1>1, <1>3, <1>8 DEF n
<1> QED
  BY <1>5, <1>9, SeqEqual

\* What is left of an ascending sequence ascends.
LEMMA WithoutAscends ==
  ASSUME NEW s \in Seq(Nat), NEW S, Ascends(s)
  PROVE  Ascends(Without(s, S))
<1> DEFINE n == Len(s)
<1>1. n \in Nat /\ DOMAIN s = 1 .. n /\ \A i \in 1 .. n : s[i] \in Nat
  OBVIOUS
<1>a. PICK f \in Leaving(Nat, s, S) : TRUE
  BY WithoutSteps
<1>2. /\ f \in [0 .. n -> Seq(Nat)]
      /\ f[0] = <<>>
      /\ \A i \in 1 .. n : f[i] = IF s[i] \in S THEN f[i - 1] ELSE Append(f[i - 1], s[i])
      /\ Without(s, S) = f[n]
  BY DEF Leaving
<1>3. \A i \in 0 .. n : f[i] \in Seq(Nat)
  BY <1>2
<1>4. f[0] = <<>> /\ Without(s, S) = f[n]
  BY <1>2
<1> DEFINE Old(i) == \A k \in DOMAIN f[i] : \E j \in 1 .. i : f[i][k] = s[j]
           T == {i \in 0 .. n : Ascends(f[i]) /\ Old(i)}
<1> HIDE DEF n
<1>5. 0 \in T
  BY <1>1, <1>4 DEF Ascends
<1>6. ASSUME NEW i \in 1 .. n, i - 1 \in T
      PROVE  i \in T
  <2> DEFINE q == f[i - 1]
  <2>1. q \in Seq(Nat) /\ Ascends(q) /\ i \in 0 .. n
    BY <1>1, <1>3, <1>6
  <2>2. \A k \in DOMAIN q : \E j \in 1 .. i - 1 : q[k] = s[j]
    BY <1>6
  <2>3. f[i] = IF s[i] \in S THEN q ELSE Append(q, s[i])
    BY <1>2
  <2> HIDE DEF q
  <2>4. \A k \in DOMAIN q : q[k] < s[i]
    <3>1. TAKE k \in DOMAIN q
    <3>2. PICK j \in 1 .. i - 1 : q[k] = s[j]
      BY <2>2
    <3>3. j \in DOMAIN s /\ i \in DOMAIN s /\ j < i
      BY <1>1
    <3> QED
      BY <3>2, <3>3 DEF Ascends
  <2>5. CASE s[i] \in S
    <3>1. f[i] = q
      BY <2>3, <2>5
    <3>2. Old(i)
      BY <1>1, <2>2, <3>1
    <3> QED
      BY <2>1, <3>1, <3>2
  <2>6. CASE s[i] \notin S
    <3>1. f[i] = Append(q, s[i])
      BY <2>3, <2>6
    <3>2. DOMAIN f[i] = 1 .. Len(q) + 1 /\ DOMAIN q = 1 .. Len(q) /\ Len(q) \in Nat
      BY <1>1, <2>1, <3>1
    <3>a. Len(q) \in Nat
      BY <2>1
    <3>3. \A k \in 1 .. Len(q) : f[i][k] = q[k]
      BY <1>1, <2>1, <3>1
    <3>4. f[i][Len(q) + 1] = s[i]
      BY <1>1, <2>1, <3>1
    <3>5. Ascends(f[i])
      <4>1. SUFFICES ASSUME NEW k \in 1 .. Len(q) + 1, NEW l \in 1 .. Len(q) + 1, k < l
                     PROVE  f[i][k] < f[i][l]
        BY <3>2 DEF Ascends
      <4>2. k \in 1 .. Len(q) /\ (l \in 1 .. Len(q) \/ l = Len(q) + 1)
        BY <3>a, <4>1
      <4>3. CASE l \in 1 .. Len(q)
        BY <2>1, <3>2, <3>3, <4>1, <4>2, <4>3 DEF Ascends
      <4>4. CASE l = Len(q) + 1
        BY <2>4, <3>2, <3>3, <3>4, <4>2, <4>4
      <4> QED
        BY <4>2, <4>3, <4>4
    <3>6. Old(i)
      <4>1. SUFFICES ASSUME NEW k \in 1 .. Len(q) + 1
                     PROVE  \E j \in 1 .. i : f[i][k] = s[j]
        BY <3>2
      <4>2. CASE k \in 1 .. Len(q)
        <5>1. PICK j \in 1 .. i - 1 : q[k] = s[j]
          BY <2>2, <3>2, <4>2
        <5>2. j \in 1 .. i
          BY <1>1
        <5> QED
          BY <3>3, <4>2, <5>1, <5>2
      <4>3. CASE k = Len(q) + 1
        BY <1>1, <3>4, <4>3
      <4> QED
        BY <3>a, <4>2, <4>3
    <3> QED
      BY <2>1, <3>5, <3>6
  <2> QED
    BY <2>5, <2>6
<1>7. n \in T
  <2>1. 0 .. n \subseteq T
    <3> HIDE DEF T
    <3> QED
      BY <1>1, <1>5, <1>6, UpTo
  <2> QED
    BY <1>1, <2>1
<1> QED
  BY <1>4, <1>7

\* The newest n elements: how many they are, and where they come from.
LEMMA NewestFacts ==
  ASSUME NEW A, NEW s \in Seq(A), NEW n \in Nat
  PROVE  /\ Newest(s, n) \in Seq(A)
         /\ Len(Newest(s, n)) = IF Len(s) <= n THEN Len(s) ELSE n
         /\ \A i \in 1 .. Len(Newest(s, n)) :
              Newest(s, n)[i] = s[Len(s) - Len(Newest(s, n)) + i]
<1>1. CASE Len(s) <= n
  BY <1>1 DEF Newest
<1>2. CASE n < Len(s)
  <2> DEFINE l == Len(s)
             m == l - n + 1
  <2>1. l \in Nat /\ m \in Int /\ m \in 1 .. l + 1 /\ l \in Int /\ l - m + 1 = n
    BY <1>2
  <2>2. \A i \in m .. l : s[i] \in A
    BY <2>1
  <2>3. Newest(s, n) = SubSeq(s, m, l)
    BY <1>2 DEF Newest
  <2> HIDE DEF m, l
  <2>4. /\ SubSeq(s, m, l) \in Seq(A)
        /\ Len(SubSeq(s, m, l)) = IF m <= l THEN l - m + 1 ELSE 0
        /\ \A i \in 1 .. l - m + 1 : SubSeq(s, m, l)[i] = s[m + i - 1]
    BY <2>1, <2>2, SubSeqProperties
  <2>5. Len(SubSeq(s, m, l)) = n /\ \A i \in 1 .. n : m + i - 1 = l - n + i
    BY <2>1, <2>4
  <2>6. \A i \in 1 .. n : SubSeq(s, m, l)[i] = s[l - n + i]
    <3> TAKE i \in 1 .. n
    <3>1. i \in 1 .. l - m + 1 /\ m + i - 1 = l - n + i
      BY <2>1, <2>5
    <3>2. SubSeq(s, m, l)[i] = s[m + i - 1]
      BY <2>4, <3>1
    <3> QED
      BY <3>1, <3>2
  <2> DEFINE q == Newest(s, n)
  <2>7. q \in Seq(A) /\ Len(q) = n /\ \A i \in 1 .. n : q[i] = s[l - n + i]
    BY <2>3, <2>4, <2>5, <2>6
  <2>8. Len(q) = IF l <= n THEN l ELSE n
    BY <1>2, <2>7 DEF l
  <2> HIDE DEF q
  <2>9. \A i \in 1 .. Len(q) : q[i] = s[l - Len(q) + i]
    BY <2>7
  <2> QED
    BY <2>7, <2>8, <2>9 DEF l, q
<1> QED
  BY <1>1, <1>2

\* The newest elements are elements of the sequence; all of it if it is short.
LEMMA NewestMembers ==
  ASSUME NEW A, NEW s \in Seq(A), NEW n \in Nat
  PROVE  /\ Range(Newest(s, n)) \subseteq Range(s)
         /\ Len(s) <= n => Newest(s, n) = s
<1> DEFINE q == Newest(s, n)
<1>1. /\ q \in Seq(A) /\ Len(q) \in Nat /\ Len(s) \in Nat /\ Len(q) <= Len(s)
      /\ \A i \in 1 .. Len(q) : q[i] = s[Len(s) - Len(q) + i]
  BY NewestFacts
<1>2. Len(s) <= n => q = s
  BY DEF Newest
<1> HIDE DEF q
<1>3. Range(q) \subseteq Range(s)
  <2>1. DOMAIN q = 1 .. Len(q) /\ DOMAIN s = 1 .. Len(s)
    BY <1>1
  <2>2. \A i \in 1 .. Len(q) : Len(s) - Len(q) + i \in 1 .. Len(s)
    BY <1>1
  <2> QED
    BY <1>1, <2>1, <2>2 DEF Range
<1> QED
  BY <1>2, <1>3 DEF q

\* The newest elements of an ascending sequence ascend, and what is not among
\* them is less than all of them.
LEMMA NewestAscends ==
  ASSUME NEW s \in Seq(Nat), NEW n \in Nat, Ascends(s)
  PROVE  /\ Ascends(Newest(s, n))
         /\ \A x \in Range(Newest(s, n)), y \in Range(s) :
              x <= y => y \in Range(Newest(s, n))
<1> DEFINE q == Newest(s, n)
           c == Len(s) - Len(q)
<1>1. /\ q \in Seq(Nat) /\ Len(q) \in Nat /\ Len(s) \in Nat /\ Len(q) <= Len(s)
      /\ \A i \in 1 .. Len(q) : q[i] = s[c + i]
  BY NewestFacts
<1>2. c \in Nat /\ c + Len(q) = Len(s) /\ DOMAIN q = 1 .. Len(q) /\ DOMAIN s = 1 .. Len(s)
  BY <1>1
<1> HIDE DEF q, c
<1>3. \A i \in 1 .. Len(q) : c + i \in DOMAIN s
  BY <1>1, <1>2
<1>4. Ascends(q)
  <2>1. SUFFICES ASSUME NEW i \in 1 .. Len(q), NEW j \in 1 .. Len(q), i < j
                 PROVE  q[i] < q[j]
    BY <1>2 DEF Ascends
  <2>2. c + i \in DOMAIN s /\ c + j \in DOMAIN s /\ c + i < c + j
    BY <1>1, <1>2, <1>3, <2>1
  <2> QED
    BY <1>1, <2>2 DEF Ascends
<1>5. ASSUME NEW x \in Range(q), NEW y \in Range(s), x <= y
      PROVE  y \in Range(q)
  <2>1. PICK i \in 1 .. Len(q) : x = s[c + i]
    BY <1>1, <1>2 DEF Range
  <2>2. PICK j \in 1 .. Len(s) : y = s[j]
    BY <1>2 DEF Range
  <2>3. s[c + i] \in Nat /\ s[j] \in Nat
    BY <1>2, <1>3
  <2>a. j \in DOMAIN s /\ c + i \in DOMAIN s
    BY <1>2, <1>3
  <2>b. j < c + i => y < x
    BY <2>a, <2>1, <2>2 DEF Ascends
  <2>4. ~ (j < c + i)
    BY <1>5, <2>b, <2>1, <2>2, <2>3
  <2>5. j - c \in 1 .. Len(q) /\ c + (j - c) = j
    BY <1>1, <1>2, <2>4
  <2>6. q[j - c] = y
    BY <1>1, <2>2, <2>5
  <2> QED
    BY <1>2, <2>5, <2>6 DEF Range
<1> QED
  BY <1>4, <1>5 DEF q

\* Where the elements of a sequence are when another one is put among them.
LEMMA InsertAtFacts ==
  ASSUME NEW A, NEW s \in Seq(A), NEW i \in 1 .. Len(s) + 1, NEW e \in A
  PROVE  /\ InsertAt(s, i, e) \in Seq(A)
         /\ Len(InsertAt(s, i, e)) = Len(s) + 1
         /\ \A j \in 1 .. Len(s) + 1 :
              InsertAt(s, i, e)[j] = IF j < i THEN s[j] ELSE IF j = i THEN e ELSE s[j - 1]
<1> DEFINE l == Len(s)
           a == SubSeq(s, 1, i - 1)
           b == SubSeq(s, i, l)
           ae == a \o <<e>>
<1>1. l \in Nat /\ i \in 1 .. l + 1
  OBVIOUS
<1>2. a \in Seq(A) /\ Len(a) = i - 1 /\ \A j \in 1 .. i - 1 : a[j] = s[j]
  <2> DEFINE m == i - 1
  <2>1. m \in Int /\ m \in 0 .. l /\ 1 \in Int /\ \A j \in 1 .. m : s[j] \in A
    BY <1>1
  <2> HIDE DEF m, l
  <2>2. /\ SubSeq(s, 1, m) \in Seq(A)
        /\ Len(SubSeq(s, 1, m)) = IF 1 <= m THEN m - 1 + 1 ELSE 0
        /\ \A j \in 1 .. m - 1 + 1 : SubSeq(s, 1, m)[j] = s[1 + j - 1]
    BY <2>1, SubSeqProperties
  <2>3. Len(SubSeq(s, 1, m)) = m /\ \A j \in 1 .. m : SubSeq(s, 1, m)[j] = s[j]
    BY <1>1, <2>1, <2>2
  <2> QED
    BY <2>2, <2>3 DEF m
<1>3. b \in Seq(A) /\ Len(b) = l - i + 1 /\ \A j \in 1 .. l - i + 1 : b[j] = s[i + j - 1]
  <2>1. i \in Int /\ l \in Int /\ \A j \in i .. l : s[j] \in A
    BY <1>1
  <2> HIDE DEF l
  <2>2. /\ SubSeq(s, i, l) \in Seq(A)
        /\ Len(SubSeq(s, i, l)) = IF i <= l THEN l - i + 1 ELSE 0
        /\ \A j \in 1 .. l - i + 1 : SubSeq(s, i, l)[j] = s[i + j - 1]
    BY <2>1, SubSeqProperties
  <2>3. Len(SubSeq(s, i, l)) = l - i + 1
    BY <1>1, <2>1, <2>2
  <2> QED
    BY <2>2, <2>3
<1>4. InsertAt(s, i, e) = ae \o b
  BY DEF InsertAt
<1> HIDE DEF l, a, b
<1>5. /\ ae \in Seq(A) /\ Len(ae) = i
      /\ \A j \in 1 .. i : ae[j] = IF j < i THEN s[j] ELSE e
  BY <1>1, <1>2
<1> HIDE DEF ae
<1>6. ae \o b \in Seq(A) /\ Len(ae \o b) = l + 1
  BY <1>1, <1>3, <1>5
<1>7. ASSUME NEW j \in 1 .. l + 1
      PROVE  (ae \o b)[j] = IF j < i THEN s[j] ELSE IF j = i THEN e ELSE s[j - 1]
  <2>1. (ae \o b)[j] = IF j <= i THEN ae[j] ELSE b[j - i]
    BY <1>1, <1>3, <1>5, <1>7
  <2>2. CASE j <= i
    BY <1>1, <1>5, <1>7, <2>1, <2>2
  <2>3. CASE i < j
    <3>1. j - i \in 1 .. l - i + 1 /\ i + (j - i) - 1 = j - 1
      BY <1>1, <1>7, <2>3
    <3>2. b[j - i] = s[j - 1]
      BY <1>3, <3>1
    <3> QED
      BY <1>1, <1>7, <2>1, <2>3, <3>2
  <2>4. j <= i \/ i < j
    BY <1>1, <1>7
  <2> QED
    BY <2>2, <2>3, <2>4
<1> QED
  BY <1>4, <1>6, <1>7 DEF l

\* Putting an element into a ring drops the first one if there is no room.
LEMMA PutFacts ==
  ASSUME NEW A, NEW s \in Seq(A), NEW i \in 1 .. Len(s) + 1, NEW e \in A,
         NEW limit \in Nat \ {0}, Len(s) <= limit
  PROVE  /\ Put(s, i, e, limit) \in Seq(A)
         /\ Len(Put(s, i, e, limit)) \in 1 .. limit
         /\ \E c \in 0 .. 1 :
              /\ Len(Put(s, i, e, limit)) = Len(s) + 1 - c
              /\ \A j \in 1 .. Len(s) + 1 - c :
                   Put(s, i, e, limit)[j] =
                     IF j + c < i THEN s[j + c] ELSE IF j + c = i THEN e ELSE s[j + c - 1]
<1> DEFINE l == Len(s)
           t == InsertAt(s, i, e)
           p == Newest(t, limit)
           c == IF l < limit THEN 0 ELSE 1
<1>1. l \in Nat /\ i \in 1 .. l + 1 /\ limit \in Nat /\ l <= limit /\ limit # 0
  OBVIOUS
<1>2. /\ t \in Seq(A) /\ Len(t) = l + 1
      /\ \A j \in 1 .. l + 1 : t[j] = IF j < i THEN s[j] ELSE IF j = i THEN e ELSE s[j - 1]
  <2> HIDE DEF t, l, p, c
  <2>1. /\ InsertAt(s, i, e) \in Seq(A)
        /\ Len(InsertAt(s, i, e)) = Len(s) + 1
        /\ \A j \in 1 .. Len(s) + 1 :
             InsertAt(s, i, e)[j] = IF j < i THEN s[j] ELSE IF j = i THEN e ELSE s[j - 1]
    BY InsertAtFacts
  <2>2. t = InsertAt(s, i, e) /\ l = Len(s)
    BY DEF t, l
  <2> HIDE DEF t, l
  <2> QED
    BY <2>1, <2>2
<1>3. p = Put(s, i, e, limit)
  BY DEF Put
<1> HIDE DEF t, l
<1>4. /\ p \in Seq(A)
      /\ Len(p) = IF Len(t) <= limit THEN Len(t) ELSE limit
      /\ \A j \in 1 .. Len(p) : p[j] = t[Len(t) - Len(p) + j]
  BY <1>1, <1>2, NewestFacts
<1> HIDE DEF p
<1>5. c \in 0 .. 1 /\ Len(p) = l + 1 - c /\ Len(p) \in 1 .. limit
  BY <1>1, <1>2, <1>4
<1> HIDE DEF c
<1>6. ASSUME NEW j \in 1 .. l + 1 - c
      PROVE  p[j] = IF j + c < i THEN s[j + c] ELSE IF j + c = i THEN e ELSE s[j + c - 1]
  <2>1. j + c \in 1 .. l + 1 /\ Len(t) - Len(p) + j = j + c
    BY <1>1, <1>2, <1>5, <1>6
  <2>2. p[j] = t[j + c]
    BY <1>4, <1>5, <1>6, <2>1
  <2>3. t[j + c] = IF j + c < i THEN s[j + c] ELSE IF j + c = i THEN e ELSE s[j + c - 1]
    <3>1. PICK k \in 1 .. l + 1 : k = j + c
      BY <2>1
    <3>2. t[k] = IF k < i THEN s[k] ELSE IF k = i THEN e ELSE s[k - 1]
      BY <1>2
    <3> QED
      BY <1>1, <1>5, <3>1, <3>2
  <2> QED
    BY <2>2, <2>3
<1> QED
  BY <1>3, <1>4, <1>5, <1>6 DEF l

-----------------------------------------------------------------------------
(* Filling in *)

\* A ring of messages of M that holds no more than its limit.
RingOk(r, M) ==
  /\ r \in Ring
  /\ r.msgs \in Seq(M)
  /\ Len(r.msgs) <= r.limit
  /\ r.limit >= DefaultLimit
  /\ ~r.raised => r.limit = DefaultLimit

\* Messages of M as objects, and what filling in works on.
Objects(M) == [msg: M, at: Nat]

Fillings(r, M) ==
  {f \in [objs: Seq(Objects(M)), last: Objects(M)] : Len(f.objs) <= r.limit}

First(r) == [objs |-> Snapshot(r), last |-> Last(Snapshot(r))]

\* The object that a message is put in front of, or behind.
Needle(r, f, m) == IF Later(r, m) = {} THEN f.last ELSE Snapshot(r)[Min(Later(r, m))]

\* The snapshot has the messages of the ring.
LEMMA SnapshotFacts ==
  ASSUME NEW M, NEW r, RingOk(r, M)
  PROVE  /\ Snapshot(r) \in Seq(Objects(M))
         /\ Len(Snapshot(r)) = Len(r.msgs) /\ DOMAIN Snapshot(r) = DOMAIN r.msgs
         /\ \A i \in DOMAIN r.msgs : Snapshot(r)[i].msg = r.msgs[i] /\ Snapshot(r)[i].at = i
         /\ r.msgs # <<>> => First(r) \in Fillings(r, M)
<1> DEFINE q == r.msgs
           p == Snapshot(r)
<1>1. q \in Seq(M) /\ Len(q) <= r.limit /\ Len(q) \in Nat /\ DOMAIN q = 1 .. Len(q)
  BY DEF RingOk
<1>2. p = [i \in 1 .. Len(q) |-> [msg |-> q[i], at |-> i]]
  BY <1>1 DEF Snapshot
<1> HIDE DEF q, p
<1>3. \A i \in 1 .. Len(q) : [msg |-> q[i], at |-> i] \in Objects(M)
  BY <1>1 DEF Objects
<1>4. p \in Seq(Objects(M)) /\ Len(p) = Len(q) /\ DOMAIN p = DOMAIN q
  <2> DEFINE O == Objects(M)
             E(i) == [msg |-> q[i], at |-> i]
  <2>1. \A i \in 1 .. Len(q) : E(i) \in O
    BY <1>3
  <2>2. [i \in 1 .. Len(q) |-> E(i)] \in Seq(O)
    <3> HIDE DEF E, O
    <3> QED
      BY <1>1, <2>1
  <2>3. Len(p) = Len(q) /\ DOMAIN p = 1 .. Len(q)
    BY <1>1, <1>2
  <2> QED
    BY <1>1, <1>2, <2>2, <2>3
<1>5. \A i \in DOMAIN q : p[i].msg = q[i] /\ p[i].at = i
  BY <1>1, <1>2
<1>6. ASSUME q # <<>>
      PROVE  First(r) \in Fillings(r, M)
  <2>1. Len(p) \in 1 .. Len(q)
    BY <1>1, <1>4, <1>6
  <2>2. Last(p) \in Objects(M)
    BY <1>4, <2>1 DEF Last
  <2>3. First(r) = [objs |-> p, last |-> Last(p)]
    BY DEF First, p
  <2>4. First(r) \in [objs: Seq(Objects(M)), last: Objects(M)] /\ First(r).objs = p
    BY <1>4, <2>2, <2>3
  <2> QED
    BY <1>1, <1>4, <2>4 DEF Fillings
<1> QED
  BY <1>4, <1>5, <1>6 DEF p, q

\* What one more message makes of a filling f: if the needle is there, the message
\* is put before it, or behind it.
FilledBy(r, f, m, g) ==
  /\ Later(r, m) # {} =>
       Min(Later(r, m)) \in Later(r, m) /\ \A i \in Later(r, m) : Min(Later(r, m)) <= i
  /\ g.last = IF Later(r, m) = {} THEN New(m) ELSE f.last
  /\ \/ Needle(r, f, m) \notin Range(f.objs) /\ g.objs = f.objs
     \/ \E i \in DOMAIN f.objs :
          /\ f.objs[i] = Needle(r, f, m)
          /\ g.objs = Put(f.objs, IF Later(r, m) = {} THEN i + 1 ELSE i, New(m), r.limit)

\* FillOne is such a step.
LEMMA FillOneFacts ==
  ASSUME NEW M, NEW r, RingOk(r, M), NEW f \in Fillings(r, M), NEW m \in M, M \subseteq Nat
  PROVE  /\ FilledBy(r, f, m, FillOne(r, f, m))
         /\ FillOne(r, f, m) \in Fillings(r, M)
<1> DEFINE later == Later(r, m)
           needle == Needle(r, f, m)
           I == {i \in 1 .. Len(f.objs) : f.objs[i] = needle}
           at == IF I # {} THEN Min(I) ELSE 0
           place == IF later = {} THEN at + 1 ELSE at
           g == FillOne(r, f, m)
<1>1. /\ f.objs \in Seq(Objects(M)) /\ f.last \in Objects(M) /\ Len(f.objs) <= r.limit
      /\ DOMAIN f.objs = 1 .. Len(f.objs) /\ Len(f.objs) \in Nat
      /\ r.limit \in Nat \ {0}
  BY LimitAssumption DEF Fillings, RingOk, Ring
<1>2. later \subseteq Nat
  BY DEF Later, RingOk
<1>3. later # {} => Min(later) \in later /\ \A i \in later : Min(later) <= i
  <2> HIDE DEF later
  <2> QED
    BY <1>2, Least
<1>4. g = [objs |-> IF at = 0 THEN f.objs ELSE Put(f.objs, place, New(m), r.limit),
           last |-> IF later = {} THEN New(m) ELSE f.last]
  BY DEF FillOne, SelectInSeq, Needle
<1>5. I \subseteq Nat
  OBVIOUS
<1>6. I # {} => Min(I) \in I
  <2> HIDE DEF I
  <2> QED
    BY <1>5, Least
<1>7. New(m) \in Objects(M)
  BY DEF New, Objects
<1> HIDE DEF later, needle, g
<1>8. g.last = IF later = {} THEN New(m) ELSE f.last
  BY <1>4
<1>9. g.objs = IF at = 0 THEN f.objs ELSE Put(f.objs, place, New(m), r.limit)
  BY <1>4
<1>10. g.last \in Objects(M)
  BY <1>1, <1>7, <1>8
<1>11. CASE I = {}
  <2>1. g.objs = f.objs
    BY <1>9, <1>11
  <2>2. needle \notin Range(f.objs)
    BY <1>1, <1>11 DEF Range
  <2>3. g \in Fillings(r, M)
    <3>1. g = [objs |-> f.objs, last |-> g.last]
      BY <1>4, <1>11
    <3> QED
      BY <1>1, <1>10, <2>1, <3>1 DEF Fillings
  <2> QED
    BY <1>3, <1>8, <2>1, <2>2, <2>3 DEF FilledBy, later, needle, g
<1>12. CASE I # {}
  <2>1. PICK i \in DOMAIN f.objs : i = Min(I) /\ f.objs[i] = needle
    BY <1>1, <1>6, <1>12
  <2> DEFINE p == IF later = {} THEN i + 1 ELSE i
  <2>2. at = i /\ at # 0 /\ place = p
    BY <1>1, <1>12, <2>1
  <2>3. g.objs = Put(f.objs, p, New(m), r.limit)
    BY <1>9, <2>2
  <2>4. p \in 1 .. Len(f.objs) + 1
    BY <1>1
  <2>5. g.objs \in Seq(Objects(M)) /\ Len(g.objs) <= r.limit
    <3> HIDE DEF p
    <3>1. /\ Put(f.objs, p, New(m), r.limit) \in Seq(Objects(M))
          /\ Len(Put(f.objs, p, New(m), r.limit)) \in 1 .. r.limit
      BY <1>1, <1>7, <2>4, PutFacts
    <3> QED
      BY <1>1, <2>3, <3>1
  <2>6. g \in Fillings(r, M)
    <3>1. g = [objs |-> g.objs, last |-> g.last]
      <4> DEFINE x == IF at = 0 THEN f.objs ELSE Put(f.objs, place, New(m), r.limit)
                 y == IF later = {} THEN New(m) ELSE f.last
      <4>1. g = [objs |-> x, last |-> y]
        BY <1>4
      <4> HIDE DEF x, y
      <4> QED
        BY <4>1
    <3>2. g \in [objs: Seq(Objects(M)), last: Objects(M)]
      BY <1>10, <2>5, <3>1
    <3> QED
      BY <2>5, <3>2 DEF Fillings
  <2>7. \E j \in DOMAIN f.objs :
          /\ f.objs[j] = needle
          /\ g.objs = Put(f.objs, IF later = {} THEN j + 1 ELSE j, New(m), r.limit)
    BY <2>1, <2>3
  <2> QED
    BY <1>3, <1>8, <2>6, <2>7 DEF FilledBy, later, needle, g
<1> QED
  BY <1>11, <1>12

\* What filling in works on after the first i messages, for every i.
Filling(r, s, M) ==
  {f \in [0 .. Len(s) -> Fillings(r, M)] :
     /\ f[0] = First(r)
     /\ \A i \in 1 .. Len(s) : f[i] = FillOne(r, f[i - 1], s[i])
     /\ Filled(r, s) = f[Len(s)].objs}

\* What a ring is filled to is the last of a series that grows with the messages.
LEMMA FilledSteps ==
  ASSUME NEW M, NEW r, RingOk(r, M), NEW s \in Seq(M), M \subseteq Nat, r.msgs # <<>>
  PROVE  Filling(r, s, M) # {}
<1> DEFINE n == Len(s)
           F == Fillings(r, M)
           step == [i \in 1 .. n |-> [g \in F |-> FillOne(r, g, s[i])]]
           Body(f) == [i \in 0 .. n |->
                        IF i = 0 THEN [objs |-> Snapshot(r), last |-> Last(Snapshot(r))]
                        ELSE FillOne(r, f[i - 1], s[i])]
<1>1. n \in Nat /\ \A i \in 1 .. n : s[i] \in M
  OBVIOUS
<1>2. \A i \in 1 .. n : \A g \in F : FillOne(r, g, s[i]) \in F
  BY <1>1, FillOneFacts
<1>3. step \in Steps(n, F) /\ First(r) \in F
  <2>1. First(r) \in F
    BY SnapshotFacts
  <2> HIDE DEF F
  <2> QED
    BY <1>2, <2>1 DEF Steps
<1>4. PICK f \in Series(n, F, First(r), step) : TRUE
  <2>1. Series(n, F, First(r), step) # {}
    <3> HIDE DEF step, n, F
    <3> QED
      BY <1>1, <1>3, SeriesExists
  <2> QED
    BY <2>1
<1>5. f \in [0 .. n -> F] /\ f[0] = First(r) /\ \A i \in 1 .. n : f[i] = step[i][f[i - 1]]
  BY <1>4 DEF Series
<1>6. \A i \in 1 .. n : f[i] = FillOne(r, f[i - 1], s[i])
  <2>1. TAKE i \in 1 .. n
  <2>2. f[i - 1] \in F
    BY <1>1, <1>5
  <2> HIDE DEF F
  <2> QED
    BY <1>5, <2>2
<1>7. f = Body(f)
  <2>1. \A i \in 0 .. n : f[i] = Body(f)[i]
    <3>1. TAKE i \in 0 .. n
    <3>2. CASE i = 0
      BY <1>5, <3>2 DEF First
    <3>3. CASE i # 0
      <4>1. i \in 1 .. n
        BY <1>1, <3>3
      <4>2. f[i] = FillOne(r, f[i - 1], s[i])
        BY <1>6, <4>1
      <4> QED
        BY <3>3, <4>2
    <3> QED
      BY <3>2, <3>3
  <2>2. DOMAIN f = 0 .. n /\ f = [i \in 0 .. n |-> f[i]]
    BY <1>5
  <2> QED
    BY <2>1, <2>2
<1>8. PICK g : g = Body(g) /\ Filled(r, s) = g[n].objs
  BY <1>7 DEF Filled
<1>9. g = f
  <2> DEFINE T == {i \in 0 .. n : g[i] = f[i]}
  <2>1. 0 \in T
    BY <1>1, <1>5, <1>8 DEF First
  <2>2. ASSUME NEW i \in 1 .. n, i - 1 \in T
        PROVE  i \in T
    <3>1. g[i - 1] = f[i - 1] /\ i \in 0 .. n /\ i # 0
      BY <1>1, <2>2
    <3>2. g[i] = FillOne(r, g[i - 1], s[i])
      BY <1>8, <3>1
    <3> QED
      BY <1>6, <3>1, <3>2
  <2>3. 0 .. n \subseteq T
    <3> HIDE DEF T
    <3> QED
      BY <1>1, <2>1, <2>2, UpTo
  <2> QED
    BY <1>7, <1>8, <2>3
<1> QED
  BY <1>5, <1>6, <1>8, <1>9 DEF Filling

\* Objects in the order of their messages.
Sorted(objs) == \A i, j \in DOMAIN objs : i < j => objs[i].msg < objs[j].msg

\* What the objects are when another one was put where it belongs: they are in
\* order, and the one that got no place is older than all that have one.
PutWell(objs, p, o, q) ==
  /\ Sorted(q) /\ q # <<>>
  /\ Range(q) \subseteq Range(objs) \union {o}
  /\ \A x \in Range(objs) \union {o} : x \in Range(q) \/ \A y \in Range(q) : x.msg < y.msg
  /\ q[Len(q)] = IF p = Len(objs) + 1 THEN o ELSE objs[Len(objs)]

\* Put, at the place where the object belongs, does that.
LEMMA PutInOrder ==
  ASSUME NEW M, M \subseteq Nat, NEW objs \in Seq(Objects(M)), NEW o \in Objects(M),
         NEW limit \in Nat \ {0}, Len(objs) <= limit, objs # <<>>,
         NEW p \in 1 .. Len(objs) + 1,
         Sorted(objs),
         \A j \in 1 .. p - 1 : objs[j].msg < o.msg,
         \A j \in p .. Len(objs) : o.msg < objs[j].msg
  PROVE  PutWell(objs, p, o, Put(objs, p, o, limit))
<1> DEFINE q == Put(objs, p, o, limit)
           l == Len(objs)
           t == [j \in 1 .. l + 1 |-> IF j < p THEN objs[j] ELSE IF j = p THEN o ELSE objs[j - 1]]
<1>1. /\ q \in Seq(Objects(M)) /\ Len(q) \in 1 .. limit
      /\ \E c \in 0 .. 1 :
           /\ Len(q) = Len(objs) + 1 - c
           /\ \A j \in 1 .. Len(objs) + 1 - c :
                q[j] = IF j + c < p THEN objs[j + c] ELSE IF j + c = p THEN o ELSE objs[j + c - 1]
  <2> HIDE DEF q
  <2>1. q = Put(objs, p, o, limit)
    BY DEF q
  <2> DEFINE O == Objects(M)
  <2>2. objs \in Seq(O) /\ o \in O /\ p \in 1 .. Len(objs) + 1 /\ Len(objs) <= limit
    OBVIOUS
  <2> HIDE DEF O
  <2>3. /\ q \in Seq(O) /\ Len(q) \in 1 .. limit
        /\ \E c \in 0 .. 1 :
             /\ Len(q) = Len(objs) + 1 - c
             /\ \A j \in 1 .. Len(objs) + 1 - c :
                  q[j] = IF j + c < p THEN objs[j + c]
                         ELSE IF j + c = p THEN o ELSE objs[j + c - 1]
    BY <2>1, <2>2, PutFacts
  <2> QED
    BY <2>3 DEF O
<1>2. l \in Nat /\ l # 0 /\ DOMAIN objs = 1 .. l /\ p \in 1 .. l + 1
      /\ \A j \in 1 .. l : objs[j] \in Objects(M)
  OBVIOUS
<1> HIDE DEF q
<1>3. PICK c \in 0 .. 1 :
        /\ Len(q) = l + 1 - c
        /\ \A j \in 1 .. l + 1 - c :
             q[j] = IF j + c < p THEN objs[j + c] ELSE IF j + c = p THEN o ELSE objs[j + c - 1]
  BY <1>1
<1> HIDE DEF l
<1>4. \A j \in 1 .. l + 1 - c : q[j] = t[j + c] /\ j + c \in 1 .. l + 1
  <2>1. TAKE j \in 1 .. l + 1 - c
  <2>2. j + c \in 1 .. l + 1
    BY <1>2, <1>3
  <2> QED
    BY <1>2, <1>3, <2>2
<1>5. \A j \in 1 .. l + 1 : t[j] \in Objects(M) /\ t[j].msg \in Nat
  <2>1. TAKE j \in 1 .. l + 1
  <2>2. t[j] \in Objects(M)
    BY <1>2
  <2> QED
    BY <2>2 DEF Objects
<1>6. \A i, j \in 1 .. l + 1 : i < j => t[i].msg < t[j].msg
  <2>1. TAKE i, j \in 1 .. l + 1
  <2>2. HAVE i < j
  <2>3. CASE j < p
    <3>1. t[i] = objs[i] /\ t[j] = objs[j] /\ i \in 1 .. l /\ j \in 1 .. l
      BY <1>2, <2>2, <2>3
    <3> QED
      BY <1>2, <2>2, <3>1 DEF Sorted
  <2>4. CASE j = p
    <3>1. t[i] = objs[i] /\ t[j] = o /\ i \in 1 .. p - 1
      BY <1>2, <2>2, <2>4
    <3> QED
      BY <3>1
  <2>5. CASE i < p /\ p < j
    <3>1. t[i] = objs[i] /\ t[j] = objs[j - 1] /\ i \in 1 .. l /\ j - 1 \in 1 .. l /\ i < j - 1
      BY <1>2, <2>2, <2>5
    <3> QED
      BY <1>2, <3>1 DEF Sorted
  <2>6. CASE i = p
    <3>1. t[i] = o /\ t[j] = objs[j - 1] /\ j - 1 \in p .. l
      BY <1>2, <2>2, <2>6
    <3> QED
      BY <3>1 DEF l
  <2>7. CASE p < i
    <3>1. t[i] = objs[i - 1] /\ t[j] = objs[j - 1]
          /\ i - 1 \in 1 .. l /\ j - 1 \in 1 .. l /\ i - 1 < j - 1
      BY <1>2, <2>2, <2>7
    <3> QED
      BY <1>2, <3>1 DEF Sorted
  <2>8. j < p \/ j = p \/ (i < p /\ p < j) \/ i = p \/ p < i
    BY <1>2
  <2> QED
    BY <2>3, <2>4, <2>5, <2>6, <2>7, <2>8
<1>7. {t[j] : j \in 1 .. l + 1} = Range(objs) \union {o}
  <2>1. \A j \in 1 .. l + 1 : t[j] \in Range(objs) \union {o}
    BY <1>2 DEF Range
  <2>2. ASSUME NEW x \in Range(objs)
        PROVE  \E j \in 1 .. l + 1 : x = t[j]
    <3>1. PICK k \in 1 .. l : x = objs[k]
      BY <1>2 DEF Range
    <3>2. CASE k < p
      <4>1. k \in 1 .. l + 1 /\ t[k] = x
        BY <1>2, <3>1, <3>2
      <4> QED
        BY <4>1
    <3>3. CASE p <= k
      <4>1. k + 1 \in 1 .. l + 1 /\ ~(k + 1 < p) /\ k + 1 # p /\ k + 1 - 1 = k
        BY <1>2, <3>3
      <4>2. t[k + 1] = x
        BY <3>1, <4>1
      <4> QED
        BY <4>1, <4>2
    <3> QED
      BY <1>2, <3>2, <3>3
  <2>3. \E j \in 1 .. l + 1 : o = t[j]
    <3>1. p \in 1 .. l + 1 /\ t[p] = o
      BY <1>2
    <3> QED
      BY <3>1
  <2> QED
    BY <2>1, <2>2, <2>3
<1> HIDE DEF t
<1>8. DOMAIN q = 1 .. l + 1 - c /\ l + 1 - c \in Nat
  BY <1>1, <1>2, <1>3
<1>9. Sorted(q)
  <2>1. SUFFICES ASSUME NEW i \in 1 .. l + 1 - c, NEW j \in 1 .. l + 1 - c, i < j
                 PROVE  q[i].msg < q[j].msg
    BY <1>8 DEF Sorted
  <2>2. i + c < j + c
    BY <1>2, <2>1
  <2> QED
    BY <1>4, <1>6, <2>1, <2>2
<1>10. Range(q) = {t[j] : j \in 1 + c .. l + 1}
  <2>1. \A y \in Range(q) : \E j \in 1 + c .. l + 1 : y = t[j]
    <3>1. TAKE y \in Range(q)
    <3>2. PICK i \in 1 .. l + 1 - c : y = q[i]
      BY <1>8 DEF Range
    <3>3. i + c \in 1 + c .. l + 1 /\ y = t[i + c]
      BY <1>2, <1>4, <3>2
    <3> QED
      BY <3>3
  <2>2. \A j \in 1 + c .. l + 1 : t[j] \in Range(q)
    <3>1. TAKE j \in 1 + c .. l + 1
    <3>2. j - c \in 1 .. l + 1 - c /\ (j - c) + c = j
      BY <1>2
    <3>3. q[j - c] = t[j]
      BY <1>4, <3>2
    <3> QED
      BY <1>8, <3>2, <3>3 DEF Range
  <2> QED
    BY <2>1, <2>2
<1>11. Range(q) \subseteq Range(objs) \union {o}
  <2>1. \A j \in 1 + c .. l + 1 : j \in 1 .. l + 1
    BY <1>2
  <2> QED
    BY <1>7, <1>10, <2>1
<1>12. ASSUME NEW x \in Range(objs) \union {o}
       PROVE  x \in Range(q) \/ \A y \in Range(q) : x.msg < y.msg
  <2>1. PICK j \in 1 .. l + 1 : x = t[j]
    BY <1>7
  <2>2. CASE 1 + c <= j
    <3>1. j \in 1 + c .. l + 1
      BY <1>2, <2>2
    <3> QED
      BY <1>10, <2>1, <3>1
  <2>3. CASE j < 1 + c
    <3>1. \A i \in 1 + c .. l + 1 : i \in 1 .. l + 1 /\ j < i
      BY <1>2, <2>3
    <3> QED
      BY <1>6, <1>10, <2>1, <3>1
  <2>4. 1 + c <= j \/ j < 1 + c
    BY <2>1
  <2> QED
    BY <2>2, <2>3, <2>4
<1>13. q[Len(q)] = t[l + 1]
  <2>1. l + 1 - c \in 1 .. l + 1 - c /\ (l + 1 - c) + c = l + 1
    BY <1>1, <1>2, <1>3
  <2> QED
    BY <1>3, <1>4, <2>1
<1>14. t[l + 1] = IF p = l + 1 THEN o ELSE objs[l]
  <2>1. l + 1 \in 1 .. l + 1 /\ l + 1 - 1 = l /\ ~(l + 1 < p)
    BY <1>2
  <2> QED
    BY <1>2, <2>1 DEF t
<1>15. q # <<>>
  BY <1>1
<1> QED
  BY <1>9, <1>11, <1>12, <1>13, <1>14, <1>15 DEF PutWell, q, l

\* What holds of a filling after the first k messages of s: it is in order, its
\* last object is the one to put things behind, every object is one of the
\* snapshot or one of those messages, and what has no place is older than all
\* that have.
InPlace(r, s, k, f) ==
  /\ Sorted(f.objs)
  /\ f.objs # <<>>
  /\ f.last = f.objs[Len(f.objs)]
  /\ \A x \in Range(f.objs) :
        \/ x.at \in DOMAIN r.msgs /\ x = Snapshot(r)[x.at]
        \/ x.at = 0 /\ \E j \in 1 .. k : x.msg = s[j]
  /\ \A y \in Messages(r) \union {s[j] : j \in 1 .. k} :
        \/ \E x \in Range(f.objs) : x.msg = y
        \/ \A x \in Range(f.objs) : y < x.msg

\* Every message that is filled in finds its place.
LEMMA FillOneInPlace ==
  ASSUME NEW M, M \subseteq Nat, NEW r, RingOk(r, M), r.msgs # <<>>, Ascends(r.msgs),
         NEW s \in Seq(M), Ascends(s), Range(s) \cap Messages(r) = {},
         NEW k \in 1 .. Len(s), NEW f \in Fillings(r, M), InPlace(r, s, k - 1, f)
  PROVE  InPlace(r, s, k, FillOne(r, f, s[k]))
<1> DEFINE m == s[k]
           g == FillOne(r, f, m)
           objs == f.objs
           snap == Snapshot(r)
           later == Later(r, m)
           o == New(m)
           l == Len(objs)
<1>1. /\ m \in M /\ m \in Nat /\ k \in Nat /\ Len(s) \in Nat
      /\ DOMAIN s = 1 .. Len(s) /\ k \in DOMAIN s
      /\ \A j \in 1 .. Len(s) : s[j] \in Nat
  <2>1. m \in M /\ k \in Nat /\ Len(s) \in Nat /\ DOMAIN s = 1 .. Len(s) /\ k \in DOMAIN s
    OBVIOUS
  <2>2. \A j \in 1 .. Len(s) : s[j] \in M
    OBVIOUS
  <2> QED
    BY <2>1, <2>2
<1>2. /\ objs \in Seq(Objects(M)) /\ Len(objs) <= r.limit /\ l \in Nat \ {0}
      /\ DOMAIN objs = 1 .. l /\ r.limit \in Nat \ {0}
  <2>1. objs \in Seq(Objects(M)) /\ Len(objs) <= r.limit /\ objs # <<>>
    BY DEF Fillings, InPlace
  <2>2. r.limit \in Nat \ {0}
    BY LimitAssumption DEF RingOk, Ring
  <2> QED
    BY <2>1, <2>2
<1>3. /\ r.msgs \in Seq(M) /\ DOMAIN r.msgs = 1 .. Len(r.msgs) /\ Len(r.msgs) \in Nat
      /\ \A i \in DOMAIN r.msgs : r.msgs[i] \in Nat
  <2>1. r.msgs \in Seq(M)
    BY DEF RingOk
  <2>2. DOMAIN r.msgs = 1 .. Len(r.msgs) /\ Len(r.msgs) \in Nat
    BY <2>1
  <2>3. \A i \in DOMAIN r.msgs : r.msgs[i] \in M
    BY <2>1
  <2>4. \A i \in DOMAIN r.msgs : r.msgs[i] \in Nat
    BY <2>3
  <2> QED
    BY <2>1, <2>2, <2>4
<1>4. \A i \in DOMAIN r.msgs : snap[i].msg = r.msgs[i] /\ snap[i].at = i
  BY SnapshotFacts
<1>5. \A x \in Range(objs) : x \in Objects(M) /\ x.msg \in Nat /\ x.at \in Nat
  <2>1. TAKE x \in Range(objs)
  <2>2. x \in Objects(M)
    BY <1>2 DEF Range
  <2> QED
    BY <2>2 DEF Objects
<1>6. m \notin Messages(r)
  BY <1>1 DEF Range
<1>7. o = [msg |-> m, at |-> 0] /\ o \in Objects(M) /\ o.msg = m /\ o.at = 0
  BY <1>1 DEF New, Objects
<1>8. \A x \in Range(objs) :
        \/ x.at \in DOMAIN r.msgs /\ x = snap[x.at] /\ x.msg = r.msgs[x.at] /\ x.msg # m
        \/ x.at = 0 /\ x.msg < m /\ x.msg \notin Messages(r)
  <2>1. TAKE x \in Range(objs)
  <2>2. CASE x.at \in DOMAIN r.msgs /\ x = snap[x.at]
    <3>1. x.msg = r.msgs[x.at]
      BY <1>4, <2>2
    <3>2. x.msg \in Messages(r)
      BY <2>2, <3>1 DEF Messages, Range
    <3> QED
      BY <1>6, <2>2, <3>1, <3>2
  <2>3. CASE x.at = 0 /\ \E j \in 1 .. k - 1 : x.msg = s[j]
    <3>1. PICK j \in 1 .. k - 1 : x.msg = s[j]
      BY <2>3
    <3>2. j \in DOMAIN s /\ j < k
      BY <1>1
    <3>3. s[j] < m
      BY <1>1, <3>2 DEF Ascends
    <3>4. s[j] \notin Messages(r)
      BY <3>2 DEF Range
    <3> QED
      BY <2>3, <3>1, <3>3, <3>4
  <2> QED
    BY <2>2, <2>3 DEF InPlace
<1>9. /\ later # {} => Min(later) \in later /\ \A i \in later : Min(later) <= i
      /\ g.last = IF later = {} THEN o ELSE f.last
      /\ \/ Needle(r, f, m) \notin Range(objs) /\ g.objs = objs
         \/ \E i \in DOMAIN objs :
              /\ objs[i] = Needle(r, f, m)
              /\ g.objs = Put(objs, IF later = {} THEN i + 1 ELSE i, o, r.limit)
  <2> HIDE DEF m
  <2>a. m \in M
    BY <1>1
  <2>1. FilledBy(r, f, m, FillOne(r, f, m))
    BY <2>a, FillOneFacts
  <2> QED
    BY <2>1 DEF FilledBy
<1>10. /\ Sorted(objs) /\ f.last = objs[l]
       /\ \A y \in Messages(r) \union {s[j] : j \in 1 .. k - 1} :
            \/ \E x \in Range(objs) : x.msg = y
            \/ \A x \in Range(objs) : y < x.msg
  BY DEF InPlace
<1>11. {s[j] : j \in 1 .. k} = {s[j] : j \in 1 .. k - 1} \union {m}
  <2>1. 1 .. k = (1 .. k - 1) \union {k}
    BY <1>1
  <2> QED
    BY <2>1
<1>12. \A i \in DOMAIN objs : objs[i] \in Range(objs)
  BY DEF Range
<1>13. later = {i \in DOMAIN r.msgs : m < r.msgs[i]}
  BY DEF Later
\* What follows from the place at which the message is put.
<1> DEFINE Fits(p) ==
             /\ p \in 1 .. l + 1
             /\ g.objs = Put(objs, p, o, r.limit)
             /\ \A j \in 1 .. p - 1 : objs[j].msg < m
             /\ \A j \in p .. l : m < objs[j].msg
             /\ g.last = IF p = l + 1 THEN o ELSE objs[l]
             /\ \A y \in Messages(r) : m < y => \E x \in Range(objs) : x.msg <= y
<1>14. ASSUME NEW p, Fits(p)
       PROVE  InPlace(r, s, k, g)
  <2> DEFINE q == Put(objs, p, o, r.limit)
  <2>1. /\ Sorted(q) /\ q # <<>>
        /\ Range(q) \subseteq Range(objs) \union {o}
        /\ \A x \in Range(objs) \union {o} :
             x \in Range(q) \/ \A y \in Range(q) : x.msg < y.msg
        /\ q[Len(q)] = IF p = l + 1 THEN o ELSE objs[l]
    <3>1. /\ \A j \in 1 .. p - 1 : objs[j].msg < o.msg
          /\ \A j \in p .. Len(objs) : o.msg < objs[j].msg
      BY <1>7, <1>14
    <3>2. p \in 1 .. Len(objs) + 1 /\ objs # <<>>
      BY <1>2, <1>14
    <3> DEFINE lim == r.limit
    <3>3. objs \in Seq(Objects(M)) /\ o \in Objects(M) /\ Sorted(objs)
          /\ lim \in Nat \ {0} /\ Len(objs) <= lim
      BY <1>2, <1>7, <1>10
    <3>4. q = Put(objs, p, o, lim)
      OBVIOUS
    <3> HIDE DEF objs, o, q, lim, Fits
    <3>5. PutWell(objs, p, o, Put(objs, p, o, lim))
      BY <3>1, <3>2, <3>3, PutInOrder
    <3> QED
      BY <3>4, <3>5 DEF PutWell, l
  <2> HIDE DEF q
  <2>2. g.objs = q
    BY <1>14 DEF q
  <2>3. \A x \in Range(q) :
          \/ x.at \in DOMAIN r.msgs /\ x = snap[x.at]
          \/ x.at = 0 /\ \E j \in 1 .. k : x.msg = s[j]
    <3>1. TAKE x \in Range(q)
    <3>2. CASE x = o
      <4>1. k \in 1 .. k
        BY <1>1
      <4> QED
        BY <1>7, <3>2, <4>1
    <3>3. CASE x \in Range(objs)
      <4>1. \A j \in 1 .. k - 1 : j \in 1 .. k
        BY <1>1
      <4> QED
        BY <3>3, <4>1 DEF InPlace
    <3> QED
      BY <2>1, <3>2, <3>3
  <2>4. ASSUME NEW y \in Messages(r) \union {s[j] : j \in 1 .. k - 1}
        PROVE  \/ \E x \in Range(q) : x.msg = y
               \/ \A x \in Range(q) : y < x.msg
    <3>1. CASE \E x \in Range(objs) : x.msg = y
      <4>1. PICK x \in Range(objs) : x.msg = y
        BY <3>1
      <4> QED
        BY <2>1, <4>1
    <3>2. CASE \A x \in Range(objs) : y < x.msg
      <4>1. y < m
        <5>1. CASE y \in Messages(r)
          <6>1. y # m /\ y \in Nat
            BY <1>3, <1>6, <5>1 DEF Messages, Range
          <6>2. ~ (m < y)
            <7>1. SUFFICES ASSUME m < y
                           PROVE  FALSE
              OBVIOUS
            <7>2. PICK x \in Range(objs) : x.msg <= y
              BY <1>14, <5>1, <7>1
            <7>3. y < x.msg /\ x.msg \in Nat
              BY <1>5, <3>2
            <7> QED
              BY <6>1, <7>2, <7>3
          <6> QED
            BY <1>1, <6>1, <6>2
        <5>2. CASE y \in {s[j] : j \in 1 .. k - 1}
          <6>1. PICK j \in 1 .. k - 1 : y = s[j]
            BY <5>2
          <6>2. j \in DOMAIN s /\ j < k
            BY <1>1
          <6> QED
            BY <1>1, <6>1, <6>2 DEF Ascends
        <5> QED
          BY <5>1, <5>2
      <4> QED
        BY <1>7, <2>1, <3>2, <4>1
    <3> QED
      BY <1>10, <2>4, <3>1, <3>2
  <2>5. \/ \E x \in Range(q) : x.msg = m
        \/ \A x \in Range(q) : m < x.msg
    BY <1>7, <2>1
  <2> QED
    BY <1>11, <1>14, <2>1, <2>2, <2>3, <2>4, <2>5 DEF InPlace
<1>15. CASE later = {}
  <2>1. \A i \in DOMAIN r.msgs : ~ (m < r.msgs[i])
    BY <1>13, <1>15
  <2>2. \A x \in Range(objs) : x.msg < m
    <3>1. TAKE x \in Range(objs)
    <3>2. CASE x.at = 0 /\ x.msg < m
      BY <3>2
    <3>3. CASE x.at \in DOMAIN r.msgs /\ x.msg = r.msgs[x.at] /\ x.msg # m
      <4>1. ~ (m < x.msg)
        BY <2>1, <3>3
      <4> QED
        BY <1>1, <1>5, <3>3, <4>1
    <3> QED
      BY <1>8, <3>2, <3>3
  <2>3. Needle(r, f, m) = objs[l]
    BY <1>10, <1>15 DEF Needle
  <2>4. objs[l] \in Range(objs)
    BY <1>2, <1>12
  <2>5. PICK i \in DOMAIN objs : objs[i] = objs[l] /\ g.objs = Put(objs, i + 1, o, r.limit)
    BY <1>9, <1>15, <2>3, <2>4
  <2>6. i = l
    <3>1. ~ (i < l)
      <4>1. SUFFICES ASSUME i < l
                     PROVE  FALSE
        OBVIOUS
      <4>2. objs[i].msg < objs[l].msg
        <5>1. i \in DOMAIN objs /\ l \in DOMAIN objs
          BY <1>2
        <5> HIDE DEF objs, l
        <5> QED
          BY <1>10, <4>1, <5>1 DEF Sorted
      <4>3. objs[l].msg \in Nat
        BY <1>5, <2>4
      <4> QED
        BY <2>5, <4>2, <4>3
    <3> QED
      BY <1>2, <3>1
  <2>7. l + 1 \in 1 .. l + 1 /\ g.objs = Put(objs, l + 1, o, r.limit)
    BY <1>2, <2>5, <2>6
  <2>8. \A j \in 1 .. (l + 1) - 1 : objs[j].msg < m
    BY <1>2, <1>12, <2>2
  <2>9. \A j \in l + 1 .. l : m < objs[j].msg
    BY <1>2
  <2>10. g.last = IF l + 1 = l + 1 THEN o ELSE objs[l]
    BY <1>9, <1>15
  <2>11. \A y \in Messages(r) : ~ (m < y)
    BY <2>1 DEF Messages, Range
  <2>12. Fits(l + 1)
    <3> HIDE DEF g, objs, o, l, m
    <3> QED
      BY <2>7, <2>8, <2>9, <2>10, <2>11
  <2> HIDE DEF Fits
  <2> QED
    BY <1>14, <2>12
<1>16. CASE later # {}
  <2>1. PICK j0 \in DOMAIN r.msgs : /\ m < r.msgs[j0] /\ j0 = Min(later)
                                    /\ \A i \in later : j0 <= i
    BY <1>9, <1>13, <1>16
  <2>2. Needle(r, f, m) = snap[j0]
    BY <1>16, <2>1 DEF Needle
  <2> DEFINE needle == snap[j0]
  <2>3. needle.msg = r.msgs[j0] /\ needle.at = j0 /\ needle.msg \in Nat /\ m < needle.msg
    BY <1>3, <1>4, <2>1
  <2>4. \A i \in DOMAIN r.msgs : m < r.msgs[i] => needle.msg <= r.msgs[i]
    <3>1. TAKE i \in DOMAIN r.msgs
    <3>2. HAVE m < r.msgs[i]
    <3>3. j0 <= i
      BY <1>13, <2>1, <3>2
    <3>4. CASE j0 = i
      BY <1>3, <2>3, <3>4
    <3>5. CASE j0 < i
      BY <1>3, <2>3, <3>5 DEF Ascends
    <3> QED
      BY <1>3, <3>3, <3>4, <3>5
  <2>5. \A x \in Range(objs) : x.msg < needle.msg => x.msg < m
    <3>1. TAKE x \in Range(objs)
    <3>2. HAVE x.msg < needle.msg
    <3>3. CASE x.at = 0 /\ x.msg < m
      BY <3>3
    <3>4. CASE x.at \in DOMAIN r.msgs /\ x.msg = r.msgs[x.at] /\ x.msg # m
      <4>1. ~ (m < x.msg)
        BY <1>5, <2>3, <2>4, <3>2, <3>4
      <4> QED
        BY <1>1, <1>5, <3>4, <4>1
    <3> QED
      BY <1>8, <3>3, <3>4
  <2>6. g.last = objs[l]
    BY <1>9, <1>10, <1>16
  <2>7. CASE needle \in Range(objs)
    <3>1. PICK i \in DOMAIN objs : objs[i] = needle /\ g.objs = Put(objs, i, o, r.limit)
      BY <1>9, <1>16, <2>2, <2>7
    <3>2. i \in 1 .. l + 1 /\ i # l + 1 /\ i \in 1 .. l
      BY <1>2
    <3>3. \A j \in 1 .. i - 1 : objs[j].msg < m
      <4>1. TAKE j \in 1 .. i - 1
      <4>2. j \in DOMAIN objs /\ j < i
        BY <1>2
      <4>3. objs[j].msg < needle.msg
        BY <1>10, <3>1, <4>2 DEF Sorted
      <4> QED
        BY <1>12, <2>5, <4>2, <4>3
    <3>4. \A j \in i .. l : m < objs[j].msg
      <4>1. TAKE j \in i .. l
      <4>2. j \in DOMAIN objs /\ (j = i \/ i < j)
        BY <1>2
      <4>3. CASE j = i
        BY <2>3, <3>1, <4>3
      <4>4. CASE i < j
        <5>1. needle.msg < objs[j].msg
          BY <1>10, <3>1, <4>2, <4>4 DEF Sorted
        <5>2. objs[j].msg \in Nat
          BY <1>5, <1>12, <4>2
        <5> QED
          BY <1>1, <2>3, <5>1, <5>2
      <4> QED
        BY <4>2, <4>3, <4>4
    <3>5. g.last = IF i = l + 1 THEN o ELSE objs[l]
      BY <2>6, <3>2
    <3>6. \A y \in Messages(r) : m < y => \E x \in Range(objs) : x.msg <= y
      BY <2>4, <2>7 DEF Messages, Range
    <3>7. Fits(i)
      <4> HIDE DEF g, objs, o, l, m, needle
      <4> QED
        BY <3>1, <3>2, <3>3, <3>4, <3>5, <3>6
    <3> HIDE DEF Fits
    <3> QED
      BY <1>14, <3>7
  <2>8. CASE needle \notin Range(objs)
    <3>1. g.objs = objs
      <4> HIDE DEF g, objs, o, l, m, snap, needle
      <4>1. ~ \E i \in DOMAIN objs : objs[i] = Needle(r, f, m)
        BY <1>12, <2>2, <2>8 DEF needle
      <4> QED
        BY <1>9, <4>1
    <3>2. \A x \in Range(objs) : m < x.msg
      <4>1. needle.msg \in Messages(r)
        BY <2>1, <2>3 DEF Messages, Range
      <4>2. \A x \in Range(objs) : x.msg # needle.msg
        <5>1. TAKE x \in Range(objs)
        <5>2. CASE x.at = 0 /\ x.msg \notin Messages(r)
          BY <4>1, <5>2
        <5>3. CASE x.at \in DOMAIN r.msgs /\ x = snap[x.at] /\ x.msg = r.msgs[x.at]
          <6>1. x.at # j0
            BY <2>8, <5>3
          <6> DEFINE i == x.at
          <6>2. i \in DOMAIN r.msgs /\ j0 \in DOMAIN r.msgs /\ i # j0
            BY <2>1, <5>3, <6>1
          <6>3. /\ i \in Nat /\ j0 \in Nat
                /\ r.msgs[i] \in Nat /\ r.msgs[j0] \in Nat
            BY <1>3, <6>2
          <6>0. Ascends(r.msgs)
            OBVIOUS
          <6> HIDE DEF i
          <6>4. r.msgs[i] # r.msgs[j0]
            <7>1. CASE i < j0
              BY ONLY <6>0, <6>2, <6>3, <7>1 DEF Ascends
            <7>2. CASE j0 < i
              BY ONLY <6>0, <6>2, <6>3, <7>2 DEF Ascends
            <7> QED
              BY ONLY <6>2, <6>3, <7>1, <7>2
          <6> QED
            BY <2>3, <5>3, <6>4 DEF i
        <5> QED
          BY <1>8, <5>2, <5>3
      <4>3. \A x \in Range(objs) : needle.msg < x.msg
        BY <1>10, <4>1, <4>2
      <4> QED
        BY <1>1, <1>5, <2>3, <4>3
    <3>3. \A x \in Range(objs) :
            \/ x.at \in DOMAIN r.msgs /\ x = snap[x.at]
            \/ x.at = 0 /\ \E j \in 1 .. k : x.msg = s[j]
      <4>1. \A j \in 1 .. k - 1 : j \in 1 .. k
        BY <1>1
      <4> QED
        BY <4>1 DEF InPlace
    <3>4. \A y \in Messages(r) \union {s[j] : j \in 1 .. k} :
            \/ \E x \in Range(objs) : x.msg = y
            \/ \A x \in Range(objs) : y < x.msg
      BY <1>10, <1>11, <3>2
    <3>5. objs # <<>>
      BY <1>2
    <3> HIDE DEF g, objs, l, m
    <3>6. g.last = g.objs[Len(g.objs)]
      BY <2>6, <3>1 DEF l
    <3>7. Sorted(objs)
      BY <1>10
    <3>8. /\ Sorted(g.objs) /\ g.objs # <<>>
          /\ \A x \in Range(g.objs) :
               \/ x.at \in DOMAIN r.msgs /\ x = snap[x.at]
               \/ x.at = 0 /\ \E j \in 1 .. k : x.msg = s[j]
          /\ \A y \in Messages(r) \union {s[j] : j \in 1 .. k} :
               \/ \E x \in Range(g.objs) : x.msg = y
               \/ \A x \in Range(g.objs) : y < x.msg
      <4> HIDE DEF snap
      <4> QED
        BY <3>1, <3>3, <3>4, <3>5, <3>7
    <3>9. InPlace(r, s, k, g)
      BY <3>6, <3>8 DEF InPlace
    <3> QED
      BY <3>9 DEF g, m
  <2> QED
    BY <2>7, <2>8
<1> QED
  BY <1>15, <1>16

-----------------------------------------------------------------------------
(* The operations on a ring *)

\* What a sequence has that is put together from two.
LEMMA ConcatMembers ==
  ASSUME NEW A, NEW s \in Seq(A), NEW t \in Seq(A)
  PROVE  Range(s \o t) = Range(s) \union Range(t)
<1>1. /\ Len(s) \in Nat /\ Len(t) \in Nat
      /\ DOMAIN s = 1 .. Len(s) /\ DOMAIN t = 1 .. Len(t)
      /\ DOMAIN (s \o t) = 1 .. Len(s) + Len(t)
      /\ \A i \in 1 .. Len(s) + Len(t) :
           (s \o t)[i] = IF i <= Len(s) THEN s[i] ELSE t[i - Len(s)]
  OBVIOUS
<1>2. ASSUME NEW x \in Range(s \o t)
      PROVE  x \in Range(s) \union Range(t)
  <2>1. PICK i \in 1 .. Len(s) + Len(t) : x = (s \o t)[i]
    BY <1>1 DEF Range
  <2>2. CASE i <= Len(s)
    <3>1. i \in DOMAIN s /\ x = s[i]
      BY <1>1, <2>1, <2>2
    <3> QED
      BY <3>1 DEF Range
  <2>3. CASE ~(i <= Len(s))
    <3>1. i - Len(s) \in DOMAIN t /\ x = t[i - Len(s)]
      BY <1>1, <2>1, <2>3
    <3> QED
      BY <3>1 DEF Range
  <2> QED
    BY <2>2, <2>3
<1>3. ASSUME NEW x \in Range(s)
      PROVE  x \in Range(s \o t)
  <2>1. PICK i \in 1 .. Len(s) : x = s[i]
    BY <1>1 DEF Range
  <2>2. i \in DOMAIN (s \o t) /\ x = (s \o t)[i]
    BY <1>1, <2>1
  <2> QED
    BY <2>2 DEF Range
<1>4. ASSUME NEW x \in Range(t)
      PROVE  x \in Range(s \o t)
  <2>1. PICK i \in 1 .. Len(t) : x = t[i]
    BY <1>1 DEF Range
  <2>2. Len(s) + i \in DOMAIN (s \o t) /\ x = (s \o t)[Len(s) + i]
    BY <1>1, <2>1
  <2> QED
    BY <2>2 DEF Range
<1> QED
  BY <1>2, <1>3, <1>4

\* A sequence behind another one.
LEMMA ConcatAscends ==
  ASSUME NEW s \in Seq(Nat), NEW t \in Seq(Nat), Ascends(s), Ascends(t),
         \A x \in Range(s), y \in Range(t) : x < y
  PROVE  Ascends(s \o t)
<1>1. /\ s \o t \in Seq(Nat) /\ Len(s) \in Nat /\ Len(t) \in Nat
      /\ DOMAIN (s \o t) = 1 .. Len(s) + Len(t) /\ DOMAIN s = 1 .. Len(s) /\ DOMAIN t = 1 .. Len(t)
  OBVIOUS
<1>2. \A i \in 1 .. Len(s) : (s \o t)[i] = s[i]
  BY <1>1
<1>3. \A i \in Len(s) + 1 .. Len(s) + Len(t) : (s \o t)[i] = t[i - Len(s)] /\ i - Len(s) \in DOMAIN t
  BY <1>1
<1>4. SUFFICES ASSUME NEW i \in 1 .. Len(s) + Len(t), NEW j \in 1 .. Len(s) + Len(t), i < j
               PROVE  (s \o t)[i] < (s \o t)[j]
  BY <1>1 DEF Ascends
<1>5. CASE j <= Len(s)
  <2>1. i \in 1 .. Len(s) /\ j \in 1 .. Len(s)
    BY <1>1, <1>4, <1>5
  <2> QED
    BY <1>1, <1>2, <1>4, <2>1 DEF Ascends
<1>6. CASE i <= Len(s) /\ Len(s) < j
  <2>1. i \in 1 .. Len(s) /\ j \in Len(s) + 1 .. Len(s) + Len(t)
    BY <1>1, <1>4, <1>6
  <2>2. s[i] \in Range(s) /\ t[j - Len(s)] \in Range(t)
    BY <1>1, <1>3, <2>1 DEF Range
  <2> QED
    BY <1>2, <1>3, <2>1, <2>2
<1>7. CASE Len(s) < i
  <2>1. i \in Len(s) + 1 .. Len(s) + Len(t) /\ j \in Len(s) + 1 .. Len(s) + Len(t)
        /\ i - Len(s) < j - Len(s)
    BY <1>1, <1>4, <1>7
  <2> QED
    BY <1>3, <2>1 DEF Ascends
<1> QED
  BY <1>1, <1>5, <1>6, <1>7

\* A ring is what it holds, its limit and whether that is raised.
LEMMA RingEqual ==
  ASSUME NEW x \in Ring, NEW y \in Ring,
         x.msgs = y.msgs, x.limit = y.limit, x.raised = y.raised
  PROVE  x = y
BY DEF Ring

\* A ring with other messages.
LEMMA WithMessages ==
  ASSUME NEW M, M \subseteq Nat, NEW r, RingOk(r, M), NEW q \in Seq(M), Len(q) <= r.limit,
         NEW g, g = [r EXCEPT !.msgs = q]
  PROVE  RingOk(g, M) /\ g.msgs = q /\ g.limit = r.limit /\ g.raised = r.raised
<1>1. r \in Ring
  BY DEF RingOk
<1>2. q \in Seq(Nat)
  BY SeqMonotonic
<1>3. g \in Ring
  BY <1>1, <1>2 DEF Ring
<1>4. g.msgs = q /\ g.limit = r.limit /\ g.raised = r.raised
  BY <1>1 DEF Ring
<1>5. RingOk(g, M)
  BY <1>3, <1>4 DEF RingOk
<1> QED
  BY <1>4, <1>5

\* Channel::growMessageLimit keeps a ring well formed, and its messages.
LEMMA GrowFacts ==
  ASSUME NEW M, NEW r, RingOk(r, M), NEW by \in Nat
  PROVE  /\ RingOk(Grow(r, by), M)
         /\ Grow(r, by).msgs = r.msgs
         /\ Grow(r, by).limit = r.limit + by
         /\ Grow(r, by).raised = (r.raised \/ by # 0)
<1>1. r \in Ring /\ r.limit \in Nat /\ r.raised \in BOOLEAN /\ r.msgs \in Seq(M) /\ r.msgs \in Seq(Nat)
  BY DEF RingOk, Ring
<1>2. Len(r.msgs) <= r.limit /\ r.limit >= DefaultLimit /\ Len(r.msgs) \in Nat /\ DefaultLimit \in Nat
      /\ (~r.raised => r.limit = DefaultLimit)
  BY <1>1, LimitAssumption DEF RingOk
<1>3. CASE by = 0
  <2>1. Grow(r, by) = r
    BY <1>3 DEF Grow
  <2> QED
    BY <1>1, <1>3, <2>1
<1>4. CASE by # 0
  <2> DEFINE g == Grow(r, by)
  <2>1. g = [r EXCEPT !.limit = r.limit + by, !.raised = TRUE]
    BY <1>4 DEF Grow
  <2> HIDE DEF g
  <2>2. g \in Ring
    <3>1. r.limit + by \in Nat
      BY <1>1
    <3> DEFINE n == r.limit + by
    <3> HIDE DEF n
    <3>2. g = [r EXCEPT !.limit = n, !.raised = TRUE]
      BY <2>1 DEF n
    <3>3. n \in Nat
      BY <3>1 DEF n
    <3> QED
      BY <1>1, <3>2, <3>3 DEF Ring
  <2>3. g.msgs = r.msgs /\ g.limit = r.limit + by /\ g.raised
    BY <1>1, <2>1 DEF Ring
  <2>4. Len(g.msgs) <= g.limit /\ g.limit >= DefaultLimit
    BY <1>1, <1>2, <2>3
  <2>5. g.raised = TRUE
    BY <1>1, <2>1 DEF Ring
  <2> QED
    BY <1>1, <1>4, <2>2, <2>3, <2>4, <2>5 DEF RingOk, g
<1> QED
  BY <1>3, <1>4

\* A ring that was reset has its newest messages, and the default limit.
LEMMA ResetFacts ==
  ASSUME NEW M, M \subseteq Nat, NEW r, RingOk(r, M)
  PROVE  /\ RingOk(Reset(r), M)
         /\ Reset(r).limit = DefaultLimit
         /\ Reset(r).raised = FALSE
         /\ Reset(r).msgs = Newest(r.msgs, DefaultLimit)
<1>1. r \in Ring /\ r.limit \in Nat /\ r.raised \in BOOLEAN /\ r.msgs \in Seq(M)
  BY DEF RingOk, Ring
<1>2. DefaultLimit \in Nat /\ (~r.raised => r.limit = DefaultLimit) /\ Len(r.msgs) <= r.limit
  BY LimitAssumption DEF RingOk
<1> DEFINE q == Newest(r.msgs, DefaultLimit)
<1>3. q \in Seq(M) /\ Len(q) <= DefaultLimit
  BY <1>1, <1>2, NewestFacts
<1>4. CASE ~r.raised
  <2>1. q = r.msgs
    BY <1>2, <1>4 DEF Newest
  <2>2. Reset(r) = r
    BY <1>4 DEF Reset
  <2> QED
    BY <1>1, <1>2, <1>4, <2>1, <2>2
<1>5. CASE r.raised
  <2> HIDE DEF q
  <2>1. Reset(r) = [msgs |-> q, limit |-> DefaultLimit, raised |-> FALSE]
    BY <1>5 DEF Reset, EmptyRing, q
  <2>2. q \in Seq(Nat)
    BY <1>3, SeqMonotonic
  <2>3. RingOk(Reset(r), M)
    BY <1>2, <1>3, <2>1, <2>2 DEF RingOk, Ring
  <2> QED
    BY <2>1, <2>3 DEF q
<1> QED
  BY <1>1, <1>4, <1>5

\* Channel::addMessagesAtStart: as many of the newest messages as there is room for.
LEMMA PushFrontFacts ==
  ASSUME NEW M, M \subseteq Nat, NEW r, RingOk(r, M), NEW s \in Seq(M)
  PROVE  /\ RingOk(PushFront(r, s), M)
         /\ PushFront(r, s).msgs = Fitting(r, s) \o r.msgs
         /\ PushFront(r, s).limit = r.limit
         /\ PushFront(r, s).raised = r.raised
         /\ Fitting(r, s) \in Seq(M)
         /\ Len(Fitting(r, s)) + Len(r.msgs) <= r.limit
         /\ r.limit - Len(r.msgs) \in Nat
<1>1. r.msgs \in Seq(M) /\ Len(r.msgs) <= r.limit /\ r.limit \in Nat /\ Len(r.msgs) \in Nat
  BY DEF RingOk, Ring
<1>2. r.limit - Len(r.msgs) \in Nat
  BY <1>1
<1>3. Fitting(r, s) \in Seq(M) /\ Len(Fitting(r, s)) <= r.limit - Len(r.msgs)
  <2> DEFINE n == r.limit - Len(r.msgs)
  <2>1. n \in Nat
    BY <1>2
  <2> HIDE DEF n
  <2>2. Newest(s, n) \in Seq(M) /\ Len(Newest(s, n)) <= n
    BY <2>1, NewestFacts
  <2> QED
    BY <2>2 DEF Fitting, n
<1> DEFINE f == Fitting(r, s)
           q == f \o r.msgs
<1> HIDE DEF f
<1>4. q \in Seq(M) /\ Len(q) = Len(f) + Len(r.msgs) /\ Len(f) \in Nat
  BY <1>1, <1>3 DEF f
<1>5. Len(q) <= r.limit
  BY <1>1, <1>3, <1>4 DEF f
<1>6. PushFront(r, s) = [r EXCEPT !.msgs = q]
  BY DEF PushFront, f
<1> HIDE DEF q
<1>7. /\ RingOk(PushFront(r, s), M) /\ PushFront(r, s).msgs = q
      /\ PushFront(r, s).limit = r.limit /\ PushFront(r, s).raised = r.raised
  <2> DEFINE g == PushFront(r, s)
  <2>1. g = [r EXCEPT !.msgs = q]
    BY <1>6
  <2>2. q \in Seq(M) /\ Len(q) <= r.limit
    BY <1>4, <1>5
  <2> HIDE DEF g
  <2>3. RingOk(g, M) /\ g.msgs = q /\ g.limit = r.limit /\ g.raised = r.raised
    BY <2>1, <2>2, WithMessages
  <2> QED
    BY <2>3 DEF g
<1>8. Len(f) + Len(r.msgs) <= r.limit
  BY <1>4, <1>5
<1> QED
  BY <1>2, <1>3, <1>7, <1>8 DEF f, q

\* Channel::addMessage: the newest messages, with room for one more in a raised ring.
LEMMA PushFacts ==
  ASSUME NEW M, M \subseteq Nat, NEW r, RingOk(r, M), NEW m \in M
  PROVE  /\ RoomForOne(r) \in 0 .. 1
         /\ RingOk(Push(r, m), M)
         /\ Push(r, m).limit = r.limit + RoomForOne(r)
         /\ Push(r, m).raised = r.raised
         /\ Push(r, m).msgs = Newest(Append(r.msgs, m), r.limit + RoomForOne(r))
<1> DEFINE by == RoomForOne(r)
           h == Grow(r, by)
           a == Append(r.msgs, m)
           q == Newest(a, h.limit)
           g == Push(r, m)
<1>1. by \in 0 .. 1 /\ (by # 0 => r.raised)
  BY DEF RoomForOne
<1>2. r.msgs \in Seq(M) /\ r.limit \in Nat /\ r.raised \in BOOLEAN
  BY DEF RingOk, Ring
<1>3. a \in Seq(M)
  BY <1>2
<1> HIDE DEF by
<1>4. RingOk(h, M) /\ h.msgs = r.msgs /\ h.limit = r.limit + by /\ h.raised = (r.raised \/ by # 0)
  <2>1. by \in Nat
    BY <1>1
  <2> QED
    BY <2>1, GrowFacts
<1>5. h.raised = r.raised /\ h.limit \in Nat
  BY <1>1, <1>2, <1>4
<1>6. g = [h EXCEPT !.msgs = q]
  BY <1>4 DEF Push, by
<1> HIDE DEF a, h
<1>7. q \in Seq(M) /\ Len(q) <= h.limit
  BY <1>3, <1>5, NewestFacts
<1> HIDE DEF q, g
<1>8. RingOk(g, M) /\ g.msgs = q /\ g.limit = h.limit /\ g.raised = h.raised
  BY <1>4, <1>6, <1>7, WithMessages
<1> QED
  BY <1>1, <1>4, <1>5, <1>8 DEF by, q, a, g

\* Channel::fillInMissingMessages keeps a ring well formed.
LEMMA FillInFacts ==
  ASSUME NEW M, M \subseteq Nat, NEW r, RingOk(r, M), NEW s \in Seq(M)
  PROVE  /\ RingOk(FillIn(r, s), M)
         /\ FillIn(r, s).limit = r.limit
         /\ FillIn(r, s).raised = r.raised
<1>1. CASE r.msgs = <<>>
  <2>1. FillIn(r, s) = PushFront(r, s)
    BY <1>1 DEF FillIn
  <2>2. RingOk(PushFront(r, s), M) /\ PushFront(r, s).limit = r.limit /\ PushFront(r, s).raised = r.raised
    BY PushFrontFacts
  <2> QED
    BY <2>1, <2>2
<1>2. CASE r.msgs # <<>>
  <2> DEFINE t == MissingIn(r, s)
             filled == Filled(r, t)
             q == [i \in DOMAIN filled |-> filled[i].msg]
             g == FillIn(r, s)
  <2>1. t \in Seq(M)
    BY WithoutMembers DEF MissingIn
  <2> HIDE DEF t
  <2>2. PICK f \in Filling(r, t, M) : TRUE
    BY <1>2, <2>1, FilledSteps
  <2>3. Len(t) \in 0 .. Len(t)
    BY <2>1
  <2>4. f[Len(t)] \in Fillings(r, M) /\ filled = f[Len(t)].objs
    BY <2>2, <2>3 DEF Filling
  <2>5. filled \in Seq(Objects(M)) /\ Len(filled) <= r.limit
    BY <2>4 DEF Fillings
  <2>6. g = [r EXCEPT !.msgs = q]
    BY <1>2 DEF FillIn, t
  <2> HIDE DEF filled
  <2>7. q \in Seq(M) /\ Len(q) <= r.limit
    <3>1. DOMAIN filled = 1 .. Len(filled) /\ Len(filled) \in Nat
      BY <2>5
    <3>2. \A i \in 1 .. Len(filled) : filled[i].msg \in M
      <4>1. TAKE i \in 1 .. Len(filled)
      <4>2. filled[i] \in Objects(M)
        BY <2>5
      <4> QED
        BY <4>2 DEF Objects
    <3>3. q = [i \in 1 .. Len(filled) |-> filled[i].msg]
      BY <3>1
    <3> QED
      BY <2>5, <3>1, <3>2, <3>3
  <2> HIDE DEF q, g
  <2>8. RingOk(g, M) /\ g.msgs = q /\ g.limit = r.limit /\ g.raised = r.raised
    BY <2>6, <2>7, WithMessages
  <2> QED
    BY <2>8 DEF g
<1> QED
  BY <1>1, <1>2

\* What a ring in order is when messages in order were filled in: its messages are
\* in order, they are some of those that were there or came, and no message that
\* is not older than one of them is missing.
FilledWell(r, s, g) ==
  /\ Ascends(g.msgs)
  /\ Messages(g) \subseteq Messages(r) \union Range(s)
  /\ \A x \in Messages(g), y \in Messages(r) \union Range(s) : x <= y => y \in Messages(g)

(* What fillInMissingMessages() makes of a ring in order: it stays in order, *)
(* it holds nothing but what it had and what came, and of these it lacks     *)
(* nothing that is newer than something it kept.                             *)
THEOREM FillInOrder ==
  ASSUME NEW M, M \subseteq Nat, NEW r, RingOk(r, M), NEW s \in Seq(M),
         Ascends(r.msgs), Ascends(s)
  PROVE  FilledWell(r, s, FillIn(r, s))
<1>1. s \in Seq(Nat) /\ r.msgs \in Seq(M) /\ r.limit \in Nat /\ r \in Ring
  BY SeqMonotonic DEF RingOk, Ring
<1>2. CASE r.msgs = <<>>
  <2> DEFINE g == FillIn(r, s)
             q == Fitting(r, s)
  <2>1. g = PushFront(r, s)
    BY <1>2 DEF FillIn
  <2>2. g.msgs = q \o r.msgs /\ q \in Seq(M)
    <3> HIDE DEF g, q
    <3> QED
      BY <2>1, PushFrontFacts DEF q
  <2>3. g.msgs = q
    <3> HIDE DEF g, q
    <3> QED
      BY <1>2, <2>2
  <2>4. Messages(r) = {}
    BY <1>2 DEF Messages, Range
  <2>5. Len(r.msgs) = 0
    BY <1>2
  <2> DEFINE n == r.limit - Len(r.msgs)
  <2>6. n \in Nat /\ q = Newest(s, n)
    BY <1>1, <2>5 DEF Fitting
  <2> HIDE DEF n, g, q
  <2>7. Range(q) \subseteq Range(s)
    BY <1>1, <2>6, NewestMembers
  <2>8. /\ Ascends(q)
        /\ \A x \in Range(q), y \in Range(s) : x <= y => y \in Range(q)
    BY <1>1, <2>6, NewestAscends
  <2>9. FilledWell(r, s, g)
    BY <2>3, <2>4, <2>7, <2>8 DEF FilledWell, Messages
  <2> QED
    BY <2>9 DEF g
<1>3. CASE r.msgs # <<>>
  <2> DEFINE t == MissingIn(r, s)
             filled == Filled(r, t)
             q == [i \in DOMAIN filled |-> filled[i].msg]
             g == FillIn(r, s)
  <2>1. t \in Seq(M) /\ Range(t) = Range(s) \ Messages(r)
    BY WithoutMembers DEF MissingIn
  <2>2. Ascends(t)
    BY <1>1, WithoutAscends DEF MissingIn
  <2>3. g = [r EXCEPT !.msgs = q]
    BY <1>3 DEF FillIn
  <2> HIDE DEF t
  <2>4. PICK f \in Filling(r, t, M) : TRUE
    BY <1>3, <2>1, FilledSteps
  <2>5. /\ f \in [0 .. Len(t) -> Fillings(r, M)] /\ f[0] = First(r)
        /\ \A i \in 1 .. Len(t) : f[i] = FillOne(r, f[i - 1], t[i])
        /\ filled = f[Len(t)].objs
    BY <2>4 DEF Filling
  <2> DEFINE T == {i \in 0 .. Len(t) : InPlace(r, t, i, f[i])}
  <2>6. 0 \in T
    <3> DEFINE p == Snapshot(r)
    <3>1. /\ p \in Seq(Objects(M)) /\ Len(p) = Len(r.msgs) /\ DOMAIN p = DOMAIN r.msgs
          /\ \A i \in DOMAIN r.msgs : p[i].msg = r.msgs[i] /\ p[i].at = i
      BY SnapshotFacts
    <3>2. f[0].objs = p /\ f[0].last = p[Len(p)]
      BY <2>5 DEF First, Last
    <3>3. 0 \in 0 .. Len(t)
      BY <2>1
    <3> HIDE DEF p
    <3>4. Sorted(p)
      BY <3>1 DEF Sorted, Ascends
    <3>5. p # <<>>
      BY <1>1, <1>3, <3>1
    <3>6. \A x \in Range(p) : x.at \in DOMAIN r.msgs /\ x = p[x.at]
      <4>1. TAKE x \in Range(p)
      <4>2. PICK i \in DOMAIN r.msgs : x = p[i]
        BY <3>1 DEF Range
      <4> QED
        BY <3>1, <4>2
    <3>7. \A y \in Messages(r) : \E x \in Range(p) : x.msg = y
      <4>1. TAKE y \in Messages(r)
      <4>2. PICK i \in DOMAIN r.msgs : y = r.msgs[i]
        BY DEF Messages, Range
      <4>3. p[i] \in Range(p) /\ p[i].msg = y
        BY <3>1, <4>2 DEF Range
      <4> QED
        BY <4>3
    <3>8. {t[j] : j \in 1 .. 0} = {}
      OBVIOUS
    <3>9. InPlace(r, t, 0, f[0])
      BY <3>2, <3>4, <3>5, <3>6, <3>7, <3>8 DEF InPlace, p
    <3> QED
      BY <3>3, <3>9
  <2>7. ASSUME NEW k \in 1 .. Len(t), k - 1 \in T
        PROVE  k \in T
    <3>1. Len(t) \in Nat
      BY <2>1
    <3>2. k - 1 \in 0 .. Len(t) /\ k \in 0 .. Len(t)
      BY <3>1
    <3> DEFINE e == f[k - 1]
    <3>3. e \in Fillings(r, M) /\ InPlace(r, t, k - 1, e) /\ f[k] = FillOne(r, e, t[k])
      BY <2>5, <2>7, <3>2
    <3>4. Range(t) \cap Messages(r) = {}
      BY <2>1
    <3> HIDE DEF e
    <3>5. InPlace(r, t, k, FillOne(r, e, t[k]))
      BY <1>3, <2>1, <2>2, <3>3, <3>4, FillOneInPlace
    <3> QED
      BY <3>2, <3>3, <3>5
  <2>8. Len(t) \in T
    <3>1. Len(t) \in Nat
      BY <2>1
    <3>2. 0 .. Len(t) \subseteq T
      <4> HIDE DEF T
      <4> QED
        BY <2>6, <2>7, <3>1, UpTo
    <3>3. Len(t) \in 0 .. Len(t)
      BY <3>1
    <3> QED
      BY <3>2, <3>3
  <2> DEFINE u == f[Len(t)]
  <2>9. InPlace(r, t, Len(t), u) /\ filled = u.objs
    BY <2>5, <2>8
  <2> HIDE DEF T, u, filled
  <2>10. q = [i \in DOMAIN filled |-> filled[i].msg]
    OBVIOUS
  <2>11. g.msgs = q
    <3> HIDE DEF q, g
    <3> QED
      BY <1>1, <2>3 DEF Ring
  <2> HIDE DEF q
  <2>12. Ascends(q)
    BY <2>9, <2>10 DEF InPlace, Sorted, Ascends
  <2>13. Range(q) = {x.msg : x \in Range(filled)}
    BY <2>10 DEF Range
  <2>14. Range(t) = {t[j] : j \in 1 .. Len(t)}
    BY <2>1, RangeEquality
  <2>15. \A x \in Range(filled) : x.msg \in Messages(r) \union Range(t)
    <3>1. TAKE x \in Range(filled)
    <3>2. CASE x.at \in DOMAIN r.msgs /\ x = Snapshot(r)[x.at]
      <4>1. x.msg = r.msgs[x.at]
        BY <3>2, SnapshotFacts
      <4> QED
        BY <3>2, <4>1 DEF Messages, Range
    <3>3. CASE \E j \in 1 .. Len(t) : x.msg = t[j]
      BY <2>14, <3>3
    <3> QED
      BY <2>9, <3>2, <3>3 DEF InPlace
  <2>16. \A y \in Messages(r) \union Range(t) :
            \/ \E x \in Range(filled) : x.msg = y
            \/ \A x \in Range(filled) : y < x.msg
    BY <2>9, <2>14 DEF InPlace
  <2>17. Messages(r) \union Range(t) = Messages(r) \union Range(s)
    BY <2>1
  <2>18. Range(q) \subseteq Messages(r) \union Range(s)
    BY <2>13, <2>15, <2>17
  <2>19. Messages(r) \union Range(s) \subseteq Nat
    <3>1. Range(s) \subseteq Nat /\ Range(r.msgs) \subseteq M
      BY <1>1, RangeOfSeq
    <3> QED
      BY <3>1 DEF Messages
  <2>20. ASSUME NEW x \in Range(q), NEW y \in Messages(r) \union Range(s), x <= y
         PROVE  y \in Range(q)
    <3>1. PICK z \in Range(filled) : x = z.msg
      BY <2>13
    <3>2. x \in Nat /\ y \in Nat
      BY <2>18, <2>19
    <3>3. ~ (y < x)
      BY <2>20, <3>2
    <3>4. \E v \in Range(filled) : v.msg = y
      BY <2>16, <2>17, <3>1, <3>3
    <3> QED
      BY <2>13, <3>4
  <2> HIDE DEF g
  <2>21. FilledWell(r, s, g)
    BY <2>11, <2>12, <2>18, <2>20 DEF FilledWell, Messages
  <2> QED
    BY <2>21 DEF g
<1> QED
  BY <1>2, <1>3

\* More messages may be in a ring than are.
LEMMA RingOkGrows ==
  ASSUME NEW M, NEW N, M \subseteq N, NEW r, RingOk(r, M)
  PROVE  RingOk(r, N)
<1>1. r.msgs \in Seq(N)
  BY SeqMonotonic DEF RingOk
<1> QED
  BY <1>1 DEF RingOk

\* What does not fit, if anything.
LEMMA MaxWithZero ==
  ASSUME NEW a \in Int
  PROVE  Max({0, a}) = IF a > 0 THEN a ELSE 0
<1> DEFINE m == IF a > 0 THEN a ELSE 0
<1>1. m \in {0, a} /\ \A y \in {0, a} : m >= y
  OBVIOUS
<1>2. \A x \in {0, a} : (\A y \in {0, a} : x >= y) => x = m
  OBVIOUS
<1> QED
  BY <1>1, <1>2 DEF Max


-----------------------------------------------------------------------------
(* Adding a message where it belongs *)

\* From g on, the messages of q are in their order.
Rising(q, g) == \A i, j \in DOMAIN q : i < j /\ g <= q[i] => q[i] < q[j]

\* q with m at the place k.
Inserted(q, k, m) ==
  [i \in 1 .. Len(q) + 1 |-> IF i < k THEN q[i] ELSE IF i = k THEN m ELSE q[i - 1]]

\* The message m, which q lacks, is put in front of the first one that is newer, and
\* the first one is dropped if there were n.
AddedAt(q, m, n, k, d, v) ==
  /\ k \in 1 .. Len(q) + 1 /\ d = IF Len(q) < n THEN 0 ELSE 1
  /\ \A i \in 1 .. k - 1 : q[i] < m
  /\ k <= Len(q) => m < q[k]
  /\ Len(v) = Len(q) + 1 - d
  /\ \A i \in 1 .. Len(v) : v[i] = Inserted(q, k, m)[i + d]

Adds(q, m, n, v) ==
  IF m \in Range(q) THEN v = q ELSE \E k \in Nat, d \in 0 .. 1 : AddedAt(q, m, n, k, d, v)

\* The messages of a sequence by their places.
LEMMA InRange ==
  ASSUME NEW q \in Seq(Nat)
  PROVE  /\ Len(q) \in Nat /\ DOMAIN q = 1 .. Len(q)
         /\ \A i \in 1 .. Len(q) : q[i] \in Nat /\ q[i] \in Range(q)
         /\ \A x \in Range(q) : x \in Nat /\ \E i \in 1 .. Len(q) : x = q[i]
BY DEF Range

\* What is known of such a sequence t.
IsInserted(q, k, m, g, t) ==
  /\ t \in Seq(Nat) /\ Len(t) = Len(q) + 1
  /\ \A i \in 1 .. Len(q) + 1 :
       t[i] = IF i < k THEN q[i] ELSE IF i = k THEN m ELSE q[i - 1]
  /\ Range(t) = Range(q) \union {m}
  /\ Rising(t, g)

\* From g on, what is further behind is newer.
LEMMA LaterIsGreater ==
  ASSUME NEW q \in Seq(Nat), NEW g \in Nat, Rising(q, g), NEW i \in 1 .. Len(q),
         NEW j \in 1 .. Len(q), i <= j, g <= q[i]
  PROVE  q[i] <= q[j] /\ g <= q[j] /\ (i < j => q[i] < q[j])
<1>1. DOMAIN q = 1 .. Len(q) /\ q[i] \in Nat /\ q[j] \in Nat
  BY InRange
<1>2. i < j => q[i] < q[j]
  BY <1>1 DEF Rising
<1>3. i < j \/ i = j
  OBVIOUS
<1> QED
  BY <1>1, <1>2, <1>3

\* In a sequence in order, what is further behind is newer.
LEMMA NotLess ==
  ASSUME NEW q \in Seq(Nat), Ascends(q), NEW i \in 1 .. Len(q), NEW j \in 1 .. Len(q), i <= j
  PROVE  q[i] <= q[j] /\ (i < j => q[i] < q[j])
<1>1. DOMAIN q = 1 .. Len(q) /\ q[i] \in Nat /\ q[j] \in Nat
  BY InRange
<1>2. i < j => q[i] < q[j]
  BY <1>1 DEF Ascends
<1>3. i < j \/ i = j
  OBVIOUS
<1> QED
  BY <1>1, <1>2, <1>3

\* A message that is put in front of the first newer one.
LEMMA InsertedFacts ==
  ASSUME NEW q \in Seq(Nat), NEW m \in Nat, NEW k \in 1 .. Len(q) + 1, m \notin Range(q),
         \A i \in 1 .. k - 1 : q[i] < m, k <= Len(q) => m < q[k],
         NEW g \in Nat, Rising(q, g), NEW v, v = Inserted(q, k, m)
  PROVE  IsInserted(q, k, m, g, v)
<1>1. /\ Len(q) \in Nat /\ DOMAIN q = 1 .. Len(q)
      /\ \A i \in 1 .. Len(q) : q[i] \in Nat /\ q[i] \in Range(q)
      /\ \A x \in Range(q) : x \in Nat /\ \E i \in 1 .. Len(q) : x = q[i]
  BY InRange
<1> DEFINE l == Len(q)
<1>2. \A i \in 1 .. l + 1 : v[i] = IF i < k THEN q[i] ELSE IF i = k THEN m ELSE q[i - 1]
  BY DEF Inserted
<1>3. \A i \in 1 .. l + 1 : v[i] \in Nat
  BY <1>1, <1>2
<1>4. v \in Seq(Nat) /\ Len(v) = l + 1 /\ DOMAIN v = 1 .. l + 1
  <2>1. v = [i \in 1 .. l + 1 |-> v[i]]
    BY DEF Inserted
  <2>2. l + 1 \in Nat
    BY <1>1
  <2> DEFINE n == l + 1
  <2> HIDE DEF n
  <2>3. [i \in 1 .. n |-> v[i]] \in Seq(Nat) /\ Len([i \in 1 .. n |-> v[i]]) = n
        /\ DOMAIN [i \in 1 .. n |-> v[i]] = 1 .. n
    BY <1>3, <2>2 DEF n
  <2> QED
    BY <2>1, <2>3 DEF n
<1> HIDE DEF l
<1>5. Range(v) = Range(q) \union {m}
  <2>1. ASSUME NEW x \in Range(v)
        PROVE  x \in Range(q) \union {m}
    <3>1. PICK i \in 1 .. l + 1 : x = v[i]
      BY <1>4, <2>1 DEF Range
    <3> QED
      BY <1>1, <1>2, <3>1 DEF l
  <2>2. ASSUME NEW x \in Range(q)
        PROVE  x \in Range(v)
    <3>1. PICK i \in 1 .. l : x = q[i]
      BY <1>1, <2>2 DEF l
    <3>2. CASE i < k
      <4>1. i \in 1 .. l + 1 /\ v[i] = x
        BY <1>1, <1>2, <3>1, <3>2 DEF l
      <4> QED
        BY <1>4, <4>1 DEF Range
    <3>3. CASE ~(i < k)
      <4> DEFINE j == i + 1
      <4>1. j \in 1 .. l + 1 /\ ~(j < k) /\ j # k /\ j - 1 = i
        BY <1>1, <3>1, <3>3 DEF l
      <4> HIDE DEF j
      <4>2. v[j] = x
        BY <1>2, <3>1, <4>1
      <4> QED
        BY <1>4, <4>1, <4>2 DEF Range
    <3> QED
      BY <3>2, <3>3
  <2>3. m \in Range(v)
    <3>1. k \in 1 .. l + 1 /\ v[k] = m
      BY <1>2 DEF l
    <3> QED
      BY <1>4, <3>1 DEF Range
  <2> QED
    BY <2>1, <2>2, <2>3
<1>6. Rising(v, g)
  <2>1. SUFFICES ASSUME NEW i \in 1 .. l + 1, NEW j \in 1 .. l + 1, i < j, g <= v[i]
                 PROVE  v[i] < v[j]
    BY <1>4 DEF Rising
  <2>a. \A a, b \in 1 .. l : a < b /\ g <= q[a] => q[a] < q[b]
    BY <1>1 DEF Rising, l
  <2>2. CASE i < k /\ j < k
    <3>1. v[i] = q[i] /\ v[j] = q[j] /\ i \in 1 .. l /\ j \in 1 .. l
      BY <1>1, <1>2, <2>2 DEF l
    <3> QED
      BY <2>1, <2>a, <3>1
  <2>3. CASE i < k /\ j = k
    <3>1. v[i] = q[i] /\ v[j] = m /\ i \in 1 .. k - 1
      BY <1>1, <1>2, <2>3 DEF l
    <3> QED
      BY <3>1
  <2>4. CASE i < k /\ k < j
    <3>1. v[i] = q[i] /\ v[j] = q[j - 1] /\ i \in 1 .. l /\ j - 1 \in 1 .. l /\ i < j - 1
      BY <1>1, <1>2, <2>4 DEF l
    <3> QED
      BY <2>1, <2>a, <3>1
  <2>5. CASE i = k
    <3>1. v[i] = m /\ v[j] = q[j - 1] /\ j - 1 \in 1 .. l /\ k \in 1 .. l /\ k <= j - 1
      BY <1>1, <1>2, <2>1, <2>5 DEF l
    <3>2. m < q[k] /\ g <= q[k]
      BY <1>1, <2>1, <3>1 DEF l
    <3>3. k = j - 1 \/ q[k] < q[j - 1]
      BY <2>a, <3>1, <3>2
    <3>4. q[k] \in Nat /\ q[j - 1] \in Nat
      BY <1>1, <3>1 DEF l
    <3> QED
      BY <3>1, <3>2, <3>3, <3>4
  <2>6. CASE k < i
    <3>1. v[i] = q[i - 1] /\ v[j] = q[j - 1] /\ i - 1 \in 1 .. l /\ j - 1 \in 1 .. l
          /\ i - 1 < j - 1
      BY <1>1, <1>2, <2>1, <2>6 DEF l
    <3> QED
      BY <2>1, <2>a, <3>1
  <2> QED
    BY <2>1, <2>2, <2>3, <2>4, <2>5, <2>6
<1> QED
  BY <1>2, <1>4, <1>5, <1>6 DEF l, IsInserted

\* What is known of the sequence v that is t without its first d elements.
IsShifted(t, d, g, v) ==
  /\ Rising(v, g)
  /\ Range(v) \subseteq Range(t)
  /\ \A x \in Range(t) : x \in Range(v) \/ (d = 1 /\ x = t[1])
  /\ d = 1 /\ g <= t[1] => \A x \in Range(v) : t[1] < x

\* A sequence without its first d elements, where d is 0 or 1.
LEMMA ShiftFacts ==
  ASSUME NEW t \in Seq(Nat), NEW d \in 0 .. 1, NEW v \in Seq(Nat), Len(v) = Len(t) - d,
         \A i \in 1 .. Len(v) : v[i] = t[i + d], NEW g \in Nat, Rising(t, g)
  PROVE  IsShifted(t, d, g, v)
<1>1. /\ Len(t) \in Nat /\ DOMAIN t = 1 .. Len(t)
      /\ \A x \in Range(t) : x \in Nat /\ \E i \in 1 .. Len(t) : x = t[i]
      /\ \A i \in 1 .. Len(t) : t[i] \in Nat /\ t[i] \in Range(t)
  BY InRange
<1>2. /\ Len(v) \in Nat /\ DOMAIN v = 1 .. Len(v)
      /\ \A x \in Range(v) : x \in Nat /\ \E i \in 1 .. Len(v) : x = v[i]
      /\ \A i \in 1 .. Len(v) : v[i] \in Nat /\ v[i] \in Range(v)
  BY InRange
<1>3. \A i \in 1 .. Len(v) : i + d \in 1 .. Len(t) /\ v[i] = t[i + d]
  BY <1>1, <1>2
<1>4. Rising(v, g)
  <2>1. SUFFICES ASSUME NEW i \in 1 .. Len(v), NEW j \in 1 .. Len(v), i < j, g <= v[i]
                 PROVE  v[i] < v[j]
    BY <1>2 DEF Rising
  <2>2. i + d \in DOMAIN t /\ j + d \in DOMAIN t /\ i + d < j + d /\ g <= t[i + d]
    BY <1>1, <1>3, <2>1
  <2>3. t[i + d] < t[j + d]
    BY <2>2 DEF Rising
  <2> QED
    BY <1>3, <2>3
<1>5. Range(v) \subseteq Range(t)
  <2>1. SUFFICES ASSUME NEW x \in Range(v)
                 PROVE  x \in Range(t)
    OBVIOUS
  <2>2. PICK i \in 1 .. Len(v) : x = v[i]
    BY <1>2
  <2>3. i + d \in 1 .. Len(t) /\ x = t[i + d]
    BY <1>3, <2>2
  <2> QED
    BY <1>1, <2>3
<1>6. ASSUME NEW x \in Range(t)
      PROVE  x \in Range(v) \/ (d = 1 /\ x = t[1])
  <2>1. PICK i \in 1 .. Len(t) : x = t[i]
    BY <1>1
  <2>2. CASE d = 1 /\ i = 1
    BY <2>1, <2>2
  <2>3. CASE ~(d = 1 /\ i = 1)
    <3>1. i - d \in 1 .. Len(v) /\ i - d + d = i
      BY <1>1, <2>3
    <3>2. v[i - d] = x
      BY <1>3, <2>1, <3>1
    <3> DEFINE j == i - d
    <3>3. j \in 1 .. Len(v) /\ v[j] = x
      BY <3>1, <3>2
    <3> HIDE DEF j
    <3> QED
      BY <1>2, <3>3
  <2> QED
    BY <2>2, <2>3
<1>7. ASSUME d = 1, g <= t[1], NEW x \in Range(v)
      PROVE  t[1] < x
  <2>1. PICK i \in 1 .. Len(v) : x = v[i]
    BY <1>2
  <2>2. i + 1 \in DOMAIN t /\ 1 \in DOMAIN t /\ 1 < i + 1 /\ x = t[i + 1]
    BY ONLY <1>1, <1>3, <1>7, <2>1
  <2> QED
    BY <1>7, <2>2 DEF Rising
<1> QED
  BY <1>4, <1>5, <1>6, <1>7 DEF IsShifted

\* The newest messages of a copy, as many as a channel keeps, are g or newer.
Many(q, g) == Len(q) >= DefaultLimit /\ g <= q[Len(q) - DefaultLimit + 1]

\* What a copy q with room for n is when the messages of A, which is {m} or nothing,
\* came in: from g on it is in order and lacks nothing, unless it is full of messages
\* that are newer than the one it lacks; and how far its messages are from its end.
Took(q, A, m, n, g, v) ==
  /\ Rising(v, g) /\ Len(q) <= Len(v) /\ Len(v) <= n
  /\ Range(v) \subseteq Range(q) \union A
  /\ \/ \A x \in Range(q) \union A : g <= x => x \in Range(v)
     \/ \E y \in Range(q) \union A :
          /\ g <= y /\ Len(v) = n
          /\ \A x \in Range(v) : y < x
          /\ \A x \in Range(q) \union A : x \in Range(v) \/ x = y
  /\ Many(q, g) => Many(v, g)
  /\ \A j \in 1 .. Len(v) :
       \/ j = Len(v) /\ v[j] = m
       \/ \E i \in 1 .. Len(q) :
            /\ v[j] <= q[i]
            /\ Len(v) - j <= Len(q) - i + 1
            /\ m < v[j] => Len(v) - j <= Len(q) - i
  /\ \A x \in Range(q) \union A :
       x \in Range(v) \/ (Len(q) = n /\ x <= q[1] /\ x <= m)

\* A copy that has the messages already.
LEMMA TookNothing ==
  ASSUME NEW q \in Seq(Nat), NEW A, A \subseteq Range(q), NEW m \in Nat, NEW n \in Nat,
         Len(q) <= n, NEW g \in Nat, Rising(q, g)
  PROVE  Took(q, A, m, n, g, q)
<1>1. /\ Len(q) \in Nat /\ DOMAIN q = 1 .. Len(q)
      /\ \A i \in 1 .. Len(q) : q[i] \in Nat /\ q[i] \in Range(q)
      /\ \A x \in Range(q) : x \in Nat /\ \E i \in 1 .. Len(q) : x = q[i]
  BY InRange
<1>2. Range(q) \union A = Range(q)
  OBVIOUS
<1>3. \A j \in 1 .. Len(q) :
       \E i \in 1 .. Len(q) :
            /\ q[j] <= q[i]
            /\ Len(q) - j <= Len(q) - i + 1
            /\ m < q[j] => Len(q) - j <= Len(q) - i
  BY <1>1
<1>4. Len(q) <= Len(q)
  BY <1>1
<1> QED
  BY <1>2, <1>3, <1>4 DEF Took

\* A message that a copy takes.
LEMMA TookOne ==
  ASSUME NEW q \in Seq(Nat), NEW v \in Seq(Nat), NEW m \in Nat, m \notin Range(q),
         NEW n \in Nat, DefaultLimit <= n, Len(q) <= n, NEW g \in Nat, Rising(q, g),
         NEW k \in Nat, NEW d \in 0 .. 1, AddedAt(q, m, n, k, d, v)
  PROVE  Took(q, {m}, m, n, g, v)
<1> DEFINE t == Inserted(q, k, m)
           l == Len(q)
           R == Range(q) \union {m}
<1>1. /\ k \in 1 .. l + 1 /\ d = IF l < n THEN 0 ELSE 1
      /\ \A i \in 1 .. k - 1 : q[i] < m
      /\ k <= l => m < q[k]
      /\ Len(v) = l + 1 - d
      /\ \A i \in 1 .. Len(v) : v[i] = t[i + d]
  BY DEF AddedAt
<1>2. /\ l \in Nat /\ DOMAIN q = 1 .. l
      /\ \A i \in 1 .. l : q[i] \in Nat /\ q[i] \in Range(q)
      /\ \A x \in Range(q) : x \in Nat /\ \E i \in 1 .. l : x = q[i]
  BY InRange
<1>3. /\ t \in Seq(Nat) /\ Len(t) = l + 1
      /\ \A i \in 1 .. l + 1 :
           t[i] = IF i < k THEN q[i] ELSE IF i = k THEN m ELSE q[i - 1]
      /\ Range(t) = R
      /\ Rising(t, g)
  <2> HIDE DEF t
  <2>1. t = Inserted(q, k, m)
    BY DEF t
  <2>2. IsInserted(q, k, m, g, t)
    BY <1>1, <2>1, InsertedFacts
  <2> QED
    BY <2>2 DEF IsInserted
<1> HIDE DEF t
<1>4. DefaultLimit \in Nat \ {0}
  BY LimitAssumption
<1>5. /\ Rising(v, g)
      /\ Range(v) \subseteq Range(t)
      /\ \A x \in Range(t) : x \in Range(v) \/ (d = 1 /\ x = t[1])
      /\ d = 1 /\ g <= t[1] => \A x \in Range(v) : t[1] < x
  <2>1. Len(v) = Len(t) - d
    BY <1>1, <1>2, <1>3
  <2>2. IsShifted(t, d, g, v)
    BY <1>1, <1>3, <2>1, ShiftFacts
  <2> QED
    BY <2>2 DEF IsShifted
<1> HIDE DEF R, l
<1>6. l <= Len(v) /\ Len(v) <= n /\ (d = 1 => l = n /\ Len(v) = n)
  <2> HIDE DEF l
  <2>1. l <= n /\ l \in Nat
    BY <1>2 DEF l
  <2>2. CASE l < n
    BY <1>1, <2>1, <2>2
  <2>3. CASE ~(l < n)
    BY <1>1, <2>1, <2>3
  <2> QED
    BY <2>2, <2>3
<1>7. t[1] \in Nat /\ t[1] \in R /\ t[1] <= m /\ (1 <= l => t[1] <= q[1])
  <2>1. 1 \in 1 .. l + 1
    BY <1>2
  <2>2. t[1] = IF 1 < k THEN q[1] ELSE IF 1 = k THEN m ELSE q[1 - 1]
    BY <1>3, <2>1
  <2>3. CASE k = 1
    BY <1>1, <1>2, <2>2, <2>3 DEF R
  <2>4. CASE k # 1
    <3>1. 1 < k /\ 1 \in 1 .. k - 1 /\ 1 \in 1 .. l
      BY <1>1, <1>2, <2>4
    <3>2. t[1] = q[1] /\ q[1] < m /\ q[1] \in Nat /\ q[1] \in R
      BY <1>1, <1>2, <2>2, <3>1 DEF R
    <3> QED
      BY <3>2
  <2> QED
    BY <2>3, <2>4
<1>8. \/ \A x \in R : g <= x => x \in Range(v)
      \/ \E y \in R :
           /\ g <= y /\ Len(v) = n
           /\ \A x \in Range(v) : y < x
           /\ \A x \in R : x \in Range(v) \/ x = y
  <2>1. CASE d = 1 /\ g <= t[1]
    BY <1>3, <1>5, <1>6, <1>7, <2>1
  <2>2. CASE ~(d = 1 /\ g <= t[1])
    BY <1>3, <1>5, <2>2
  <2> QED
    BY <2>1, <2>2
<1>9. \A x \in R : x \in Range(v) \/ (l = n /\ x <= q[1] /\ x <= m)
  <2>1. n >= 1
    BY <1>4
  <2> QED
    BY <1>3, <1>5, <1>6, <1>7, <2>1
<1>10. ASSUME NEW j \in 1 .. Len(v)
       PROVE  \/ j = Len(v) /\ v[j] = m
              \/ \E i \in 1 .. l :
                   /\ v[j] <= q[i]
                   /\ Len(v) - j <= l - i + 1
                   /\ m < v[j] => Len(v) - j <= l - i
  <2> DEFINE i == j + d
  <2>1. i \in 1 .. l + 1 /\ Len(v) - j = l + 1 - i /\ Len(v) \in Nat /\ i \in Nat
    <3>1. d = 0 \/ d = 1
      OBVIOUS
    <3>2. Len(v) = l + 1 - d /\ l \in Nat
      BY <1>1, <1>2
    <3>3. j \in 1 .. Len(v)
      BY <1>10
    <3> QED
      BY <3>1, <3>2, <3>3
  <2>2. v[j] = t[i]
    BY <1>1, <1>10
  <2> HIDE DEF i
  <2>3. v[j] = IF i < k THEN q[i] ELSE IF i = k THEN m ELSE q[i - 1]
    BY <1>3, <2>1, <2>2
  <2>4. CASE i < k
    <3>1. i \in 1 .. l /\ v[j] = q[i] /\ q[i] < m /\ q[i] \in Nat
      BY <1>1, <1>2, <2>1, <2>3, <2>4
    <3>2. Len(v) - j <= l - i + 1
      BY <1>2, <2>1
    <3>3. v[j] <= q[i] /\ ~(m < v[j])
      BY <3>1
    <3> QED
      BY <3>1, <3>2, <3>3
  <2>5. CASE i = k /\ k <= l
    <3>1. i \in 1 .. l /\ v[j] = m /\ m < q[i] /\ q[i] \in Nat
      BY <1>1, <1>2, <2>1, <2>3, <2>5
    <3>2. Len(v) - j <= l - i + 1
      BY <1>2, <2>1
    <3>3. v[j] <= q[i] /\ ~(m < v[j])
      BY <3>1
    <3> QED
      BY <3>1, <3>2, <3>3
  <2>6. CASE i = k /\ ~(k <= l)
    <3>1. i = l + 1 /\ v[j] = m
      BY <1>1, <1>2, <2>1, <2>3, <2>6
    <3>2. j = Len(v)
      BY <1>2, <1>10, <2>1, <3>1
    <3> QED
      BY <3>1, <3>2
  <2>7. CASE k < i
    <3> DEFINE h == i - 1
    <3>1. h \in 1 .. l /\ v[j] = q[h] /\ q[h] \in Nat
      BY <1>1, <1>2, <2>1, <2>3, <2>7
    <3>2. Len(v) - j <= l - h + 1 /\ Len(v) - j <= l - h
      BY <1>2, <2>1
    <3>3. v[j] <= q[h]
      BY <3>1
    <3> HIDE DEF h
    <3> QED
      BY <3>1, <3>2, <3>3
  <2> QED
    BY <1>1, <1>2, <2>1, <2>4, <2>5, <2>6, <2>7
<1>11. ASSUME Many(q, g)
       PROVE  Many(v, g)
  <2> DEFINE c == DefaultLimit
             a == l - c + 1
             b == Len(v) - c + 1
  <2>1. l >= c /\ g <= q[a] /\ a \in 1 .. l /\ a \in Nat
    BY <1>2, <1>4, <1>11 DEF Many, l
  <2>2. b \in 1 .. Len(v) /\ b + d = a + 1 /\ a + 1 \in 1 .. l + 1
    BY <1>1, <1>2, <1>4, <1>6, <2>1
  <2>3. v[b] = t[a + 1]
    BY <1>1, <2>2
  <2> DEFINE e == a + 1
  <2>4. e \in 1 .. l + 1 /\ e - 1 = a
    BY <2>1, <2>2
  <2>5. v[b] = t[e]
    BY <2>3
  <2> HIDE DEF e
  <2>6. v[b] = IF e < k THEN q[e] ELSE IF e = k THEN m ELSE q[e - 1]
    BY <1>3, <2>4, <2>5
  <2>7. q[a] \in Nat
    BY <1>2, <2>1
  <2> HIDE DEF a, b
  <2>8. CASE e < k
    <3>1. e \in 1 .. l /\ a < e /\ v[b] = q[e] /\ q[e] \in Nat
      BY <1>1, <1>2, <2>1, <2>4, <2>6, <2>8
    <3>2. q[a] < q[e]
      BY <1>2, <2>1, <3>1 DEF Rising
    <3> QED
      BY <1>2, <2>1, <2>7, <1>6, <3>1, <3>2, <2>2, <1>4 DEF Many, b
  <2>9. CASE e = k
    <3>1. v[b] = m /\ a \in 1 .. k - 1
      BY <1>1, <1>2, <2>1, <2>4, <2>6, <2>9
    <3>2. q[a] < m
      BY <1>1, <3>1
    <3> QED
      BY <1>2, <2>1, <2>7, <1>6, <3>1, <3>2, <2>2, <1>4 DEF Many, b
  <2>10. CASE k < e
    <3>1. v[b] = q[a]
      BY <2>4, <2>6, <2>10, <1>1, <1>2, <2>1
    <3> QED
      BY <1>2, <2>1, <2>7, <1>6, <3>1, <2>2, <1>4 DEF Many, b
  <2> QED
    BY <1>1, <2>4, <2>8, <2>9, <2>10
<1>12. Range(v) \subseteq R
  BY <1>3, <1>5
<1> QED
  BY <1>5, <1>6, <1>8, <1>9, <1>10, <1>11, <1>12 DEF Took, R, l

\* A copy when one message came, which it may not want or may have.
LEMMA Takes ==
  ASSUME NEW q \in Seq(Nat), NEW v \in Seq(Nat), NEW m \in Nat, NEW n \in Nat, NEW H,
         DefaultLimit <= n, Len(q) <= n, NEW g \in Nat, Rising(q, g),
         IF m \in H THEN v = q ELSE Adds(q, m, n, v)
  PROVE  Took(q, {m} \ H, m, n, g, v)
<1>1. CASE m \in H \/ m \in Range(q)
  <2> DEFINE A == {m} \ H
  <2>1. v = q /\ A \subseteq Range(q)
    BY <1>1 DEF Adds
  <2> HIDE DEF A
  <2>2. Took(q, A, m, n, g, q)
    BY <2>1, TookNothing
  <2> QED
    BY <2>1, <2>2 DEF A
<1>2. CASE m \notin H /\ m \notin Range(q)
  <2>1. PICK k \in Nat, d \in 0 .. 1 : AddedAt(q, m, n, k, d, v)
    BY <1>2 DEF Adds
  <2>2. Took(q, {m}, m, n, g, v)
    BY <1>2, <2>1, TookOne
  <2>3. {m} \ H = {m}
    BY <1>2
  <2> QED
    BY <2>2, <2>3
<1> QED
  BY <1>1, <1>2

-----------------------------------------------------------------------------
(* What a message makes of a channel *)

\* Every message of u is that of p at the next place, or it is m or newer, and not
\* older than that of p at the same place.
Moved(p, m, u) ==
  \A i \in 1 .. Len(u) :
    \/ i + 1 \in 1 .. Len(p) /\ u[i] = p[i + 1]
    \/ m <= u[i] /\ p[i] <= u[i]

\* What a channel p with room for n, which lacks m, is when m came in.
Gained(p, m, n, u) ==
  /\ Ascends(u) /\ Len(p) <= Len(u) /\ Len(u) <= n
  /\ \/ Len(p) < n /\ Len(u) = Len(p) + 1 /\ Range(u) = Range(p) \union {m}
     \/ Len(p) = n /\ Len(u) = n /\ Moved(p, m, u) /\ m < p[1] /\ u = p
     \/ /\ Len(p) = n /\ Len(u) = n /\ Moved(p, m, u)
        /\ p[1] < u[1] /\ Range(u) = (Range(p) \union {m}) \ {p[1]}

\* A message that comes to a channel makes of it what Gained says.
LEMMA Gains ==
  ASSUME NEW p \in Seq(Nat), NEW u \in Seq(Nat), Ascends(p), NEW m \in Nat, m \notin Range(p),
         NEW n \in Nat, DefaultLimit <= n, Len(p) <= n, Adds(p, m, n, u)
  PROVE  Gained(p, m, n, u)
<1>1. PICK k \in Nat, d \in 0 .. 1 : AddedAt(p, m, n, k, d, u)
  BY DEF Adds
<1> DEFINE t == Inserted(p, k, m)
           l == Len(p)
<1>2. /\ k \in 1 .. l + 1 /\ d = IF l < n THEN 0 ELSE 1
      /\ \A i \in 1 .. k - 1 : p[i] < m
      /\ k <= l => m < p[k]
      /\ Len(u) = l + 1 - d
      /\ \A i \in 1 .. Len(u) : u[i] = t[i + d]
  BY <1>1 DEF AddedAt
<1>3. /\ l \in Nat /\ DOMAIN p = 1 .. l
      /\ \A i \in 1 .. l : p[i] \in Nat /\ p[i] \in Range(p)
  BY InRange
<1>a. /\ Len(u) \in Nat /\ DOMAIN u = 1 .. Len(u)
      /\ \A i \in 1 .. Len(u) : u[i] \in Nat /\ u[i] \in Range(u)
      /\ \A x \in Range(u) : x \in Nat
  BY InRange
<1>4. Rising(p, 0)
  BY <1>3 DEF Rising, Ascends
<1>5. /\ t \in Seq(Nat) /\ Len(t) = l + 1
      /\ \A i \in 1 .. l + 1 :
           t[i] = IF i < k THEN p[i] ELSE IF i = k THEN m ELSE p[i - 1]
      /\ Range(t) = Range(p) \union {m}
      /\ Rising(t, 0)
  <2> HIDE DEF t
  <2>1. t = Inserted(p, k, m)
    BY DEF t
  <2>2. IsInserted(p, k, m, 0, t)
    BY <1>2, <1>4, <2>1, InsertedFacts
  <2> QED
    BY <2>2 DEF IsInserted
<1> HIDE DEF t
<1>6. /\ Rising(u, 0)
      /\ Range(u) \subseteq Range(t)
      /\ \A x \in Range(t) : x \in Range(u) \/ (d = 1 /\ x = t[1])
      /\ d = 1 /\ 0 <= t[1] => \A x \in Range(u) : t[1] < x
  <2>1. Len(u) = Len(t) - d
    BY <1>2, <1>3, <1>5
  <2>2. IsShifted(t, d, 0, u)
    BY <1>2, <1>5, <2>1, ShiftFacts
  <2> QED
    BY <2>2 DEF IsShifted
<1> HIDE DEF l
<1>7. Ascends(u)
  BY <1>6, <1>a DEF Rising, Ascends
<1>8. l <= n
  BY DEF l
<1>9. CASE l < n
  <2>1. d = 0 /\ Len(u) = l + 1 /\ l <= Len(u) /\ Len(u) <= n
    BY <1>2, <1>3, <1>9
  <2>2. Range(u) = Range(p) \union {m}
    BY <1>5, <1>6, <2>1
  <2> QED
    BY <1>7, <1>9, <2>1, <2>2 DEF Gained, l
<1>10. CASE ~(l < n)
  <2>1. d = 1 /\ Len(u) = n /\ l = n
    BY <1>2, <1>3, <1>8, <1>10
  <2>2. n \in Nat \ {0}
    BY LimitAssumption
  <2>3. \A i \in 1 .. n : u[i] = IF i + 1 < k THEN p[i + 1] ELSE IF i + 1 = k THEN m ELSE p[i]
    <3>1. TAKE i \in 1 .. n
    <3> DEFINE e == i + 1
    <3>2. u[i] = t[e]
      BY <1>2, <2>1
    <3>3. e \in 1 .. l + 1 /\ e - 1 = i
      BY <2>1
    <3> HIDE DEF e
    <3>4. t[e] = IF e < k THEN p[e] ELSE IF e = k THEN m ELSE p[e - 1]
      BY <1>5, <3>3
    <3> QED
      BY <3>2, <3>3, <3>4 DEF e
  <2>4. Moved(p, m, u)
    <3>1. SUFFICES ASSUME NEW i \in 1 .. n
                   PROVE  \/ i + 1 \in 1 .. Len(p) /\ u[i] = p[i + 1]
                          \/ m <= u[i] /\ p[i] <= u[i]
      BY <2>1 DEF Moved
    <3>2. CASE i + 1 < k
      <4>1. u[i] = p[i + 1] /\ i + 1 \in 1 .. l
        BY <1>2, <1>3, <2>1, <2>3, <3>2
      <4> QED
        BY <4>1 DEF l
    <3>3. CASE i + 1 = k
      <4>1. u[i] = m /\ i \in 1 .. k - 1 /\ p[i] \in Nat
        BY <1>3, <2>1, <2>3, <3>3
      <4> QED
        BY <1>2, <4>1
    <3>4. CASE k < i + 1
      <4>1. u[i] = p[i] /\ k <= i /\ k \in 1 .. l /\ i \in 1 .. l
        BY <1>2, <1>3, <2>1, <2>3, <3>4
      <4>2. m < p[k] /\ p[k] \in Nat /\ p[i] \in Nat /\ p[k] <= p[i]
        <5>1. p[k] <= p[i]
          BY <4>1, NotLess DEF l
        <5> QED
          BY <1>2, <1>3, <4>1, <5>1
      <4> QED
        BY <4>1, <4>2
    <3> QED
      BY <1>2, <3>2, <3>3, <3>4
  <2>5. CASE k = 1
    <3>1. m < p[1]
      BY <1>2, <1>3, <2>1, <2>2, <2>5
    <3>2. \A i \in 1 .. n : u[i] = p[i]
      BY <2>3, <2>5
    <3>3. u = p
      BY <1>3, <1>a, <2>1, <3>2
    <3> QED
      BY <1>7, <2>1, <2>4, <3>1, <3>3 DEF Gained, l
  <2>6. CASE k # 1
    <3>1. 1 \in 1 .. l + 1 /\ 1 < k
      BY <1>2, <1>3, <2>6
    <3>2. t[1] = p[1] /\ p[1] \in Nat
      BY <1>3, <1>5, <2>1, <2>2, <3>1
    <3>3. \A x \in Range(u) : p[1] < x
      BY <1>6, <2>1, <3>2
    <3>4. u[1] \in Range(u)
      BY <1>a, <2>1, <2>2
    <3>5. Range(u) = (Range(p) \union {m}) \ {p[1]}
      <4>1. p[1] \notin Range(u)
        BY <3>2, <3>3
      <4> QED
        BY <1>5, <1>6, <3>2, <4>1
    <3> QED
      BY <1>7, <2>1, <2>4, <3>3, <3>4, <3>5, <1>a DEF Gained, l
  <2> QED
    BY <2>5, <2>6
<1> QED
  BY <1>9, <1>10

-----------------------------------------------------------------------------
(* What a copy has of its channel *)

\* From g on, the copy q has the messages of the channel p that are not in H, in
\* their order, and no others.
Same(p, q, H, g) ==
  /\ \A x \in Nat : g <= x => (x \in Range(q) <=> x \in Range(p) \ H)
  /\ Rising(q, g)

\* The copy, which has room for n, has also the ones before g, and room for those
\* that would push them out.
Whole(p, q, n, H, g) ==
  /\ g = 0 \/ (Len(p) >= DefaultLimit /\ p[1] <= g /\ g <= p[Len(p) - DefaultLimit + 1])
  /\ Range(p) \ H \subseteq Range(q)
  /\ \A i \in 1 .. Len(p) : p[i] < g =>
       i <= n /\ \A j \in 1 .. Len(q) : p[i] < q[j] => i + Len(q) - j + 1 <= n

\* The copy has enough of the channel for the newest messages to be shown.
Serves(p, q, n, H) ==
  \E g \in Nat : Same(p, q, H, g) /\ (Many(q, g) \/ Whole(p, q, n, H, g))

\* A channel with its usual number of messages, and a copy that has all of them.
LEMMA FirstServes ==
  ASSUME NEW p \in Seq(Nat), NEW q \in Seq(Nat), NEW n, NEW H,
         Ascends(p), Len(p) >= DefaultLimit, Same(p, q, H, p[1])
  PROVE  Serves(p, q, n, H)
<1>1. /\ Len(p) \in Nat /\ DOMAIN p = 1 .. Len(p)
      /\ \A i \in 1 .. Len(p) : p[i] \in Nat /\ p[i] \in Range(p)
      /\ \A x \in Range(p) : x \in Nat /\ \E i \in 1 .. Len(p) : x = p[i]
  BY InRange
<1>2. DefaultLimit \in Nat \ {0}
  BY LimitAssumption
<1>3. 1 \in 1 .. Len(p) /\ p[1] \in Nat
  BY <1>1, <1>2
<1>4. \A i \in 1 .. Len(p) : p[1] <= p[i]
  <2>1. TAKE i \in 1 .. Len(p)
  <2>2. i = 1 \/ p[1] < p[i]
    <3>1. Ascends(p) /\ i \in DOMAIN p /\ 1 \in DOMAIN p
      BY <1>1, <1>3
    <3>2. i = 1 \/ 1 < i
      BY ONLY <1>1, <2>1
    <3> QED
      BY ONLY <3>1, <3>2 DEF Ascends
  <2> QED
    BY <1>1, <1>3, <2>2
<1>5. Len(p) - DefaultLimit + 1 \in 1 .. Len(p)
  BY <1>1, <1>2
<1>6. Range(p) \ H \subseteq Range(q)
  BY <1>1, <1>4 DEF Same
<1>7. Whole(p, q, n, H, p[1])
  BY <1>1, <1>3, <1>4, <1>5, <1>6 DEF Whole
<1> QED
  BY <1>3, <1>7 DEF Serves

\* Many messages are still many from the first one of the channel on.
LEMMA ManyFromFirst ==
  ASSUME NEW p \in Seq(Nat), NEW q \in Seq(Nat), NEW H, NEW g \in Nat,
         Ascends(p), Same(p, q, H, g), Many(q, g)
  PROVE  /\ Len(p) >= 1
         /\ \E h \in Nat : Same(p, q, H, h) /\ Many(q, h) /\ p[1] <= h
<1>1. /\ Len(p) \in Nat /\ DOMAIN p = 1 .. Len(p)
      /\ \A i \in 1 .. Len(p) : p[i] \in Nat /\ p[i] \in Range(p)
      /\ \A x \in Range(p) : x \in Nat /\ \E i \in 1 .. Len(p) : x = p[i]
  BY InRange
<1>2. /\ Len(q) \in Nat /\ DOMAIN q = 1 .. Len(q)
      /\ \A i \in 1 .. Len(q) : q[i] \in Nat /\ q[i] \in Range(q)
  BY InRange
<1>3. DefaultLimit \in Nat \ {0}
  BY LimitAssumption
<1> DEFINE a == Len(q) - DefaultLimit + 1
<1>4. a \in 1 .. Len(q) /\ g <= q[a] /\ Len(q) >= DefaultLimit
  BY <1>2, <1>3 DEF Many
<1>5. q[a] \in Nat /\ q[a] \in Range(p)
  BY <1>2, <1>4 DEF Same
<1>6. PICK i \in 1 .. Len(p) : q[a] = p[i]
  BY <1>1, <1>5
<1>7. 1 \in 1 .. Len(p) /\ p[1] \in Nat /\ p[1] <= q[a]
  <2>1. 1 \in 1 .. Len(p)
    BY <1>1, <1>6
  <2>2. 1 <= i
    OBVIOUS
  <2>3. p[1] <= p[i]
    BY <2>1, <2>2, NotLess
  <2> QED
    BY <1>1, <1>6, <2>1, <2>3
<1>8. CASE p[1] <= g
  BY <1>1, <1>7, <1>8
<1>9. CASE ~(p[1] <= g)
  <2> DEFINE h == p[1]
  <2>1. h \in Nat /\ g <= h
    BY <1>7, <1>9
  <2>2. Many(q, h)
    BY <1>4, <1>7 DEF Many
  <2> HIDE DEF h
  <2>3. Rising(q, h)
    BY <1>2, <2>1 DEF Same, Rising
  <2>4. \A x \in Nat : h <= x => g <= x
    BY <2>1
  <2>5. Same(p, q, H, h)
    BY <2>3, <2>4 DEF Same
  <2>6. p[1] <= h
    BY <2>1 DEF h
  <2> QED
    BY <1>1, <1>7, <2>1, <2>2, <2>5, <2>6
<1> QED
  BY <1>8, <1>9

\* What a copy has from h on when m came to its channel, which lost nothing from h on.
LEMMA SameKept ==
  ASSUME NEW p \in Seq(Nat), NEW q \in Seq(Nat), NEW u \in Seq(Nat), NEW v \in Seq(Nat), NEW H,
         NEW m \in Nat, NEW n \in Nat, DefaultLimit <= n, NEW g \in Nat, NEW h \in Nat, g <= h,
         Same(p, q, H, g), Took(q, {m} \ H, m, n, h, v),
         \A x \in Nat : h <= x => (x \in Range(u) <=> x \in Range(p) \/ x = m)
  PROVE  Same(u, v, H, h) \/ Serves(u, v, n, H)
<1> DEFINE A == {m} \ H
           R == Range(q) \union A
<1>1. /\ Len(v) \in Nat /\ DOMAIN v = 1 .. Len(v)
      /\ \A i \in 1 .. Len(v) : v[i] \in Nat /\ v[i] \in Range(v)
      /\ \A x \in Range(v) : x \in Nat /\ \E i \in 1 .. Len(v) : x = v[i]
  BY InRange
<1>2. \A x \in Nat : h <= x => (x \in R <=> x \in Range(u) \ H)
  <2>1. TAKE x \in Nat
  <2>2. h <= x => g <= x
    OBVIOUS
  <2> QED
    BY <2>2 DEF Same
<1>a. R \subseteq Nat
  <2>1. Range(q) \subseteq Nat
    BY InRange
  <2> QED
    BY <2>1
<1> HIDE DEF A
<1>3. /\ Rising(v, h) /\ Range(v) \subseteq R
      /\ \/ \A x \in R : h <= x => x \in Range(v)
         \/ \E y \in R :
              /\ h <= y /\ Len(v) = n
              /\ \A x \in Range(v) : y < x
              /\ \A x \in R : x \in Range(v) \/ x = y
  <2>1. Took(q, A, m, n, h, v)
    BY DEF A
  <2> QED
    BY <2>1 DEF Took
<1> HIDE DEF R
<1>4. CASE \A x \in R : h <= x => x \in Range(v)
  BY <1>2, <1>3, <1>4 DEF Same
<1>5. ASSUME NEW y \in R, h <= y, Len(v) = n,
             \A x \in Range(v) : y < x, \A x \in R : x \in Range(v) \/ x = y
      PROVE  Serves(u, v, n, H)
  <2>1. DefaultLimit \in Nat \ {0} /\ n >= 1 /\ y \in Nat
    BY <1>a, <1>5, LimitAssumption
  <2> DEFINE f == v[1]
             b == Len(v) - DefaultLimit + 1
  <2>2. f \in Nat /\ y < f /\ 1 \in 1 .. Len(v) /\ b \in 1 .. Len(v)
    BY <1>1, <1>5, <2>1
  <2>3. Rising(v, f)
    <3>1. Rising(v, h) /\ h \in Nat /\ h < f
      BY <1>3, <1>5, <2>1, <2>2
    <3> HIDE DEF f
    <3>2. ASSUME NEW i \in 1 .. Len(v), NEW j \in 1 .. Len(v), i < j, f <= v[i]
          PROVE  v[i] < v[j]
      <4>1. h <= v[i]
        BY ONLY <1>1, <2>2, <3>1, <3>2
      <4> QED
        BY ONLY <1>1, <3>1, <3>2, <4>1 DEF Rising
    <3> QED
      BY ONLY <1>1, <3>2 DEF Rising
  <2>4. \A x \in Nat : f <= x => h <= x /\ x # y
    BY <1>5, <2>1, <2>2
  <2>5. \A x \in Nat : f <= x => (x \in Range(v) <=> x \in Range(u) \ H)
    BY <1>2, <1>3, <1>5, <2>4
  <2>6. Same(u, v, H, f)
    BY <2>3, <2>5 DEF Same
  <2>7. Many(v, f)
    <3>1. 1 <= b /\ f <= v[1]
      BY <2>2
    <3> HIDE DEF b, f
    <3>2. f <= v[b]
      BY <2>2, <2>3, <3>1, LaterIsGreater
    <3> QED
      BY <1>5, <3>2 DEF Many, b
  <2> QED
    BY <2>2, <2>6, <2>7 DEF Serves
<1> QED
  BY <1>3, <1>4, <1>5

\* Orders of numbers.
LEMMA Chain == \A a, b, c \in Nat : a < b /\ b <= c => a < c
OBVIOUS

LEMMA Chain2 == \A a, b, c, d \in Nat : a <= b /\ b < c /\ c <= d => a < d
OBVIOUS

LEMMA FirstOf == \A n \in Nat : n >= 1 => 1 \in 1 .. n
OBVIOUS

\* A ring of the usual limit or a full one is full, and not empty.
LEMMA FullIs ==
  \A c, l \in Nat, d \in Nat \ {0} :
     d <= c /\ c <= l /\ (l > d => c = l) => c = l /\ 1 \in 1 .. c
OBVIOUS

\* A message that comes to a full channel and to its copy, which has also the messages
\* before g, and g is not the first one.
LEMMA WholeKept ==
  ASSUME NEW p \in Seq(Nat), NEW q \in Seq(Nat), NEW u \in Seq(Nat), NEW v \in Seq(Nat), NEW H,
         Ascends(p), NEW m \in Nat, m \notin Range(p), NEW n \in Nat, DefaultLimit <= n,
         NEW g \in Nat, Same(p, q, H, g), Whole(p, q, n, H, g), g # 0,
         Len(q) <= n, Took(q, {m} \ H, m, n, g, v),
         Ascends(u), Len(u) = Len(p), Moved(p, m, u), Same(u, v, H, g),
         \/ m < p[1] /\ u = p
         \/ p[1] < u[1] /\ Range(u) = (Range(p) \union {m}) \ {p[1]} /\ u[1] < g
  PROVE  Whole(u, v, n, H, g)
<1> DEFINE D == DefaultLimit
           a == Len(p) - D + 1
<1>1. /\ Len(p) \in Nat /\ DOMAIN p = 1 .. Len(p)
      /\ \A i \in 1 .. Len(p) : p[i] \in Nat /\ p[i] \in Range(p)
      /\ \A x \in Range(p) : x \in Nat /\ \E i \in 1 .. Len(p) : x = p[i]
  BY InRange
<1>2. /\ Len(q) \in Nat /\ DOMAIN q = 1 .. Len(q)
      /\ \A i \in 1 .. Len(q) : q[i] \in Nat /\ q[i] \in Range(q)
      /\ \A x \in Range(q) : x \in Nat
  BY InRange
<1>3. /\ DOMAIN u = 1 .. Len(u)
      /\ \A i \in 1 .. Len(u) : u[i] \in Nat /\ u[i] \in Range(u)
      /\ \A x \in Range(u) : x \in Nat /\ \E i \in 1 .. Len(u) : x = u[i]
  BY InRange
<1>4. /\ Len(v) \in Nat /\ \A i \in 1 .. Len(v) : v[i] \in Nat
  BY InRange
<1>5. D \in Nat \ {0}
  BY LimitAssumption
<1>6. /\ Len(p) >= D /\ p[1] <= g /\ g <= p[a]
      /\ Range(p) \ H \subseteq Range(q)
      /\ \A i \in 1 .. Len(p) : p[i] < g =>
           i <= n /\ \A j \in 1 .. Len(q) : p[i] < q[j] => i + Len(q) - j + 1 <= n
  BY DEF Whole
<1>7. 1 \in 1 .. Len(p) /\ a \in 1 .. Len(p)
  BY <1>1, <1>5, <1>6
<1>8. \A i \in 1 .. Len(p) : \/ i + 1 \in 1 .. Len(p) /\ u[i] = p[i + 1] /\ p[i] < u[i]
                             \/ m <= u[i] /\ p[i] <= u[i]
  <2>1. TAKE i \in 1 .. Len(p)
  <2>2. CASE i + 1 \in 1 .. Len(p) /\ u[i] = p[i + 1]
    <3> DEFINE e == i + 1
    <3>1. e \in 1 .. Len(p) /\ i <= e /\ i < e
      BY <2>2
    <3> HIDE DEF e
    <3>2. p[i] < p[e]
      BY <3>1, NotLess
    <3> QED
      BY <2>2, <3>2 DEF e
  <2>3. CASE m <= u[i] /\ p[i] <= u[i]
    BY <2>3
  <2> QED
    BY <2>2, <2>3 DEF Moved
<1> HIDE DEF a, D
<1>9. u[1] <= g /\ g <= u[a]
  <2>1. p[a] \in Nat /\ u[a] \in Nat /\ p[a] <= u[a]
    <3>1. a \in 1 .. Len(p) /\ a \in 1 .. Len(u)
      BY <1>7
    <3>2. \/ u[a] = p[a + 1] /\ p[a] < u[a]
          \/ m <= u[a] /\ p[a] <= u[a]
      BY ONLY <1>8, <3>1
    <3>3. p[a] \in Nat /\ u[a] \in Nat
      BY ONLY <1>1, <1>3, <3>1
    <3> QED
      BY ONLY <3>2, <3>3
  <2>2. u[1] \in Nat
    BY <1>3, <1>7
  <2>3. u[1] <= g
    BY <1>6, <2>2
  <2> QED
    BY <1>6, <2>1, <2>3
<1>10. ASSUME NEW i \in 1 .. Len(u), u[i] < g
       PROVE  /\ i <= n
              /\ \A j \in 1 .. Len(v) : u[i] < v[j] => i + Len(v) - j + 1 <= n
  <2>1. i \in 1 .. Len(p) /\ p[i] \in Nat /\ u[i] \in Nat
    BY <1>1, <1>3
  <2>2. CASE i + 1 \in 1 .. Len(p) /\ u[i] = p[i + 1]
    <3> DEFINE e == i + 1
    <3>1. e \in 1 .. Len(p) /\ p[e] = u[i] /\ p[e] < g
      BY <1>10, <2>2
    <3>2. e <= n
      BY <1>6, <3>1
    <3>3. ASSUME NEW j \in 1 .. Len(v), u[i] < v[j]
          PROVE  i + Len(v) - j + 1 <= n
      <4>1. CASE j = Len(v)
        BY <1>4, <3>2, <4>1
      <4>2. CASE \E k \in 1 .. Len(q) : v[j] <= q[k] /\ Len(v) - j <= Len(q) - k + 1
        <5>1. PICK k \in 1 .. Len(q) : v[j] <= q[k] /\ Len(v) - j <= Len(q) - k + 1
          BY <4>2
        <5>a. v[j] \in Nat /\ q[k] \in Nat
          BY <1>2, <1>4
        <5>b. p[e] = u[i] /\ u[i] \in Nat
          BY <2>1, <3>1
        <5>2. u[i] < q[k]
          BY ONLY <3>3, <5>1, <5>a, <5>b, Chain
        <5>c. p[e] < q[k]
          BY <5>b, <5>2
        <5>3. e + Len(q) - k + 1 <= n
          BY <1>6, <3>1, <5>c
        <5> QED
          BY <1>2, <1>4, <5>1, <5>3
      <4> QED
        BY <4>1, <4>2 DEF Took
    <3>4. i <= n
      BY <3>2
    <3> QED
      BY <3>3, <3>4
  <2>3. CASE m <= u[i] /\ p[i] <= u[i]
    <3>1. p[i] < g
      BY <1>10, <2>1, <2>3
    <3>2. i <= n
      BY <1>6, <2>1, <3>1
    <3>3. ASSUME NEW j \in 1 .. Len(v), u[i] < v[j]
          PROVE  i + Len(v) - j + 1 <= n
      <4>a. v[j] \in Nat
        BY <1>4
      <4>1. m < v[j] /\ v[j] # m
        <5>1. m \in Nat /\ u[i] \in Nat
          BY <2>1
        <5> QED
          BY ONLY <2>3, <3>3, <4>a, <5>1
      <4>2. PICK k \in 1 .. Len(q) : v[j] <= q[k] /\ Len(v) - j <= Len(q) - k
        BY <4>1 DEF Took
      <4>b. q[k] \in Nat
        BY <1>2
      <4>3. p[i] < q[k]
        BY ONLY <2>1, <2>3, <3>3, <4>2, <4>a, <4>b, Chain2
      <4>4. i + Len(q) - k + 1 <= n
        BY <1>6, <2>1, <3>1, <4>3
      <4> QED
        BY <1>2, <1>4, <4>2, <4>4
    <3> QED
      BY <3>2, <3>3
  <2> QED
    BY <1>8, <2>1, <2>2, <2>3
<1>11. ASSUME NEW x \in Range(u) \ H
       PROVE  x \in Range(v)
  <2>1. x \in Nat
    BY <1>3
  <2>2. CASE g <= x
    BY <2>1, <2>2 DEF Same
  <2>3. CASE x < g
    <3>1. x \in Range(q) \union ({m} \ H)
      <4>1. x \in Range(p) \/ x = m
        OBVIOUS
      <4> QED
        BY <1>6, <4>1
    <3>2. x \in Range(v) \/ (Len(q) = n /\ x <= q[1] /\ x <= m)
      BY <3>1 DEF Took
    <3>3. ASSUME Len(q) = n, x <= q[1], x <= m
          PROVE  FALSE
      <4>1. p[1] \in Nat /\ u[1] \in Nat /\ 1 \in 1 .. Len(q) /\ q[1] \in Nat
        BY <1>1, <1>2, <1>3, <1>5, <1>7, <3>3 DEF D
      <4>2. u[1] <= x
        <5>1. PICK i \in 1 .. Len(u) : x = u[i]
          BY <1>3
        <5>2. 1 \in 1 .. Len(u) /\ 1 <= i
          BY <1>7
        <5> QED
          BY <5>1, <5>2, NotLess
      <4>3. CASE m < p[1] /\ u = p
        BY <2>1, <3>3, <4>1, <4>2, <4>3
      <4>4. CASE p[1] < u[1] /\ u[1] < g
        <5>1. p[1] < q[1] /\ p[1] < g
          BY <2>1, <3>3, <4>1, <4>2, <4>4
        <5>2. 1 + Len(q) - 1 + 1 <= n
          BY <1>6, <1>7, <4>1, <5>1
        <5> QED
          BY <1>2, <3>3, <5>2
      <4> QED
        BY <4>3, <4>4
    <3> QED
      BY <3>2, <3>3
  <2> QED
    BY <2>1, <2>2, <2>3
<1> QED
  BY <1>6, <1>9, <1>10, <1>11 DEF Whole, a, D

\* A message that comes to a channel and to its copy.
LEMMA AddServes ==
  ASSUME NEW p \in Seq(Nat), NEW q \in Seq(Nat), NEW u \in Seq(Nat), NEW v \in Seq(Nat), NEW H,
         Ascends(p), NEW m \in Nat, NEW l \in Nat, NEW n \in Nat,
         DefaultLimit <= l, DefaultLimit <= n, Len(p) <= l, Len(q) <= n,
         l > DefaultLimit => Len(p) = l,
         Adds(p, m, l, u), IF m \in H THEN v = q ELSE Adds(q, m, n, v),
         Serves(p, q, n, H)
  PROVE  Serves(u, v, n, H)
<1> DEFINE D == DefaultLimit
           A == {m} \ H
<1>0. D \in Nat \ {0}
  BY LimitAssumption
<1>1. /\ Len(p) \in Nat /\ DOMAIN p = 1 .. Len(p)
      /\ \A i \in 1 .. Len(p) : p[i] \in Nat /\ p[i] \in Range(p)
      /\ \A x \in Range(p) : x \in Nat /\ \E i \in 1 .. Len(p) : x = p[i]
  BY InRange
<1>2. /\ Len(u) \in Nat /\ DOMAIN u = 1 .. Len(u)
      /\ \A i \in 1 .. Len(u) : u[i] \in Nat /\ u[i] \in Range(u)
      /\ \A x \in Range(u) : x \in Nat /\ \E i \in 1 .. Len(u) : x = u[i]
  BY InRange
<1>3. ASSUME NEW g \in Nat, Rising(q, g)
      PROVE  Took(q, A, m, n, g, v)
  BY <1>3, Takes
<1>4. ASSUME NEW g \in Nat, NEW h \in Nat, g <= h, Same(p, q, H, g),
             \A x \in Nat : h <= x => (x \in Range(u) <=> x \in Range(p) \/ x = m)
      PROVE  (Same(u, v, H, h) \/ Serves(u, v, n, H)) /\ Took(q, A, m, n, h, v)
  <2>1. DOMAIN q = 1 .. Len(q) /\ \A i \in 1 .. Len(q) : q[i] \in Nat
    BY InRange
  <2>2. Rising(q, g)
    BY <1>4 DEF Same
  <2>3. Rising(q, h)
    BY <1>4, <2>1, <2>2 DEF Rising
  <2>4. Took(q, A, m, n, h, v)
    BY <1>3, <2>3
  <2>5. Same(u, v, H, h) \/ Serves(u, v, n, H)
    <3>1. /\ p \in Seq(Nat) /\ q \in Seq(Nat) /\ u \in Seq(Nat) /\ v \in Seq(Nat)
          /\ m \in Nat /\ n \in Nat /\ DefaultLimit <= n
      OBVIOUS
    <3>2. Took(q, {m} \ H, m, n, h, v)
      BY <2>4
    <3> QED
      BY ONLY <1>4, <3>1, <3>2, SameKept
  <2> QED
    BY <2>4, <2>5
<1>5. PICK g \in Nat : Same(p, q, H, g) /\ (Many(q, g) \/ Whole(p, q, n, H, g))
  BY DEF Serves
<1>6. m \notin Range(p) => Gained(p, m, l, u)
  BY Gains
<1>7. m \in Range(p) => u = p
  BY DEF Adds
<1>8. CASE Many(q, g)
  <2>1. PICK f \in Nat : Same(p, q, H, f) /\ Many(q, f) /\ p[1] <= f
    BY <1>5, <1>8, ManyFromFirst
  <2>2. Len(p) >= 1 /\ 1 \in 1 .. Len(p) /\ p[1] \in Nat
    <3>1. Len(p) >= 1
      BY <1>5, <1>8, ManyFromFirst
    <3>2. 1 \in 1 .. Len(p)
      BY <1>1, <3>1, FirstOf
    <3> QED
      BY <1>1, <3>1, <3>2
  <2>3. ASSUME \A x \in Nat : f <= x => (x \in Range(u) <=> x \in Range(p) \/ x = m)
        PROVE  Serves(u, v, n, H)
    <3>a. f <= f
      OBVIOUS
    <3>1. (Same(u, v, H, f) \/ Serves(u, v, n, H)) /\ Took(q, A, m, n, f, v)
      BY <1>4, <2>1, <2>3, <3>a
    <3>2. Many(v, f)
      BY <2>1, <3>1 DEF Took
    <3> QED
      BY <3>1, <3>2 DEF Serves
  <2>4. CASE m \in Range(p)
    BY <1>7, <2>3, <2>4
  <2>5. CASE m \notin Range(p) /\ Range(u) = Range(p) \union {m}
    BY <2>3, <2>5
  <2>6. CASE m \notin Range(p) /\ m < p[1] /\ u = p
    <3>1. \A x \in Nat : f <= x => x # m
      BY <2>1, <2>2, <2>6
    <3> QED
      BY <2>3, <2>6, <3>1
  <2>7. CASE /\ m \notin Range(p) /\ Len(p) = l /\ Len(u) = l
             /\ p[1] < u[1] /\ Range(u) = (Range(p) \union {m}) \ {p[1]}
    <3>1. CASE p[1] < f
      <4>1. \A x \in Nat : f <= x => x # p[1]
        BY <2>2, <3>1
      <4> QED
        BY <2>3, <2>7, <4>1
    <3>2. CASE ~(p[1] < f)
      <4> DEFINE h == u[1]
      <4>1. h \in Nat /\ f <= h /\ p[1] < h
        BY <1>2, <2>1, <2>2, <2>7, <3>2
      <4> HIDE DEF h
      <4>2. \A x \in Nat : h <= x => (x \in Range(u) <=> x \in Range(p) \/ x = m)
        BY <2>2, <2>7, <4>1
      <4>3. Same(u, v, H, h) \/ Serves(u, v, n, H)
        BY <1>4, <2>1, <4>1, <4>2
      <4>4. Ascends(u) /\ Len(u) >= D
        BY <1>6, <2>7 DEF Gained
      <4> QED
        BY <4>3, <4>4, FirstServes DEF h, D
    <3> QED
      BY <3>1, <3>2
  <2> QED
    BY <1>6, <2>4, <2>5, <2>6, <2>7 DEF Gained
<1>9. CASE Whole(p, q, n, H, g) /\ g = 0
  <2>1. Same(p, q, H, 0)
    BY <1>5, <1>9
  <2>2. Range(q) = Range(p) \ H
    <3>1. Range(q) \subseteq Nat /\ Range(p) \subseteq Nat
      BY InRange
    <3> QED
      BY <2>1, <3>1 DEF Same
  <2>3. CASE m \in Range(p)
    <3>1. u = p /\ v = q
      BY <1>7, <2>2, <2>3 DEF Adds
    <3> QED
      BY <3>1
  <2>4. CASE m \notin Range(p) /\ Range(u) = Range(p) \union {m}
    <3>1. \A x \in Nat : 0 <= x => (x \in Range(u) <=> x \in Range(p) \/ x = m)
      BY <2>4
    <3>2. Same(u, v, H, 0) \/ Serves(u, v, n, H)
      BY <1>4, <2>1, <3>1
    <3>3. Same(u, v, H, 0) => Whole(u, v, n, H, 0)
      <4>1. \A i \in 1 .. Len(u) : ~(u[i] < 0)
        BY <1>2
      <4>2. Same(u, v, H, 0) => Range(u) \ H \subseteq Range(v)
        BY <1>2 DEF Same
      <4> QED
        BY <4>1, <4>2 DEF Whole
    <3> QED
      BY <3>2, <3>3 DEF Serves
  <2>5. CASE /\ m \notin Range(p) /\ Len(p) = l /\ Len(u) = l
             /\ \/ m < p[1] /\ u = p
                \/ p[1] < u[1] /\ Range(u) = (Range(p) \union {m}) \ {p[1]}
    <3> DEFINE h == u[1]
    <3>1. Ascends(u) /\ Len(u) >= D /\ 1 \in 1 .. Len(p) /\ p[1] \in Nat /\ h \in Nat
      BY <1>0, <1>1, <1>2, <1>6, <2>5 DEF Gained
    <3>2. \A x \in Nat : h <= x => (x \in Range(u) <=> x \in Range(p) \/ x = m)
      <4>1. CASE m < p[1] /\ u = p
        <5>1. \A x \in Nat : h <= x => x # m
          BY <3>1, <4>1
        <5> QED
          BY <4>1, <5>1
      <4>2. CASE p[1] < u[1] /\ Range(u) = (Range(p) \union {m}) \ {p[1]}
        <5>1. \A x \in Nat : h <= x => x # p[1]
          BY <3>1, <4>2
        <5> QED
          BY <4>2, <5>1
      <4> QED
        BY <2>5, <4>1, <4>2
    <3> HIDE DEF h
    <3>3. 0 <= h
      BY <3>1
    <3>4. Same(u, v, H, h) \/ Serves(u, v, n, H)
      BY <1>4, <2>1, <3>1, <3>2, <3>3
    <3> QED
      BY <3>1, <3>4, FirstServes DEF h, D
  <2> QED
    BY <1>6, <2>3, <2>4, <2>5 DEF Gained
<1>10. CASE Whole(p, q, n, H, g) /\ g # 0
  <2>1. /\ Len(p) >= D /\ p[1] <= g
        /\ Range(p) \ H \subseteq Range(q)
    BY <1>10 DEF Whole
  <2>2. Len(p) = l /\ 1 \in 1 .. Len(p) /\ p[1] \in Nat
    <3> HIDE DEF D
    <3>a. D <= Len(p) /\ Len(p) <= l /\ (l > D => Len(p) = l) /\ Len(p) \in Nat
      BY <1>1, <2>1 DEF D
    <3>1. Len(p) = l
      BY ONLY <1>0, <3>a, l \in Nat, FullIs
    <3>2. 1 \in 1 .. Len(p)
      BY ONLY <1>0, <3>a, l \in Nat, FullIs
    <3> QED
      BY <1>1, <3>1, <3>2
  <2>3. CASE m \in Range(p)
    <3>1. u = p /\ v = q
      BY <1>7, <2>1, <2>3 DEF Adds
    <3> QED
      BY <3>1
  <2>4. CASE /\ m \notin Range(p) /\ Moved(p, m, u) /\ Ascends(u) /\ Len(u) = l
             /\ \/ m < p[1] /\ u = p
                \/ p[1] < u[1] /\ Range(u) = (Range(p) \union {m}) \ {p[1]} /\ u[1] < g
    <3>1. u[1] \in Nat
      BY <1>2, <2>2, <2>4
    <3>2. \A x \in Nat : g <= x => (x \in Range(u) <=> x \in Range(p) \/ x = m)
      <4>1. CASE m < p[1] /\ u = p
        <5>1. \A x \in Nat : g <= x => x # m
          BY <2>1, <2>2, <4>1
        <5> QED
          BY <4>1, <5>1
      <4>2. CASE p[1] < u[1] /\ Range(u) = (Range(p) \union {m}) \ {p[1]} /\ u[1] < g
        <5>1. \A x \in Nat : g <= x => x # p[1]
          BY <2>2, <3>1, <4>2
        <5> QED
          BY <4>2, <5>1
      <4> QED
        BY <2>4, <4>1, <4>2
    <3>a. g <= g
      OBVIOUS
    <3>3. (Same(u, v, H, g) \/ Serves(u, v, n, H)) /\ Took(q, A, m, n, g, v)
      BY <1>4, <1>5, <3>2, <3>a
    <3>4. CASE Same(u, v, H, g)
      <4>1. Whole(u, v, n, H, g)
        BY <1>5, <1>10, <2>2, <2>4, <3>3, <3>4, WholeKept
      <4> QED
        BY <3>4, <4>1 DEF Serves
    <3> QED
      BY <3>3, <3>4
  <2>5. CASE /\ m \notin Range(p) /\ Len(u) = l /\ Ascends(u) /\ p[1] < u[1]
             /\ Range(u) = (Range(p) \union {m}) \ {p[1]} /\ ~(u[1] < g)
    <3> DEFINE h == u[1]
    <3>1. h \in Nat /\ g <= h
      BY <1>2, <2>2, <2>5
    <3>2. \A x \in Nat : h <= x => (x \in Range(u) <=> x \in Range(p) \/ x = m)
      <4>1. \A x \in Nat : h <= x => x # p[1]
        BY <2>2, <2>5, <3>1
      <4> QED
        BY <2>5, <4>1
    <3> HIDE DEF h
    <3>3. Same(u, v, H, h) \/ Serves(u, v, n, H)
      BY <1>4, <1>5, <3>1, <3>2
    <3> QED
      BY <2>5, <3>3, FirstServes DEF h, D
  <2>6. m \notin Range(p) => Len(u) = l /\ Ascends(u) /\ Moved(p, m, u)
    BY <1>6, <2>2 DEF Gained
  <2> QED
    BY <1>6, <2>2, <2>3, <2>4, <2>5, <2>6 DEF Gained
<1> QED
  BY <1>5, <1>8, <1>9, <1>10

-----------------------------------------------------------------------------
(* Filling in is adding one message after the other *)

\* How many of the first i elements of s are left without S, for every i: t is what
\* is left of all of them.
Counts(s, S, t) ==
  {c \in [0 .. Len(s) -> 0 .. Len(t)] :
     /\ c[0] = 0 /\ c[Len(s)] = Len(t)
     /\ \A i \in 1 .. Len(s) :
          IF s[i] \in S THEN c[i] = c[i - 1]
          ELSE c[i] = c[i - 1] + 1 /\ t[c[i]] = s[i]}

\* There are such counts.
LEMMA CountsExist ==
  ASSUME NEW A, NEW s \in Seq(A), NEW S
  PROVE  Counts(s, S, Without(s, S)) # {}
<1> DEFINE n == Len(s)
           t == Without(s, S)
<1>1. n \in Nat /\ \A i \in 1 .. n : s[i] \in A
  OBVIOUS
<1>2. PICK f \in [0 .. n -> Seq(A)] :
        /\ f[0] = <<>>
        /\ \A i \in 1 .. n : f[i] = IF s[i] \in S THEN f[i - 1] ELSE Append(f[i - 1], s[i])
        /\ t = f[n]
  <2>1. PICK f \in Leaving(A, s, S) : TRUE
    BY WithoutSteps
  <2> QED
    BY <2>1 DEF Leaving
<1> HIDE DEF t, n
<1>3. ASSUME NEW i \in 1 .. n
      PROVE  /\ f[i - 1] \in Seq(A) /\ f[i] \in Seq(A) /\ Len(f[i - 1]) \in Nat
             /\ s[i] \in S => f[i] = f[i - 1]
             /\ s[i] \notin S =>
                  Len(f[i]) = Len(f[i - 1]) + 1 /\ f[i][Len(f[i - 1]) + 1] = s[i]
             /\ \A k \in 1 .. Len(f[i - 1]) : f[i][k] = f[i - 1][k]
             /\ Len(f[i - 1]) <= Len(f[i])
  <2>1. i - 1 \in 0 .. n /\ i \in 0 .. n /\ s[i] \in A
    BY <1>1
  <2> DEFINE a == f[i - 1]
             e == s[i]
  <2>2. a \in Seq(A) /\ f[i] \in Seq(A) /\ e \in A
    BY <2>1
  <2>3. f[i] = IF e \in S THEN a ELSE Append(a, e)
    BY <1>2
  <2> HIDE DEF a, e
  <2>4. Len(a) \in Nat
    BY <2>2
  <2>5. CASE e \in S
    <3>1. f[i] = a
      BY <2>3, <2>5
    <3> QED
      BY <2>2, <2>4, <2>5, <3>1 DEF a, e
  <2>6. CASE e \notin S
    <3>1. f[i] = Append(a, e)
      BY <2>3, <2>6
    <3>2. Len(f[i]) = Len(a) + 1 /\ f[i][Len(a) + 1] = e
          /\ \A k \in 1 .. Len(a) : f[i][k] = a[k]
      BY <2>2, <3>1
    <3>3. Len(a) <= Len(f[i])
      BY <2>4, <3>2
    <3> QED
      BY <2>2, <2>4, <2>6, <3>2, <3>3 DEF a, e
  <2> QED
    BY <2>5, <2>6
<1> DEFINE Prefix(i, j) == /\ Len(f[i]) <= Len(f[j])
                           /\ \A k \in 1 .. Len(f[i]) : f[j][k] = f[i][k]
           T == {j \in 0 .. n : \A i \in 0 .. j : Prefix(i, j)}
<1>a. \A i \in 0 .. n : f[i] \in Seq(A) /\ Len(f[i]) \in Nat
  <2>1. TAKE i \in 0 .. n
  <2>2. f[i] \in Seq(A)
    OBVIOUS
  <2> QED
    BY <2>2
<1>4. 0 \in T
  <2>1. 0 \in 0 .. n /\ \A i \in 0 .. 0 : i = 0
    BY <1>1 DEF n
  <2>2. Prefix(0, 0)
    BY <1>a, <2>1
  <2> HIDE DEF Prefix
  <2> QED
    BY <2>1, <2>2
<1>5. ASSUME NEW j \in 1 .. n, j - 1 \in T
      PROVE  j \in T
  <2>1. n \in Nat /\ j \in 0 .. n /\ j - 1 \in 0 .. n
    BY <1>1 DEF n
  <2>2. ASSUME NEW i \in 0 .. j
        PROVE  Prefix(i, j)
    <3>1. CASE i = j
      BY <1>a, <2>1, <3>1
    <3>2. CASE i # j
      <4>1. i \in 0 .. j - 1 /\ i \in 0 .. n
        BY <2>1, <3>2
      <4>2. Prefix(i, j - 1)
        BY <1>5, <4>1
      <4>3. Len(f[i]) \in Nat /\ Len(f[j - 1]) \in Nat /\ Len(f[j]) \in Nat
        BY <1>a, <2>1, <4>1
      <4>4. Len(f[i]) <= Len(f[j])
        BY <1>3, <4>2, <4>3
      <4>5. ASSUME NEW k \in 1 .. Len(f[i])
            PROVE  f[j][k] = f[i][k]
        <5>1. k \in 1 .. Len(f[j - 1])
          BY <4>2, <4>3
        <5> QED
          BY <1>3, <4>2, <5>1
      <4> QED
        BY <4>4, <4>5
    <3> QED
      BY <3>1, <3>2
  <2> HIDE DEF Prefix
  <2> QED
    BY <2>1, <2>2
<1>6. n \in Nat /\ \A i \in 0 .. n : Prefix(i, n)
  <2>1. n \in Nat /\ n \in 0 .. n
    BY <1>1 DEF n
  <2>2. 0 .. n \subseteq T
    <3> HIDE DEF T
    <3> QED
      BY <1>4, <1>5, <2>1, UpTo
  <2> HIDE DEF Prefix
  <2> QED
    BY <2>1, <2>2
<1> HIDE DEF T
<1> DEFINE c == [i \in 0 .. n |-> Len(f[i])]
<1>7. c \in [0 .. n -> 0 .. Len(t)]
  <2>1. \A i \in 0 .. n : Len(f[i]) \in 0 .. Len(t)
    <3>1. TAKE i \in 0 .. n
    <3>2. Len(f[i]) <= Len(f[n]) /\ t = f[n] /\ Len(f[i]) \in Nat /\ Len(f[n]) \in Nat
      BY <1>2, <1>6, <1>a
    <3> QED
      BY <3>2
  <2> QED
    BY <2>1
<1>8. c[0] = 0 /\ c[n] = Len(t)
  <2>1. 0 \in 0 .. n /\ n \in 0 .. n
    BY <1>6
  <2> QED
    BY <1>2, <2>1
<1>9. ASSUME NEW i \in 1 .. n
      PROVE  IF s[i] \in S THEN c[i] = c[i - 1]
             ELSE c[i] = c[i - 1] + 1 /\ t[c[i]] = s[i]
  <2>1. i \in 0 .. n /\ i - 1 \in 0 .. n
    BY <1>6
  <2>2. c[i] = Len(f[i]) /\ c[i - 1] = Len(f[i - 1])
    BY <2>1
  <2>3. CASE s[i] \in S
    BY <1>3, <2>2, <2>3
  <2>4. CASE s[i] \notin S
    <3>1. Len(f[i]) = Len(f[i - 1]) + 1 /\ f[i][Len(f[i - 1]) + 1] = s[i]
          /\ Len(f[i - 1]) \in Nat
      BY <1>3, <2>4
    <3>2. Prefix(i, n)
      BY <1>6, <2>1
    <3>3. Len(f[i]) \in 1 .. Len(f[i])
      BY <3>1
    <3>4. t[Len(f[i])] = f[i][Len(f[i])]
      BY <1>2, <3>2, <3>3
    <3> QED
      BY <2>2, <2>4, <3>1, <3>4
  <2> QED
    BY <2>3, <2>4
<1> HIDE DEF c
<1> QED
  BY <1>7, <1>8, <1>9 DEF Counts, n, t

\* How long a ring is when an element was put in.
LEMMA PutLength ==
  ASSUME NEW A, NEW s \in Seq(A), NEW i \in 1 .. Len(s) + 1, NEW e \in A,
         NEW limit \in Nat \ {0}, Len(s) <= limit
  PROVE  Len(Put(s, i, e, limit)) = IF Len(s) < limit THEN Len(s) + 1 ELSE Len(s)
<1> DEFINE t == InsertAt(s, i, e)
<1>1. t \in Seq(A) /\ Len(t) = Len(s) + 1
  <2> HIDE DEF t
  <2>1. InsertAt(s, i, e) \in Seq(A) /\ Len(InsertAt(s, i, e)) = Len(s) + 1
    BY InsertAtFacts
  <2> QED
    BY <2>1 DEF t
<1> HIDE DEF t
<1>2. Len(Newest(t, limit)) = IF Len(t) <= limit THEN Len(t) ELSE limit
  BY <1>1, NewestFacts
<1>3. Len(s) \in Nat
  OBVIOUS
<1> QED
  BY <1>1, <1>2, <1>3 DEF Put, t

\* The messages of objects.
Msgs(objs) == [i \in 1 .. Len(objs) |-> objs[i].msg]

\* What holds of a filling of any ring after the first k messages of t: its last object
\* is the one to put things behind, no object is there twice, those of the snapshot are
\* in their order, and those that are newer than the k messages are there.
Placed(r, t, k, f) ==
  /\ f.objs # <<>> /\ f.last = f.objs[Len(f.objs)]
  /\ \A x \in Range(f.objs) :
       \/ x.at \in DOMAIN r.msgs /\ x = Snapshot(r)[x.at]
       \/ x.at = 0 /\ \E j \in 1 .. k : x.msg = t[j]
  /\ \A i, j \in DOMAIN f.objs : i < j =>
       /\ f.objs[i] # f.objs[j]
       /\ f.objs[i].at # 0 /\ f.objs[j].at # 0 => f.objs[i].at < f.objs[j].at
  /\ \A a \in DOMAIN r.msgs : (\A j \in 1 .. k : t[j] < r.msgs[a]) => Snapshot(r)[a] \in Range(f.objs)

\* The messages of well formed objects.
LEMMA MsgsFacts ==
  ASSUME NEW M, M \subseteq Nat, NEW objs \in Seq(Objects(M))
  PROVE  /\ Msgs(objs) \in Seq(M) /\ Msgs(objs) \in Seq(Nat)
         /\ Len(Msgs(objs)) = Len(objs) /\ DOMAIN Msgs(objs) = DOMAIN objs
         /\ \A i \in 1 .. Len(objs) : Msgs(objs)[i] = objs[i].msg
         /\ Range(Msgs(objs)) = {x.msg : x \in Range(objs)}
<1> DEFINE q == Msgs(objs)
           n == Len(objs)
<1>1. n \in Nat /\ DOMAIN objs = 1 .. n /\ \A i \in 1 .. n : objs[i] \in Objects(M)
  OBVIOUS
<1>2. \A i \in 1 .. n : objs[i].msg \in M
  BY <1>1 DEF Objects
<1> DEFINE E(i) == objs[i].msg
<1>3. q = [i \in 1 .. n |-> E(i)]
  BY DEF Msgs
<1>4. q \in Seq(M) /\ Len(q) = n /\ DOMAIN q = 1 .. n
  <2> HIDE DEF n, q, E
  <2>1. \A i \in 1 .. n : E(i) \in M
    BY <1>2 DEF E, n
  <2> QED
    BY <1>1, <1>3, <2>1
<1>5. q \in Seq(Nat)
  BY <1>4, SeqMonotonic
<1>6. \A i \in 1 .. n : q[i] = objs[i].msg
  BY <1>3
<1>7. Range(q) = {x.msg : x \in Range(objs)}
  <2> HIDE DEF q, n
  <2> QED
    BY <1>1, <1>4, <1>6 DEF Range
<1> QED
  BY <1>1, <1>4, <1>5, <1>6, <1>7

\* Filling in one message puts it in front of the first one that is newer.
LEMMA FillOneAdds ==
  ASSUME NEW M, M \subseteq Nat, NEW r, RingOk(r, M), r.msgs # <<>>,
         NEW t \in Seq(M), Ascends(t), Range(t) \cap Messages(r) = {},
         NEW k \in 1 .. Len(t), NEW f \in Fillings(r, M), Placed(r, t, k - 1, f)
  PROVE  /\ Placed(r, t, k, FillOne(r, f, t[k]))
         /\ Adds(Msgs(f.objs), t[k], r.limit, Msgs(FillOne(r, f, t[k]).objs))
<1> DEFINE m == t[k]
           g == FillOne(r, f, m)
           objs == f.objs
           snap == Snapshot(r)
           later == Later(r, m)
           o == New(m)
           l == Len(objs)
           q == Msgs(objs)
<1>1. /\ m \in M /\ m \in Nat /\ k \in Nat /\ Len(t) \in Nat
      /\ DOMAIN t = 1 .. Len(t) /\ k \in DOMAIN t
      /\ \A j \in 1 .. Len(t) : t[j] \in Nat
  <2>1. m \in M /\ k \in Nat /\ Len(t) \in Nat /\ DOMAIN t = 1 .. Len(t) /\ k \in DOMAIN t
    OBVIOUS
  <2>2. \A j \in 1 .. Len(t) : t[j] \in M
    OBVIOUS
  <2> QED
    BY <2>1, <2>2
<1>2. /\ objs \in Seq(Objects(M)) /\ Len(objs) <= r.limit /\ l \in Nat \ {0}
      /\ DOMAIN objs = 1 .. l /\ r.limit \in Nat \ {0}
  <2>1. objs \in Seq(Objects(M)) /\ Len(objs) <= r.limit /\ objs # <<>>
    BY DEF Fillings, Placed
  <2>2. r.limit \in Nat \ {0}
    BY LimitAssumption DEF RingOk, Ring
  <2> QED
    BY <2>1, <2>2
<1>3. /\ r.msgs \in Seq(M) /\ DOMAIN r.msgs = 1 .. Len(r.msgs) /\ Len(r.msgs) \in Nat
      /\ \A i \in DOMAIN r.msgs : r.msgs[i] \in Nat
  <2>1. r.msgs \in Seq(M)
    BY DEF RingOk
  <2>2. DOMAIN r.msgs = 1 .. Len(r.msgs) /\ Len(r.msgs) \in Nat
    BY <2>1
  <2>3. \A i \in DOMAIN r.msgs : r.msgs[i] \in M
    BY <2>1
  <2>4. \A i \in DOMAIN r.msgs : r.msgs[i] \in Nat
    BY <2>3
  <2> QED
    BY <2>1, <2>2, <2>4
<1>4. \A i \in DOMAIN r.msgs : snap[i].msg = r.msgs[i] /\ snap[i].at = i
  BY SnapshotFacts
<1>5. \A i \in 1 .. l : objs[i] \in Range(objs) /\ objs[i].msg \in Nat /\ objs[i].at \in Nat
  <2>1. TAKE i \in 1 .. l
  <2>2. objs[i] \in Objects(M) /\ objs[i] \in Range(objs)
    BY <1>2 DEF Range
  <2> QED
    BY <2>2 DEF Objects
<1>6. m \notin Messages(r)
  BY <1>1 DEF Range
<1>7. o = [msg |-> m, at |-> 0] /\ o \in Objects(M) /\ o.msg = m /\ o.at = 0
  BY <1>1 DEF New, Objects
<1>8. \A x \in Range(objs) :
        \/ x.at \in DOMAIN r.msgs /\ x = snap[x.at] /\ x.msg = r.msgs[x.at] /\ x.msg # m
        \/ x.at = 0 /\ x.msg < m /\ \E j \in 1 .. k : x.msg = t[j]
  <2>1. TAKE x \in Range(objs)
  <2>2. CASE x.at \in DOMAIN r.msgs /\ x = snap[x.at]
    <3>1. x.msg = r.msgs[x.at]
      BY <1>4, <2>2
    <3>2. x.msg \in Messages(r)
      BY <2>2, <3>1 DEF Messages, Range
    <3> QED
      BY <1>6, <2>2, <3>1, <3>2
  <2>3. CASE x.at = 0 /\ \E j \in 1 .. k - 1 : x.msg = t[j]
    <3>1. PICK j \in 1 .. k - 1 : x.msg = t[j]
      BY <2>3
    <3>2. j \in DOMAIN t /\ j < k /\ j \in 1 .. k
      BY <1>1
    <3>3. t[j] < m
      BY <1>1, <3>2 DEF Ascends
    <3> QED
      BY <2>3, <3>1, <3>2, <3>3
  <2> QED
    BY <2>2, <2>3 DEF Placed
<1>9. /\ later # {} => Min(later) \in later /\ \A i \in later : Min(later) <= i
      /\ g.last = IF later = {} THEN o ELSE f.last
      /\ \/ Needle(r, f, m) \notin Range(objs) /\ g.objs = objs
         \/ \E i \in DOMAIN objs :
              /\ objs[i] = Needle(r, f, m)
              /\ g.objs = Put(objs, IF later = {} THEN i + 1 ELSE i, o, r.limit)
  <2> HIDE DEF m
  <2>a. m \in M
    BY <1>1
  <2>1. FilledBy(r, f, m, FillOne(r, f, m))
    BY <2>a, FillOneFacts
  <2> QED
    BY <2>1 DEF FilledBy
<1>10. /\ f.last = objs[l]
       /\ \A i, j \in 1 .. l : i < j =>
            /\ objs[i] # objs[j]
            /\ objs[i].at # 0 /\ objs[j].at # 0 => objs[i].at < objs[j].at
       /\ \A a \in DOMAIN r.msgs :
            (\A j \in 1 .. k - 1 : t[j] < r.msgs[a]) => snap[a] \in Range(objs)
  BY <1>2 DEF Placed
<1>11. later = {i \in DOMAIN r.msgs : m < r.msgs[i]}
  BY DEF Later
\* What is newer than m is newer than all that came before.
<1>12. \A a \in later : snap[a] \in Range(objs)
  <2>1. TAKE a \in later
  <2>2. a \in DOMAIN r.msgs /\ m < r.msgs[a] /\ r.msgs[a] \in Nat
    BY <1>3, <1>11
  <2>3. \A j \in 1 .. k - 1 : t[j] < r.msgs[a]
    <3>1. TAKE j \in 1 .. k - 1
    <3>2. j \in DOMAIN t /\ j < k /\ t[j] \in Nat
      BY <1>1
    <3>3. t[j] < m
      BY <1>1, <3>2 DEF Ascends
    <3> QED
      BY <1>1, <2>2, <3>2, <3>3
  <2> QED
    BY <1>10, <2>2, <2>3
<1>13. q \in Seq(Nat) /\ Len(q) = l /\ (\A i \in 1 .. l : q[i] = objs[i].msg)
       /\ Range(q) = {x.msg : x \in Range(objs)}
  BY <1>2, MsgsFacts
<1>14. m \notin Range(q)
  <2>1. \A x \in Range(objs) : x.msg # m
    <3>1. TAKE x \in Range(objs)
    <3>2. x.msg < m => x.msg # m
      <4>1. PICK i \in 1 .. l : x = objs[i]
        BY <1>2 DEF Range
      <4> QED
        BY <1>1, <1>5, <4>1
    <3> QED
      BY <1>8, <3>2
  <2> QED
    BY <1>13, <2>1
<1> HIDE DEF m, g, snap, later, o, q
\* What follows from the place at which the message is put.
<1> DEFINE Goes(p) ==
             /\ p \in 1 .. l + 1
             /\ g.objs = Put(objs, p, o, r.limit)
             /\ \A j \in 1 .. p - 1 : objs[j].msg < m
             /\ p <= l => m < objs[p].msg
             /\ g.last = IF p = l + 1 THEN o ELSE objs[l]
             /\ \A a \in later : \E i \in p .. l : objs[i] = snap[a]
<1>15. ASSUME NEW p, Goes(p)
       PROVE  Placed(r, t, k, g) /\ Adds(q, m, r.limit, Msgs(g.objs))
  <2> DEFINE n == r.limit
             w == Put(objs, p, o, n)
  <2>a. p \in 1 .. l + 1 /\ p \in Nat /\ n \in Nat \ {0} /\ l <= n
    BY <1>2, <1>15
  <2>1. PICK c \in 0 .. 1 :
          /\ w \in Seq(Objects(M))
          /\ Len(w) = l + 1 - c
          /\ \A j \in 1 .. l + 1 - c :
               w[j] = IF j + c < p THEN objs[j + c] ELSE IF j + c = p THEN o ELSE objs[j + c - 1]
    <3> DEFINE O == Objects(M)
    <3>1. objs \in Seq(O) /\ o \in O
      BY <1>2, <1>7
    <3> HIDE DEF O, w
    <3>2. /\ Put(objs, p, o, n) \in Seq(O)
          /\ \E c \in 0 .. 1 :
              /\ Len(Put(objs, p, o, n)) = Len(objs) + 1 - c
              /\ \A j \in 1 .. Len(objs) + 1 - c :
                   Put(objs, p, o, n)[j] =
                     IF j + c < p THEN objs[j + c] ELSE IF j + c = p THEN o ELSE objs[j + c - 1]
      <4>1. /\ objs \in Seq(O) /\ o \in O /\ p \in 1 .. Len(objs) + 1
            /\ n \in Nat \ {0} /\ Len(objs) <= n
        BY <2>a, <3>1
      <4> HIDE DEF l, n, objs
      <4> QED
        BY ONLY <4>1, PutFacts
    <3> QED
      BY <3>2 DEF w, O
  <2>2. Len(w) = IF l < n THEN l + 1 ELSE l
    <3> DEFINE O == Objects(M)
    <3>1. objs \in Seq(O) /\ o \in O
      BY <1>2, <1>7
    <3> HIDE DEF O, w
    <3>2. Len(Put(objs, p, o, n)) = IF Len(objs) < n THEN Len(objs) + 1 ELSE Len(objs)
      BY <2>a, <3>1, PutLength
    <3> QED
      BY <3>2 DEF w
  <2>3. g.objs = w
    BY <1>15
  <2> HIDE DEF w, l
  <2>4. c = (IF l < n THEN 0 ELSE 1) /\ l \in Nat \ {0} /\ Len(w) \in Nat \ {0}
        /\ Len(w) = l + 1 - c /\ DOMAIN w = 1 .. Len(w)
    <3>1. l \in Nat \ {0}
      BY <1>2
    <3>2. c = 0 \/ c = 1
      OBVIOUS
    <3>3. DOMAIN w = 1 .. Len(w)
      BY <2>1
    <3> QED
      BY <2>1, <2>2, <3>1, <3>2, <3>3
  \* Where the elements of w come from.
  <2>5. \A j \in 1 .. Len(w) :
          \/ j + c < p /\ j + c \in 1 .. l /\ w[j] = objs[j + c]
          \/ j + c = p /\ w[j] = o
          \/ p < j + c /\ j + c - 1 \in 1 .. l /\ w[j] = objs[j + c - 1]
    <3>1. TAKE j \in 1 .. Len(w)
    <3>2. w[j] = IF j + c < p THEN objs[j + c] ELSE IF j + c = p THEN o ELSE objs[j + c - 1]
      BY <2>1, <2>4
    <3> QED
      BY <2>a, <2>4, <3>2
  <2>6. Range(w) \subseteq Range(objs) \union {o}
    <3>1. SUFFICES ASSUME NEW x \in Range(w)
                   PROVE  x \in Range(objs) \union {o}
      OBVIOUS
    <3>2. PICK j \in 1 .. Len(w) : x = w[j]
      BY <2>4 DEF Range
    <3> QED
      BY <1>5, <2>5, <3>2
  <2>7. w # <<>> /\ g.last = w[Len(w)]
    <3> DEFINE z == Len(w)
    <3>1. z + c = l + 1 /\ z \in 1 .. Len(w)
      BY <2>4
    <3>2. g.last = IF p = l + 1 THEN o ELSE objs[l]
      BY <1>15
    <3>3. w[z] = IF z + c < p THEN objs[z + c] ELSE IF z + c = p THEN o ELSE objs[z + c - 1]
      BY <2>1, <2>4, <3>1
    <3>4. z + c - 1 = l /\ ~(z + c < p) /\ (z + c = p <=> p = l + 1)
      BY <2>a, <2>4, <3>1
    <3>5. w[z] = g.last
      BY <3>2, <3>3, <3>4
    <3>6. w # <<>>
      BY <2>4
    <3> QED
      BY <3>5, <3>6
  <2>8. \A x \in Range(w) :
          \/ x.at \in DOMAIN r.msgs /\ x = snap[x.at]
          \/ x.at = 0 /\ \E j \in 1 .. k : x.msg = t[j]
    <3>1. o.at = 0 /\ k \in 1 .. k /\ o.msg = t[k]
      BY <1>1, <1>7 DEF m
    <3> QED
      BY <1>8, <2>6, <3>1
  <2>9. o \notin Range(objs)
    <3>1. m \in Nat
      BY <1>1 DEF m
    <3> QED
      BY <1>7, <1>8, <3>1
  <2>10. ASSUME NEW i \in 1 .. Len(w), NEW j \in 1 .. Len(w), i < j
         PROVE  w[i] # w[j] /\ (w[i].at # 0 /\ w[j].at # 0 => w[i].at < w[j].at)
    <3>1. CASE w[i] = o
      <4>1. i + c = p
        BY <1>5, <2>5, <2>9, <3>1
      <4>2. w[j] \in Range(objs)
        BY <1>5, <2>5, <2>10, <4>1
      <4> QED
        BY <1>7, <2>9, <3>1, <4>2
    <3>2. CASE w[j] = o
      <4>1. j + c = p
        BY <1>5, <2>5, <2>9, <3>2
      <4>2. w[i] \in Range(objs)
        BY <1>5, <2>5, <2>10, <4>1
      <4> QED
        BY <1>7, <2>9, <3>2, <4>2
    <3>3. CASE w[i] # o /\ w[j] # o
      <4>a. ASSUME NEW h \in 1 .. Len(w), w[h] # o
            PROVE  \E a \in 1 .. l :
                     /\ w[h] = objs[a]
                     /\ (a = h + c /\ h + c < p) \/ (a = h + c - 1 /\ p < h + c)
        BY <2>5, <4>a
      <4>1. PICK a \in 1 .. l :
              /\ w[i] = objs[a]
              /\ (a = i + c /\ i + c < p) \/ (a = i + c - 1 /\ p < i + c)
        BY <3>3, <4>a
      <4>2. PICK b \in 1 .. l :
              /\ w[j] = objs[b]
              /\ (b = j + c /\ j + c < p) \/ (b = j + c - 1 /\ p < j + c)
        BY <3>3, <4>a
      <4>3. a < b
        BY <2>a, <2>10, <4>1, <4>2
      <4>4. objs[a] # objs[b] /\ (objs[a].at # 0 /\ objs[b].at # 0 => objs[a].at < objs[b].at)
        BY <1>10, <4>3
      <4>5. w[i] = objs[a] /\ w[j] = objs[b]
        BY <4>1, <4>2
      <4> QED
        BY <4>4, <4>5
    <3> QED
      BY <3>1, <3>2, <3>3
  <2>11. ASSUME NEW a \in DOMAIN r.msgs, \A j \in 1 .. k : t[j] < r.msgs[a]
         PROVE  snap[a] \in Range(w)
    <3>1. k \in 1 .. k /\ m < r.msgs[a]
      BY <1>1, <2>11 DEF m
    <3>2. a \in later
      BY <1>11, <3>1
    <3>3. PICK i \in p .. l : objs[i] = snap[a]
      BY <1>15, <3>2
    <3> DEFINE j == i + 1 - c
    <3>4. j \in 1 .. Len(w) /\ j + c = i + 1 /\ ~(j + c < p) /\ j + c # p /\ j + c - 1 = i
      BY <2>a, <2>4, <3>3
    <3>5. w[j] = objs[i]
      <4>1. w[j] = IF j + c < p THEN objs[j + c] ELSE IF j + c = p THEN o ELSE objs[j + c - 1]
        BY <2>1, <2>4, <3>4
      <4> QED
        BY <3>4, <4>1
    <3> HIDE DEF j
    <3> QED
      BY <2>4, <3>3, <3>4, <3>5 DEF Range
  <2>12. Placed(r, t, k, g)
    BY <2>3, <2>4, <2>7, <2>8, <2>10, <2>11 DEF Placed, snap
  <2> DEFINE v == Msgs(w)
  <2>13. v \in Seq(Nat) /\ Len(v) = Len(w) /\ \A i \in 1 .. Len(w) : v[i] = w[i].msg
    BY <2>1, MsgsFacts
  <2> HIDE DEF v
  <2>14. AddedAt(q, m, n, p, c, v)
    <3> DEFINE e == Inserted(q, p, m)
    <3>1. \A i \in 1 .. l + 1 : e[i] = IF i < p THEN q[i] ELSE IF i = p THEN m ELSE q[i - 1]
      BY <1>13 DEF Inserted
    <3> HIDE DEF e
    <3>2. \A i \in 1 .. Len(v) : v[i] = e[i + c]
      <4>1. TAKE i \in 1 .. Len(v)
      <4> DEFINE b == i + c
      <4>2. i \in 1 .. Len(w) /\ b \in 1 .. l + 1
        BY <2>4, <2>13
      <4>3. e[b] = IF b < p THEN q[b] ELSE IF b = p THEN m ELSE q[b - 1]
        BY <3>1, <4>2
      <4>4. CASE b < p /\ b \in 1 .. l /\ w[i] = objs[b]
        BY <1>13, <2>13, <4>2, <4>3, <4>4
      <4>5. CASE b = p /\ w[i] = o
        BY <1>7, <2>13, <4>2, <4>3, <4>5
      <4>6. CASE p < b /\ b - 1 \in 1 .. l /\ w[i] = objs[b - 1]
        <5>1. q[b - 1] = objs[b - 1].msg
          BY <1>13, <4>6
        <5>2. ~(b < p) /\ b # p
          BY <2>a, <4>2, <4>6
        <5> HIDE DEF b
        <5>3. v[i] = q[b - 1] /\ e[b] = q[b - 1]
          BY <2>13, <4>2, <4>3, <4>6, <5>1, <5>2
        <5> QED
          BY <5>3 DEF b
      <4> QED
        BY <2>5, <4>2, <4>4, <4>5, <4>6
    <3>3. \A i \in 1 .. p - 1 : q[i] < m
      <4>1. TAKE i \in 1 .. p - 1
      <4>2. i \in 1 .. l /\ objs[i].msg < m
        BY <1>15, <2>a, <2>4
      <4> QED
        BY <1>13, <4>2
    <3>4. p <= l => m < q[p]
      <4>1. p <= l => p \in 1 .. l
        BY <2>a
      <4> QED
        BY <1>13, <1>15, <4>1
    <3>5. Len(v) = Len(q) + 1 - c /\ p \in 1 .. Len(q) + 1
          /\ c = IF Len(q) < n THEN 0 ELSE 1
      BY <1>13, <2>a, <2>4, <2>13
    <3>6. p <= Len(q) => m < q[p]
      BY <1>13, <3>4
    <3> QED
      BY <3>2, <3>3, <3>5, <3>6 DEF AddedAt, e
  <2>15. Adds(q, m, n, v)
    BY <1>14, <2>a, <2>14 DEF Adds
  <2> QED
    BY <2>3, <2>12, <2>15 DEF v
<1>16. \E p : Goes(p)
  <2>1. CASE later = {}
    <3>1. Needle(r, f, m) = objs[l] /\ objs[l] \in Range(objs) /\ l \in 1 .. l
      BY <1>2, <1>5, <1>10, <2>1 DEF Needle, later
    <3>2. PICK i \in 1 .. l : objs[i] = objs[l] /\ g.objs = Put(objs, i + 1, o, r.limit)
      BY <1>2, <1>9, <2>1, <3>1
    <3>3. i = l
      <4>1. i < l \/ i = l
        OBVIOUS
      <4> QED
        BY <1>10, <3>1, <3>2, <4>1
    <3> DEFINE p == l + 1
    <3>4. \A j \in 1 .. l : objs[j].msg < m
      <4>1. TAKE j \in 1 .. l
      <4>2. objs[j] \in Range(objs) /\ objs[j].msg \in Nat
        BY <1>5
      <4>3. CASE objs[j].at \in DOMAIN r.msgs /\ objs[j].msg = r.msgs[objs[j].at] /\ objs[j].msg # m
        <5>1. ~(m < r.msgs[objs[j].at])
          BY <1>11, <2>1, <4>3
        <5>2. m \in Nat
          BY <1>1 DEF m
        <5> QED
          BY <4>2, <4>3, <5>1, <5>2
      <4> QED
        BY <1>8, <4>2, <4>3
    <3>5. l \in Nat
      BY <1>2
    <3>6. g.last = o
      BY <1>9, <2>1
    <3>7. Goes(p)
      BY <2>1, <3>2, <3>3, <3>4, <3>5, <3>6
    <3> QED
      BY <3>7
  <2>2. CASE later # {}
    <3> DEFINE a == Min(later)
    <3>1. a \in later /\ \A i \in later : a <= i
      BY <1>9, <2>2
    <3>2. Needle(r, f, m) = snap[a] /\ snap[a] \in Range(objs)
      BY <1>12, <2>2, <3>1 DEF Needle, later, snap
    <3>3. PICK p \in 1 .. l : objs[p] = snap[a] /\ g.objs = Put(objs, p, o, r.limit)
      BY <1>2, <1>9, <2>2, <3>2
    <3> HIDE DEF a
    <3>4. a \in DOMAIN r.msgs /\ m < r.msgs[a] /\ a \in Nat /\ objs[p].msg = r.msgs[a] /\ objs[p].at = a
          /\ a # 0
      <4>1. a \in DOMAIN r.msgs /\ m < r.msgs[a]
        BY <1>11, <3>1
      <4> QED
        BY <1>3, <1>4, <3>3, <4>1 DEF snap
    <3>5. \A j \in 1 .. p - 1 : objs[j].msg < m
      <4>1. TAKE j \in 1 .. p - 1
      <4>2. j \in 1 .. l /\ j < p /\ objs[j] \in Range(objs) /\ objs[j].msg \in Nat /\ objs[j].at \in Nat
        <5>1. l \in Nat /\ j \in 1 .. l /\ j < p
          BY <1>2
        <5> QED
          BY <1>5, <5>1
      <4>3. CASE objs[j].at \in DOMAIN r.msgs /\ objs[j].msg = r.msgs[objs[j].at] /\ objs[j].msg # m
        <5>1. objs[j].at # 0
          BY <1>3, <4>3
        <5>2. objs[j].at < a
          BY <1>10, <3>4, <4>2, <5>1
        <5>3. objs[j].at \notin later
          BY <3>1, <3>4, <4>2, <5>2
        <5>4. ~(m < r.msgs[objs[j].at])
          BY <1>11, <4>3, <5>3
        <5>5. m \in Nat
          BY <1>1 DEF m
        <5> QED
          BY <4>2, <4>3, <5>4, <5>5
      <4> QED
        BY <1>8, <4>2, <4>3
    <3>6. ASSUME NEW b \in later
          PROVE  \E i \in p .. l : objs[i] = snap[b]
      <4>1. snap[b] \in Range(objs)
        BY <1>12
      <4>2. PICK i \in 1 .. l : objs[i] = snap[b]
        BY <1>2, <4>1 DEF Range
      <4>3. b \in DOMAIN r.msgs /\ objs[i].at = b /\ b # 0 /\ b \in Nat
        <5>1. b \in DOMAIN r.msgs
          BY <1>11
        <5> QED
          BY <1>3, <1>4, <4>2, <5>1 DEF snap
      <4>4. ~(i < p)
        <5>1. ASSUME i < p
              PROVE  FALSE
          <6>1. b < a
            BY <1>10, <3>4, <4>3, <5>1
          <6>2. a <= b
            BY <3>1
          <6> QED
            BY <3>4, <4>3, <6>1, <6>2
        <5> QED
          BY <5>1
      <4>5. i \in p .. l
        BY <4>4
      <4> QED
        BY <4>2, <4>5
    <3>7. g.last = objs[l] /\ p # l + 1 /\ p \in 1 .. l + 1
      <4>1. l \in Nat
        BY <1>2
      <4> QED
        BY <1>9, <1>10, <2>2, <4>1
    <3>8. Goes(p)
      BY <3>3, <3>4, <3>5, <3>6, <3>7
    <3> QED
      BY <3>8
  <2> QED
    BY <2>1, <2>2
<1>17. Placed(r, t, k, g) /\ Adds(q, m, r.limit, Msgs(g.objs))
  <2> HIDE DEF Goes
  <2> QED
    BY <1>15, <1>16
<1> QED
  BY <1>17 DEF g, m, q

-----------------------------------------------------------------------------
(* Filling in, message by message *)

\* What a channel or a copy q with room for n is after each of the messages of s, of
\* which it gets those that are not in H; in the end it is v.
Fillable(q, s, H, n, v) ==
  {h \in [0 .. Len(s) -> Seq(Nat)] :
     /\ h[0] = q /\ h[Len(s)] = v
     /\ \A i \in 1 .. Len(s) : IF s[i] \in H THEN h[i] = h[i - 1] ELSE Adds(h[i - 1], s[i], n, h[i])}

\* The elements that are left of the first ones are among the first ones.
LEMMA CountsEarlier ==
  ASSUME NEW A, NEW s \in Seq(A), NEW S, NEW t \in Seq(A), NEW c \in Counts(s, S, t)
  PROVE  \A i \in 0 .. Len(s) : \A e \in 1 .. c[i] : \E a \in 1 .. i : t[e] = s[a]
<1> DEFINE n == Len(s)
           P(i) == \A e \in 1 .. c[i] : \E a \in 1 .. i : t[e] = s[a]
           T == {i \in 0 .. n : P(i)}
<1>1. /\ n \in Nat /\ Len(t) \in Nat
      /\ c \in [0 .. n -> 0 .. Len(t)] /\ c[0] = 0
      /\ \A i \in 1 .. n : IF s[i] \in S THEN c[i] = c[i - 1]
                           ELSE c[i] = c[i - 1] + 1 /\ t[c[i]] = s[i]
  BY DEF Counts
<1> HIDE DEF n
<1>2. \A i \in 0 .. n : c[i] \in Nat
  BY <1>1
<1>3. 0 \in T
  BY <1>1
<1>4. ASSUME NEW i \in 1 .. n, i - 1 \in T
      PROVE  i \in T
  <2>1. i \in 0 .. n /\ i - 1 \in 0 .. n /\ c[i] \in Nat /\ c[i - 1] \in Nat
    BY <1>1, <1>2
  <2>2. ASSUME NEW e \in 1 .. c[i]
        PROVE  \E a \in 1 .. i : t[e] = s[a]
    <3>1. CASE e \in 1 .. c[i - 1]
      <4>1. PICK a \in 1 .. i - 1 : t[e] = s[a]
        BY <1>4, <3>1
      <4>2. a \in 1 .. i
        BY <2>1
      <4> QED
        BY <4>1, <4>2
    <3>2. CASE e \notin 1 .. c[i - 1]
      <4>1. c[i] = c[i - 1] + 1 /\ t[c[i]] = s[i]
        <5>1. c[i] # c[i - 1]
          BY <3>2
        <5> QED
          BY <1>1, <5>1
      <4>2. e = c[i]
        BY <2>1, <3>2, <4>1
      <4>3. i \in 1 .. i
        OBVIOUS
      <4> QED
        BY <4>1, <4>2, <4>3
    <3> QED
      BY <3>1, <3>2
  <2> QED
    BY <2>1, <2>2
<1>5. 0 .. n \subseteq T
  <2> HIDE DEF T
  <2> QED
    BY <1>1, <1>3, <1>4, UpTo
<1> QED
  BY <1>5 DEF n

\* Who gets the messages that are left gets those of all that are not hidden.
LEMMA FillableSpread ==
  ASSUME NEW q, NEW s \in Seq(Nat), NEW H, NEW n, NEW v,
         Fillable(q, Without(s, H), {}, n, v) # {}
  PROVE  Fillable(q, s, H, n, v) # {}
<1> DEFINE t == Without(s, H)
           l == Len(s)
<1>1. t \in Seq(Nat) /\ Len(t) \in Nat /\ l \in Nat
  <2>1. t \in Seq(Nat)
    BY WithoutMembers
  <2> QED
    BY <2>1
<1>2. PICK c \in Counts(s, H, t) : TRUE
  BY CountsExist
<1>3. PICK h \in Fillable(q, t, {}, n, v) : TRUE
  OBVIOUS
<1> HIDE DEF t, l
<1>4. /\ c \in [0 .. l -> 0 .. Len(t)] /\ c[0] = 0 /\ c[l] = Len(t)
      /\ \A i \in 1 .. l : IF s[i] \in H THEN c[i] = c[i - 1]
                           ELSE c[i] = c[i - 1] + 1 /\ t[c[i]] = s[i]
  BY DEF Counts, l
<1>5. /\ h \in [0 .. Len(t) -> Seq(Nat)] /\ h[0] = q /\ h[Len(t)] = v
      /\ \A i \in 1 .. Len(t) : Adds(h[i - 1], t[i], n, h[i])
  BY DEF Fillable
<1> DEFINE g == [i \in 0 .. l |-> h[c[i]]]
<1>6. g \in [0 .. l -> Seq(Nat)]
  BY <1>4, <1>5
<1>7. g[0] = q /\ g[l] = v
  BY <1>1, <1>4, <1>5
<1>8. ASSUME NEW i \in 1 .. l
      PROVE  IF s[i] \in H THEN g[i] = g[i - 1] ELSE Adds(g[i - 1], s[i], n, g[i])
  <2>1. i \in 0 .. l /\ i - 1 \in 0 .. l
    BY <1>1
  <2>2. g[i] = h[c[i]] /\ g[i - 1] = h[c[i - 1]] /\ c[i] \in 0 .. Len(t) /\ c[i - 1] \in 0 .. Len(t)
    BY <1>4, <2>1
  <2>3. CASE s[i] \in H
    BY <1>4, <2>2, <2>3
  <2>4. CASE s[i] \notin H
    <3>1. c[i] = c[i - 1] + 1 /\ t[c[i]] = s[i]
      BY <1>4, <2>4
    <3>a. c[i] \in Nat /\ c[i - 1] \in Nat /\ c[i] <= Len(t)
      BY <1>1, <2>2
    <3>2. c[i] \in 1 .. Len(t) /\ c[i] - 1 = c[i - 1]
      BY <1>1, <3>1, <3>a
    <3>3. Adds(h[c[i] - 1], t[c[i]], n, h[c[i]])
      BY <1>5, <3>2
    <3>4. Adds(g[i - 1], s[i], n, g[i])
      BY <2>2, <3>1, <3>2, <3>3
    <3> QED
      BY <2>4, <3>4
  <2> QED
    BY <2>3, <2>4
<1> HIDE DEF g
<1> QED
  BY <1>6, <1>7, <1>8 DEF Fillable, l

\* One message after the other at the end of what was empty.
LEMMA NewestFillable ==
  ASSUME NEW t \in Seq(Nat), Ascends(t), NEW n \in Nat \ {0}
  PROVE  Fillable(<<>>, t, {}, n, Newest(t, n)) # {}
<1> DEFINE l == Len(t)
           Part(i) == SubSeq(t, 1, i)
           h == [i \in 0 .. l |-> Newest(Part(i), n)]
<1>1. l \in Nat /\ n \in Nat /\ \A i \in 1 .. l : t[i] \in Nat
  OBVIOUS
<1>2. \A i \in 0 .. l : /\ Part(i) \in Seq(Nat) /\ Len(Part(i)) = i
                        /\ \A k \in 1 .. i : Part(i)[k] = t[k]
  <2>1. TAKE i \in 0 .. l
  <2>2. \A k \in 1 .. i : k \in 1 .. l
    BY <1>1
  <2> QED
    BY <1>1, <2>2
<1> HIDE DEF Part
<1>3. ASSUME NEW i \in 0 .. l
      PROVE  /\ h[i] \in Seq(Nat)
             /\ Len(h[i]) = IF i <= n THEN i ELSE n
             /\ \A k \in 1 .. Len(h[i]) : h[i][k] = t[i - Len(h[i]) + k]
  <2> DEFINE a == Part(i)
             b == Newest(a, n)
  <2>1. a \in Seq(Nat) /\ Len(a) = i /\ \A k \in 1 .. i : a[k] = t[k]
    BY <1>2
  <2> HIDE DEF a
  <2>2. b \in Seq(Nat) /\ Len(b) = (IF Len(a) <= n THEN Len(a) ELSE n)
        /\ \A k \in 1 .. Len(b) : b[k] = a[Len(a) - Len(b) + k]
    <3>1. a \in Seq(Nat) /\ n \in Nat
      BY <2>1
    <3> QED
      BY ONLY <3>1, NewestFacts
  <2>3. h[i] = b
    BY DEF a
  <2> HIDE DEF b, h
  <2>4. ASSUME NEW k \in 1 .. Len(b)
        PROVE  b[k] = t[i - Len(b) + k]
    <3>1. i - Len(b) + k \in 1 .. i
      BY <1>1, <2>1, <2>2
    <3> QED
      BY <2>1, <2>2, <3>1
  <2> QED
    BY <2>1, <2>2, <2>3, <2>4
<1>4. h \in [0 .. l -> Seq(Nat)]
  BY <1>3
<1>5. h[0] = <<>> /\ h[l] = Newest(t, n)
  <2>1. 0 \in 0 .. l /\ l \in 0 .. l
    BY <1>1
  <2>2. h[0] \in Seq(Nat) /\ Len(h[0]) = 0
    BY <1>1, <1>3, <2>1
  <2>3. h[0] = <<>>
    BY <2>2
  <2>4. Part(l) = t
    <3>1. Part(l) \in Seq(Nat) /\ Len(Part(l)) = l /\ \A k \in 1 .. l : Part(l)[k] = t[k]
      BY <1>2, <2>1
    <3> QED
      BY <3>1
  <2> QED
    BY <2>1, <2>3, <2>4
<1>6. ASSUME NEW i \in 1 .. l
      PROVE  Adds(h[i - 1], t[i], n, h[i])
  <2> DEFINE q == h[i - 1]
             v == h[i]
             m == t[i]
             k == Len(q) + 1
             d == IF Len(q) < n THEN 0 ELSE 1
  <2>1. i \in 0 .. l /\ i - 1 \in 0 .. l /\ m \in Nat
    BY <1>1
  <2>2. /\ q \in Seq(Nat) /\ Len(q) = (IF i - 1 <= n THEN i - 1 ELSE n)
        /\ \A j \in 1 .. Len(q) : q[j] = t[i - 1 - Len(q) + j]
    BY <1>3, <2>1
  <2>3. /\ v \in Seq(Nat) /\ Len(v) = (IF i <= n THEN i ELSE n)
        /\ \A j \in 1 .. Len(v) : v[j] = t[i - Len(v) + j]
    BY <1>3, <2>1
  <2> HIDE DEF q, v, h
  <2>4. /\ Len(q) \in Nat /\ k \in Nat /\ d \in 0 .. 1 /\ Len(v) = Len(q) + 1 - d
        /\ k = Len(q) + 1 /\ d = IF Len(q) < n THEN 0 ELSE 1
    BY <1>1, <2>2, <2>3
  <2> HIDE DEF k, d
  <2>5. \A j \in 1 .. Len(q) : q[j] < m
    <3>1. TAKE j \in 1 .. Len(q)
    <3>2. i - 1 - Len(q) + j \in DOMAIN t /\ i - 1 - Len(q) + j < i /\ i \in DOMAIN t
      BY <1>1, <2>2
    <3> QED
      BY <2>2, <3>2 DEF Ascends
  <2>6. m \notin Range(q)
    <3>1. ASSUME m \in Range(q)
          PROVE  FALSE
      <4>1. PICK j \in 1 .. Len(q) : m = q[j]
        BY <2>2, <3>1, InRange
      <4> QED
        BY <2>1, <2>5, <4>1
    <3> QED
      BY <3>1
  <2>7. \A j \in 1 .. Len(v) : v[j] = Inserted(q, k, m)[j + d]
    <3>1. TAKE j \in 1 .. Len(v)
    <3> DEFINE x == j + d
    <3>2. x \in 1 .. Len(q) + 1 /\ x \in Nat /\ Len(v) \in Nat /\ i - Len(v) + j = i - 1 - Len(q) + x
      BY <2>4
    <3> HIDE DEF x
    <3>3. Inserted(q, k, m)[x] = IF x < k THEN q[x] ELSE IF x = k THEN m ELSE q[x - 1]
      BY <3>2 DEF Inserted
    <3>4. v[j] = t[i - 1 - Len(q) + x]
      <4>1. v[j] = t[i - Len(v) + j]
        BY <2>3
      <4> QED
        BY <3>2, <4>1
    <3>5. CASE x < k
      <4>1. x \in 1 .. Len(q)
        BY <2>4, <3>2, <3>5
      <4>2. q[x] = t[i - 1 - Len(q) + x]
        BY <2>2, <4>1
      <4>3. v[j] = Inserted(q, k, m)[x]
        BY <3>3, <3>4, <3>5, <4>2
      <4> QED
        BY <4>3 DEF x
    <3>6. CASE ~(x < k)
      <4>1. x = k /\ i - 1 - Len(q) + x = i
        BY <2>4, <3>2, <3>6
      <4>2. v[j] = m
        BY <3>4, <4>1
      <4>3. Inserted(q, k, m)[x] = m
        BY <3>3, <3>6, <4>1
      <4> QED
        BY <4>2, <4>3 DEF x
    <3> QED
      BY <3>5, <3>6
  <2>8. AddedAt(q, m, n, k, d, v)
    BY <2>4, <2>5, <2>7 DEF AddedAt
  <2>9. Adds(q, m, n, v)
    BY <2>4, <2>6, <2>8 DEF Adds
  <2> QED
    BY <2>9 DEF q, v
<1> HIDE DEF h
<1> QED
  BY <1>4, <1>5, <1>6 DEF Fillable, l

\* Nothing is filled in yet.
LEMMA FirstPlaced ==
  ASSUME NEW M, M \subseteq Nat, NEW r, RingOk(r, M), r.msgs # <<>>, NEW t
  PROVE  /\ First(r) \in Fillings(r, M) /\ Placed(r, t, 0, First(r))
         /\ Msgs(First(r).objs) = r.msgs
<1> DEFINE snap == Snapshot(r)
           n == Len(r.msgs)
<1>1. /\ snap \in Seq(Objects(M)) /\ Len(snap) = n /\ DOMAIN snap = DOMAIN r.msgs
      /\ \A i \in DOMAIN r.msgs : snap[i].msg = r.msgs[i] /\ snap[i].at = i
      /\ First(r) \in Fillings(r, M)
  BY SnapshotFacts
<1>2. r.msgs \in Seq(M) /\ n \in Nat \ {0} /\ DOMAIN r.msgs = 1 .. n
  <2>1. r.msgs \in Seq(M)
    BY DEF RingOk
  <2> QED
    BY <2>1
<1>3. First(r).objs = snap /\ First(r).last = Last(snap)
  BY DEF First
<1> HIDE DEF snap
<1>4. Last(snap) = snap[Len(snap)] /\ snap # <<>>
  BY <1>1, <1>2 DEF Last
<1>5. \A x \in Range(snap) : x.at \in DOMAIN r.msgs /\ x = snap[x.at]
  BY <1>1 DEF Range
<1>6. \A i, j \in DOMAIN snap : i < j => /\ snap[i] # snap[j]
                                         /\ snap[i].at < snap[j].at
  <2>1. TAKE i, j \in DOMAIN snap
  <2>2. snap[i].at = i /\ snap[j].at = j /\ i \in Nat /\ j \in Nat
    BY <1>1, <1>2
  <2> QED
    BY <2>2
<1>7. \A a \in DOMAIN r.msgs : snap[a] \in Range(snap)
  BY <1>1 DEF Range
<1>8. Placed(r, t, 0, First(r))
  BY <1>3, <1>4, <1>5, <1>6, <1>7 DEF Placed, snap
<1>9. Msgs(snap) = r.msgs
  <2>1. Msgs(snap) = [i \in 1 .. n |-> r.msgs[i]]
    BY <1>1, <1>2 DEF Msgs
  <2> QED
    BY <1>2, <2>1
<1> QED
  BY <1>1, <1>3, <1>8, <1>9

\* The messages that a ring lacks are put into it one after the other.
LEMMA LackedFillable ==
  ASSUME NEW M, M \subseteq Nat, NEW r, RingOk(r, M), r.msgs # <<>>,
         NEW s \in Seq(M), Ascends(s)
  PROVE  Fillable(r.msgs, s, {}, r.limit, FillIn(r, s).msgs) # {}
<1> DEFINE S == Messages(r)
           t == Without(s, S)
           l == Len(s)
           n == r.limit
           F == Fillings(r, M)
<1>1. t \in Seq(M) /\ Range(t) = Range(s) \ S /\ s \in Seq(Nat) /\ Len(t) \in Nat /\ l \in Nat
  <2>1. t \in Seq(M) /\ Range(t) = Range(s) \ S
    BY WithoutMembers
  <2> HIDE DEF t
  <2>a. s \in Seq(Nat)
    BY SeqMonotonic
  <2>2. s \in Seq(Nat) /\ Len(t) \in Nat /\ l \in Nat
    BY <2>1, <2>a
  <2> QED
    BY <2>1, <2>2
<1>2. Ascends(t)
  BY <1>1, WithoutAscends
<1>3. PICK c \in Counts(s, S, t) : TRUE
  BY CountsExist
<1>4. PICK f \in Filling(r, t, M) : TRUE
  BY <1>1, FilledSteps
<1>5. FillIn(r, s).msgs = Msgs(f[Len(t)].objs)
  <2> DEFINE filled == Filled(r, t)
             q == [i \in DOMAIN filled |-> filled[i].msg]
  <2>1. FillIn(r, s) = [r EXCEPT !.msgs = q]
    BY DEF FillIn, MissingIn
  <2> HIDE DEF q
  <2>2. FillIn(r, s).msgs = q
    BY <2>1 DEF RingOk, Ring
  <2>3. filled = f[Len(t)].objs /\ Len(t) \in 0 .. Len(t) /\ f[Len(t)] \in F
    BY <1>1 DEF Filling
  <2>4. filled \in Seq(Objects(M))
    BY <2>3 DEF Fillings
  <2> HIDE DEF filled
  <2>5. DOMAIN filled = 1 .. Len(filled)
    BY <2>4
  <2> QED
    BY <2>2, <2>3, <2>5 DEF Msgs, q
<1> HIDE DEF t, l
<1>6. /\ c \in [0 .. l -> 0 .. Len(t)] /\ c[0] = 0 /\ c[l] = Len(t)
      /\ \A i \in 1 .. l : IF s[i] \in S THEN c[i] = c[i - 1]
                           ELSE c[i] = c[i - 1] + 1 /\ t[c[i]] = s[i]
  BY DEF Counts, l
<1>7. /\ f \in [0 .. Len(t) -> F] /\ f[0] = First(r)
      /\ \A i \in 1 .. Len(t) : f[i] = FillOne(r, f[i - 1], t[i])
  BY DEF Filling
<1>8. ASSUME NEW k \in 1 .. Len(t), Placed(r, t, k - 1, f[k - 1])
      PROVE  Placed(r, t, k, f[k]) /\ Adds(Msgs(f[k - 1].objs), t[k], n, Msgs(f[k].objs))
  <2> DEFINE e == f[k - 1]
  <2>1. k - 1 \in 0 .. Len(t)
    BY <1>1
  <2>2. e \in F /\ f[k] = FillOne(r, e, t[k]) /\ Placed(r, t, k - 1, e)
    BY <1>7, <1>8, <2>1
  <2>3. Range(t) \cap Messages(r) = {}
    BY <1>1
  <2> HIDE DEF e
  <2>4. /\ Placed(r, t, k, FillOne(r, e, t[k]))
        /\ Adds(Msgs(e.objs), t[k], r.limit, Msgs(FillOne(r, e, t[k]).objs))
    BY <1>1, <1>2, <2>2, <2>3, FillOneAdds
  <2> QED
    BY <2>2, <2>4 DEF e
<1>9. \A k \in 0 .. Len(t) : Placed(r, t, k, f[k])
  <2> DEFINE T == {k \in 0 .. Len(t) : Placed(r, t, k, f[k])}
  <2>1. 0 \in T
    <3>1. Placed(r, t, 0, First(r))
      BY FirstPlaced
    <3>2. Placed(r, t, 0, f[0]) /\ 0 \in 0 .. Len(t)
      BY <1>1, <1>7, <3>1
    <3> QED
      BY <3>2
  <2>2. \A k \in 1 .. Len(t) : k - 1 \in T => k \in T
    BY <1>8
  <2> HIDE DEF T
  <2>3. 0 .. Len(t) \subseteq T
    BY <1>1, <2>1, <2>2, UpTo
  <2> QED
    BY <2>3 DEF T
<1> DEFINE h == [i \in 0 .. l |-> Msgs(f[c[i]].objs)]
<1>10. h \in [0 .. l -> Seq(Nat)]
  <2>1. \A k \in 0 .. Len(t) : Msgs(f[k].objs) \in Seq(Nat)
    <3>1. TAKE k \in 0 .. Len(t)
    <3>2. f[k].objs \in Seq(Objects(M))
      BY <1>7 DEF Fillings
    <3> QED
      BY <3>2, MsgsFacts
  <2> QED
    BY <1>6, <2>1
<1>11. h[0] = r.msgs /\ h[l] = FillIn(r, s).msgs
  <2>1. h[0] = Msgs(f[0].objs)
    BY <1>1, <1>6
  <2>2. h[l] = Msgs(f[Len(t)].objs)
    BY <1>1, <1>6
  <2>3. h[0] = r.msgs
    BY <1>7, <2>1, FirstPlaced
  <2> QED
    BY <1>5, <2>2, <2>3
<1>12. ASSUME NEW i \in 1 .. l
       PROVE  Adds(h[i - 1], s[i], n, h[i])
  <2>1. /\ i \in 0 .. l /\ i - 1 \in 0 .. l
        /\ h[i] = Msgs(f[c[i]].objs) /\ h[i - 1] = Msgs(f[c[i - 1]].objs)
        /\ c[i] \in 0 .. Len(t) /\ c[i - 1] \in 0 .. Len(t)
    BY <1>1, <1>6
  <2>2. s[i] \in M /\ s[i] \in Nat /\ s[i] \in Range(s) /\ DOMAIN s = 1 .. l
    <3>1. s[i] \in M /\ DOMAIN s = 1 .. l
      BY DEF l
    <3> QED
      BY <3>1 DEF Range
  <2> HIDE DEF h
  <2>3. CASE s[i] \notin S
    <3>1. c[i] = c[i - 1] + 1 /\ t[c[i]] = s[i]
      BY <1>6, <2>3
    <3> DEFINE k == c[i]
    <3>2. k \in 1 .. Len(t) /\ k - 1 = c[i - 1] /\ k - 1 \in 0 .. Len(t)
      BY <1>1, <2>1, <3>1
    <3> HIDE DEF k
    <3>3. Adds(Msgs(f[k - 1].objs), t[k], n, Msgs(f[k].objs))
      BY <1>8, <1>9, <3>2
    <3> QED
      BY <2>1, <3>1, <3>2, <3>3 DEF k
  <2>4. CASE s[i] \in S
    <3>1. c[i] = c[i - 1]
      BY <1>6, <2>4
    <3> DEFINE k == c[i - 1]
               g == f[k]
               m == s[i]
    <3>2. k \in 0 .. Len(t)
      BY <2>1
    <3>3. PICK a \in DOMAIN r.msgs : m = r.msgs[a]
      BY <2>4 DEF Messages, Range
    <3>4. \A j \in 1 .. k : t[j] < r.msgs[a]
      <4>1. TAKE j \in 1 .. k
      <4>2. PICK b \in 1 .. i - 1 : t[j] = s[b]
        <5>1. t \in Seq(M)
          BY <1>1
        <5>2. \A x \in 0 .. Len(s) : \A e \in 1 .. c[x] : \E y \in 1 .. x : t[e] = s[y]
          BY <1>3, <5>1, CountsEarlier
        <5> QED
          BY <2>1, <5>2 DEF l
      <4>3. b \in DOMAIN s /\ i \in DOMAIN s /\ b < i
        BY <1>1, <2>2
      <4> QED
        BY <3>3, <4>2, <4>3 DEF Ascends
    <3> HIDE DEF k, m, g
    <3>5. Placed(r, t, k, g)
      BY <1>9, <3>2 DEF g
    <3>6. Snapshot(r)[a] \in Range(g.objs)
      BY <3>4, <3>5 DEF Placed
    <3>7. Snapshot(r)[a].msg = m
      BY <3>3, SnapshotFacts
    <3>8. m \in Range(Msgs(g.objs))
      <4>1. g.objs \in Seq(Objects(M))
        BY <1>7, <3>2 DEF Fillings, g
      <4>2. Range(Msgs(g.objs)) = {x.msg : x \in Range(g.objs)}
        BY <4>1, MsgsFacts
      <4> QED
        BY <3>6, <3>7, <4>2
    <3>9. h[i] = h[i - 1] /\ h[i - 1] = Msgs(g.objs)
      BY <2>1, <3>1 DEF g, k
    <3> QED
      BY <3>8, <3>9 DEF Adds, m
  <2> QED
    BY <2>3, <2>4
<1> HIDE DEF h
<1> QED
  BY <1>10, <1>11, <1>12 DEF Fillable, l

\* Filling in is that, also of the messages that a view includes.
LEMMA FillInFillable ==
  ASSUME NEW M, M \subseteq Nat, NEW r, RingOk(r, M), NEW s \in Seq(M), Ascends(s), NEW H
  PROVE  Fillable(r.msgs, s, H, r.limit, FillIn(r, Without(s, H)).msgs) # {}
<1> DEFINE t == Without(s, H)
           n == r.limit
<1>1. t \in Seq(M)
  BY WithoutMembers
<1>2. s \in Seq(Nat)
  BY SeqMonotonic
<1>3. Ascends(t)
  BY <1>2, WithoutAscends
<1>4. Fillable(r.msgs, t, {}, n, FillIn(r, t).msgs) # {}
  <2> HIDE DEF t
  <2>1. CASE r.msgs # <<>>
    BY <1>1, <1>3, <2>1, LackedFillable
  <2>2. CASE r.msgs = <<>>
    <3>1. FillIn(r, t).msgs = Fitting(r, t) \o <<>> /\ Fitting(r, t) \in Seq(M)
      BY <1>1, <2>2, PushFrontFacts DEF FillIn
    <3>2. n \in Nat \ {0} /\ n - 0 = n
      BY LimitAssumption DEF RingOk, Ring
    <3>3. Fitting(r, t) = Newest(t, n)
      BY <2>2, <3>2 DEF Fitting
    <3>4. FillIn(r, t).msgs = Newest(t, n)
      BY <3>1, <3>3
    <3>5. t \in Seq(Nat)
      BY <1>1, SeqMonotonic
    <3> HIDE DEF n
    <3>6. Fillable(<<>>, t, {}, n, Newest(t, n)) # {}
      BY <1>3, <3>2, <3>5, NewestFillable
    <3> QED
      BY <2>2, <3>4, <3>6
  <2> QED
    BY <2>1, <2>2
<1> HIDE DEF n
<1>5. Fillable(r.msgs, s, H, n, FillIn(r, t).msgs) # {}
  BY <1>2, <1>4, FillableSpread
<1> QED
  BY <1>5 DEF n

\* One message does not make it longer than there is room.
LEMMA AddsLength ==
  ASSUME NEW q \in Seq(Nat), NEW v \in Seq(Nat), NEW m, NEW n \in Nat, Len(q) <= n,
         Adds(q, m, n, v)
  PROVE  Len(v) <= n
<1>1. CASE m \in Range(q)
  BY <1>1 DEF Adds
<1>2. CASE m \notin Range(q)
  <2>1. PICK k \in Nat, d \in 0 .. 1 : AddedAt(q, m, n, k, d, v)
    BY <1>2 DEF Adds
  <2>2. d = (IF Len(q) < n THEN 0 ELSE 1) /\ Len(v) = Len(q) + 1 - d /\ Len(q) \in Nat
    BY <2>1 DEF AddedAt
  <2> QED
    BY <2>2
<1> QED
  BY <1>1, <1>2

\* A channel that is filled in, and its copy.
Served(p, q, l, n, H) ==
  /\ Ascends(p) /\ Len(p) <= l /\ (l > DefaultLimit => Len(p) = l)
  /\ Len(q) <= n
  /\ Serves(p, q, n, H)

\* One message is added to a channel and to its copy.
LEMMA AddServed ==
  ASSUME NEW p \in Seq(Nat), NEW q \in Seq(Nat), NEW u \in Seq(Nat), NEW v \in Seq(Nat), NEW H,
         NEW m \in Nat, NEW l \in Nat, NEW n \in Nat, DefaultLimit <= l, DefaultLimit <= n,
         Adds(p, m, l, u), IF m \in H THEN v = q ELSE Adds(q, m, n, v),
         Served(p, q, l, n, H)
  PROVE  Served(u, v, l, n, H)
<1>1. /\ Ascends(p) /\ Len(p) <= l /\ (l > DefaultLimit => Len(p) = l)
      /\ Len(q) <= n /\ Serves(p, q, n, H)
  BY DEF Served
<1>2. Serves(u, v, n, H)
  BY <1>1, AddServes
<1>3. Len(v) <= n
  BY <1>1, AddsLength
<1>4. Ascends(u) /\ Len(u) <= l /\ (l > DefaultLimit => Len(u) = l)
  <2>1. CASE m \in Range(p)
    <3>1. u = p
      BY <2>1 DEF Adds
    <3> QED
      BY <1>1, <3>1
  <2>2. CASE m \notin Range(p)
    <3>1. Gained(p, m, l, u)
      BY <1>1, <2>2, Gains
    <3>2. Ascends(u) /\ Len(p) <= Len(u) /\ Len(u) <= l
      BY <3>1 DEF Gained
    <3>3. Len(u) \in Nat /\ Len(p) \in Nat
      OBVIOUS
    <3> QED
      BY <1>1, <3>2, <3>3
  <2> QED
    BY <2>1, <2>2
<1> QED
  BY <1>1, <1>2, <1>3, <1>4 DEF Served

\* What a copy has is enough also when both have been filled in.
LEMMA FillServes ==
  ASSUME NEW p \in Seq(Nat), NEW q \in Seq(Nat), NEW u \in Seq(Nat), NEW v \in Seq(Nat), NEW H,
         NEW s \in Seq(Nat), NEW l \in Nat, NEW n \in Nat, DefaultLimit <= l, DefaultLimit <= n,
         Fillable(p, s, {}, l, u) # {}, Fillable(q, s, H, n, v) # {},
         Served(p, q, l, n, H)
  PROVE  Served(u, v, l, n, H)
<1> DEFINE c == Len(s)
<1>1. c \in Nat /\ \A i \in 1 .. c : s[i] \in Nat
  OBVIOUS
<1>2. PICK f \in Fillable(p, s, {}, l, u) : TRUE
  OBVIOUS
<1>3. PICK g \in Fillable(q, s, H, n, v) : TRUE
  OBVIOUS
<1>4. /\ f \in [0 .. c -> Seq(Nat)] /\ f[0] = p /\ f[c] = u
      /\ \A i \in 1 .. c : Adds(f[i - 1], s[i], l, f[i])
  BY DEF Fillable
<1>5. /\ g \in [0 .. c -> Seq(Nat)] /\ g[0] = q /\ g[c] = v
      /\ \A i \in 1 .. c : IF s[i] \in H THEN g[i] = g[i - 1] ELSE Adds(g[i - 1], s[i], n, g[i])
  BY DEF Fillable
<1> HIDE DEF c
<1> DEFINE T == {i \in 0 .. c : Served(f[i], g[i], l, n, H)}
<1>6. 0 \in T
  BY <1>1, <1>4, <1>5
<1>7. ASSUME NEW i \in 1 .. c, i - 1 \in T
      PROVE  i \in T
  <2> DEFINE a == f[i - 1]
             b == f[i]
             d == g[i - 1]
             e == g[i]
             m == s[i]
  <2>1. /\ i \in 0 .. c /\ i - 1 \in 0 .. c
        /\ a \in Seq(Nat) /\ b \in Seq(Nat) /\ d \in Seq(Nat) /\ e \in Seq(Nat) /\ m \in Nat
    BY <1>1, <1>4, <1>5
  <2>2. Served(a, d, l, n, H)
    BY <1>7
  <2>3. Adds(a, m, l, b) /\ IF m \in H THEN e = d ELSE Adds(d, m, n, e)
    BY <1>4, <1>5
  <2> HIDE DEF a, b, d, e, m, T
  <2>4. Served(b, e, l, n, H)
    BY <2>1, <2>2, <2>3, AddServed
  <2> QED
    BY <2>1, <2>4 DEF T, b, e
<1>8. c \in 0 .. c /\ 0 .. c \subseteq T
  <2>1. c \in 0 .. c
    BY <1>1
  <2> HIDE DEF T
  <2>2. 0 .. c \subseteq T
    BY <1>1, <1>6, <1>7, UpTo
  <2> QED
    BY <2>1, <2>2
<1> QED
  BY <1>4, <1>5, <1>8

-----------------------------------------------------------------------------
(* How many messages there are *)

\* The messages of q from the place i on are among those of p behind the place a.
LEMMA NoMore ==
  ASSUME NEW p \in Seq(Nat), Ascends(p), NEW q \in Seq(Nat), NEW a \in 0 .. Len(p),
         NEW i \in 1 .. Len(q) + 1,
         \A x, y \in i .. Len(q) : x < y => q[x] < q[y],
         \A x \in i .. Len(q) : \E b \in a + 1 .. Len(p) : q[x] = p[b]
  PROVE  Len(q) - i + 1 <= Len(p) - a
<1>1. /\ Len(p) \in Nat /\ Len(q) \in Nat /\ a \in Nat /\ i \in Nat
      /\ \A b \in 1 .. Len(p) : p[b] \in Nat
  BY InRange
<1>2. CASE i = Len(q) + 1
  BY <1>1, <1>2
<1>3. CASE i # Len(q) + 1
  <2> DEFINE n == Len(q) - i
             T == {k \in 0 .. n : \E b \in a + k + 1 .. Len(p) : q[i + k] = p[b]}
  <2>1. n \in Nat
    BY <1>1, <1>3
  <2>2. 0 \in T
    <3>1. i \in i .. Len(q) /\ i + 0 = i /\ a + 0 + 1 = a + 1
      BY <1>1, <1>3
    <3> QED
      BY <2>1, <3>1
  <2>3. ASSUME NEW k \in 1 .. n, k - 1 \in T
        PROVE  k \in T
    <3> DEFINE x == i + (k - 1)
               y == i + k
    <3>1. x \in i .. Len(q) /\ y \in i .. Len(q) /\ x < y /\ k \in 0 .. n
      BY <1>1, <2>1
    <3>2. PICK b \in a + (k - 1) + 1 .. Len(p) : q[x] = p[b]
      BY <2>3
    <3>3. PICK c \in a + 1 .. Len(p) : q[y] = p[c]
      BY <3>1
    <3>4. q[x] < q[y]
      BY <3>1
    <3> HIDE DEF x, y, n
    <3>5. b \in 1 .. Len(p) /\ c \in 1 .. Len(p) /\ k \in Nat
      BY <1>1, <2>1
    <3>6. b < c
      <4>1. ASSUME c <= b
            PROVE  FALSE
        <5>1. p[c] <= p[b]
          BY <3>5, <4>1, NotLess
        <5> QED
          BY <1>1, <3>2, <3>3, <3>4, <3>5, <5>1
      <4> QED
        BY <3>5, <4>1
    <3>7. c \in a + k + 1 .. Len(p)
      BY <1>1, <3>2, <3>5, <3>6
    <3> QED
      BY <3>1, <3>3, <3>7 DEF y
  <2>4. n \in T
    <3> HIDE DEF T, n
    <3>1. 0 .. n \subseteq T
      BY <2>1, <2>2, <2>3, UpTo
    <3>2. n \in 0 .. n
      BY <2>1
    <3> QED
      BY <3>1, <3>2
  <2> QED
    BY <1>1, <2>1, <2>4
<1> QED
  BY <1>2, <1>3

\* A message that is newer than all others is put behind them.
LEMMA NewestAppended ==
  ASSUME NEW q \in Seq(Nat), NEW m \in Nat, \A x \in Range(q) : x < m,
         NEW n \in Nat \ {0}, Len(q) <= n
  PROVE  /\ Newest(Append(q, m), n) \in Seq(Nat)
         /\ Adds(q, m, n, Newest(Append(q, m), n))
<1> DEFINE a == Append(q, m)
           v == Newest(a, n)
           l == Len(q)
           k == l + 1
           d == IF l < n THEN 0 ELSE 1
<1>1. /\ l \in Nat /\ a \in Seq(Nat) /\ Len(a) = l + 1
      /\ \A i \in 1 .. l : a[i] = q[i] /\ q[i] \in Nat
      /\ a[l + 1] = m
      /\ \A i \in 1 .. l : q[i] < m
  BY InRange
<1>2. m \notin Range(q)
  BY <1>1
<1> HIDE DEF a
<1>3. /\ v \in Seq(Nat) /\ Len(v) = (IF Len(a) <= n THEN Len(a) ELSE n)
      /\ \A i \in 1 .. Len(v) : v[i] = a[Len(a) - Len(v) + i]
  <2>1. a \in Seq(Nat) /\ n \in Nat
    BY <1>1
  <2> QED
    BY ONLY <2>1, NewestFacts
<1> HIDE DEF v
<1>4. /\ k \in Nat /\ d \in 0 .. 1 /\ Len(v) = l + 1 - d /\ k = l + 1
      /\ d = IF l < n THEN 0 ELSE 1
  <2>1. k \in Nat /\ k = l + 1 /\ d \in 0 .. 1 /\ d = IF l < n THEN 0 ELSE 1
    BY <1>1
  <2> HIDE DEF l
  <2>2. Len(v) = l + 1 - d
    <3>1. CASE l < n
      <4>1. l + 1 <= n
        BY <1>1, <3>1
      <4> QED
        BY <1>1, <1>3, <3>1, <4>1
    <3>2. CASE ~(l < n)
      <4>1. l = n
        BY <1>1, <3>2 DEF l
      <4> QED
        BY <1>1, <1>3, <3>2, <4>1
    <3> QED
      BY <3>1, <3>2
  <2> QED
    BY <2>1, <2>2
<1> HIDE DEF k, d
<1>5. \A i \in 1 .. Len(v) : v[i] = Inserted(q, k, m)[i + d]
  <2>1. TAKE i \in 1 .. Len(v)
  <2> DEFINE x == i + d
  <2>2. x \in 1 .. l + 1 /\ Len(a) - Len(v) + i = x /\ x \in Nat
    BY <1>1, <1>4
  <2> HIDE DEF x
  <2>3. v[i] = a[x]
    BY <1>3, <2>2
  <2>4. Inserted(q, k, m)[x] = IF x < k THEN q[x] ELSE IF x = k THEN m ELSE q[x - 1]
    BY <2>2 DEF Inserted
  <2>5. CASE x < k
    <3>1. x \in 1 .. l
      BY <1>1, <1>4, <2>2, <2>5
    <3>2. v[i] = Inserted(q, k, m)[x]
      BY <1>1, <2>3, <2>4, <2>5, <3>1
    <3> QED
      BY <3>2 DEF x
  <2>6. CASE ~(x < k)
    <3>1. x = k
      BY <1>1, <1>4, <2>2, <2>6
    <3>2. a[x] = m
      BY <1>1, <1>4, <3>1
    <3>3. Inserted(q, k, m)[x] = m
      BY <2>4, <2>6, <3>1
    <3> QED
      BY <2>3, <3>2, <3>3 DEF x
  <2> QED
    BY <2>5, <2>6
<1>6. AddedAt(q, m, n, k, d, v)
  BY <1>1, <1>4, <1>5 DEF AddedAt
<1>7. Adds(q, m, n, v)
  BY <1>2, <1>4, <1>6 DEF Adds
<1> QED
  BY <1>3, <1>7 DEF v, a

\* A new view has what it includes, or the newest of it.
LEMMA OpenServes ==
  ASSUME NEW p \in Seq(Nat), Ascends(p), NEW H
  PROVE  Serves(p, Newest(Without(p, H), DefaultLimit), DefaultLimit, H)
<1> DEFINE t == Without(p, H)
           D == DefaultLimit
           q == Newest(t, D)
<1>1. D \in Nat \ {0} /\ D \in Nat
  BY LimitAssumption
<1>2. t \in Seq(Nat) /\ Range(t) = Range(p) \ H
  BY WithoutMembers
<1>3. Ascends(t)
  BY WithoutAscends
<1> HIDE DEF t
<1>4. /\ q \in Seq(Nat) /\ Len(q) = (IF Len(t) <= D THEN Len(t) ELSE D)
      /\ Ascends(q)
      /\ \A x \in Range(q), y \in Range(t) : x <= y => y \in Range(q)
      /\ Range(q) \subseteq Range(t)
      /\ Len(t) <= D => q = t
  BY <1>1, <1>2, <1>3, NewestFacts, NewestAscends, NewestMembers
<1> HIDE DEF q, D
<1>5. Len(q) \in Nat /\ DOMAIN q = 1 .. Len(q)
      /\ \A i \in 1 .. Len(q) : q[i] \in Nat /\ q[i] \in Range(q)
  BY <1>4, InRange
<1>6. \A g \in Nat : Rising(q, g)
  BY <1>4 DEF Rising, Ascends
<1>7. CASE Len(t) <= D
  <2>1. Range(q) = Range(p) \ H
    BY <1>2, <1>4, <1>7
  <2>2. 0 \in Nat /\ Same(p, q, H, 0)
    BY <1>6, <2>1 DEF Same
  <2>3. \A i \in 1 .. Len(p) : ~(p[i] < 0)
    BY InRange
  <2>4. Whole(p, q, D, H, 0)
    BY <2>1, <2>3 DEF Whole
  <2> QED
    BY <2>2, <2>4 DEF Serves, q, t, D
<1>8. CASE ~(Len(t) <= D)
  <2> DEFINE g == q[1]
  <2>1. Len(q) = D /\ 1 \in 1 .. Len(q) /\ g \in Nat /\ g \in Range(q) /\ Len(q) - D + 1 = 1
    BY <1>1, <1>4, <1>5, <1>8
  <2>2. Same(p, q, H, g)
    <3>1. \A x \in Nat : g <= x => (x \in Range(q) <=> x \in Range(t))
      BY <1>4, <2>1
    <3> QED
      BY <1>2, <1>6, <2>1, <3>1 DEF Same
  <2>3. Many(q, g)
    <3>1. Len(q) >= D /\ g <= q[Len(q) - D + 1]
      BY <2>1
    <3> QED
      BY <3>1 DEF Many, D
  <2> QED
    BY <2>1, <2>2, <2>3 DEF Serves, q, t, D
<1> QED
  BY <1>7, <1>8

\* What is enough for the newest messages to be shown.
LEMMA ServesShows ==
  ASSUME NEW p \in Seq(Nat), NEW q \in Seq(Nat), NEW n, NEW H, Ascends(p), Serves(p, q, n, H)
  PROVE  Range(Newest(Without(p, H), DefaultLimit)) \subseteq Range(q)
<1> DEFINE t == Without(p, H)
           D == DefaultLimit
           r == Newest(t, D)
<1>1. D \in Nat \ {0} /\ D \in Nat
  BY LimitAssumption
<1>2. t \in Seq(Nat) /\ Range(t) = Range(p) \ H
  BY WithoutMembers
<1>3. Ascends(t)
  BY WithoutAscends
<1> HIDE DEF t
<1>4. /\ r \in Seq(Nat) /\ Len(r) = (IF Len(t) <= D THEN Len(t) ELSE D)
      /\ \A i \in 1 .. Len(r) : r[i] = t[Len(t) - Len(r) + i]
      /\ Range(r) \subseteq Range(t)
  BY <1>1, <1>2, NewestFacts, NewestMembers
<1> HIDE DEF r, D
<1>5. PICK g \in Nat : Same(p, q, H, g) /\ (Many(q, g) \/ Whole(p, q, n, H, g))
  BY DEF Serves
<1>6. CASE Whole(p, q, n, H, g)
  BY <1>2, <1>4, <1>6 DEF Whole, r, t, D
<1>7. CASE Many(q, g)
  <2>1. SUFFICES ASSUME NEW x \in Range(r), x \notin Range(q)
                 PROVE  FALSE
    BY DEF r, t, D
  <2>2. /\ Len(q) \in Nat /\ Len(t) \in Nat /\ Len(r) \in Nat
        /\ \A i \in 1 .. Len(q) : q[i] \in Nat /\ q[i] \in Range(q)
        /\ \A i \in 1 .. Len(t) : t[i] \in Nat
        /\ DOMAIN q = 1 .. Len(q) /\ DOMAIN t = 1 .. Len(t)
        /\ \A y \in Range(t) : y \in Nat /\ \E i \in 1 .. Len(t) : y = t[i]
        /\ \A y \in Range(r) : \E i \in 1 .. Len(r) : y = r[i]
    BY <1>2, <1>4, InRange
  <2> DEFINE i == Len(q) - D + 1
  <2>3. i \in 1 .. Len(q) /\ i \in Nat /\ g <= q[i]
    BY <1>1, <1>7, <2>2 DEF Many, D
  <2>4. x \in Nat /\ x < g
    <3>1. x \in Nat /\ x \in Range(p) \ H
      BY <1>2, <1>4, <2>2
    <3>2. ~(g <= x)
      BY <1>5, <2>1, <3>1 DEF Same
    <3> QED
      BY <3>1, <3>2
  <2>5. PICK b \in 1 .. Len(t) : x = t[b] /\ b + D > Len(t)
    <3>1. PICK j \in 1 .. Len(r) : x = r[j]
      BY <2>2
    <3> DEFINE b == Len(t) - Len(r) + j
    <3>2. x = t[b]
      BY <1>4, <3>1
    <3>3. Len(r) <= Len(t) /\ Len(r) <= D
      BY <1>1, <1>4, <2>2
    <3>4. b \in 1 .. Len(t) /\ b + D > Len(t)
      BY <1>1, <2>2, <3>1, <3>3
    <3> QED
      BY <3>2, <3>4
  <2> HIDE DEF i
  <2>6. \A y \in i .. Len(q) : y \in 1 .. Len(q) /\ g <= q[y]
    <3>1. TAKE y \in i .. Len(q)
    <3>2. y \in 1 .. Len(q) /\ i <= y
      BY <2>3
    <3>3. g <= q[y]
      BY <1>5, <2>3, <3>2, LaterIsGreater DEF Same
    <3> QED
      BY <3>2, <3>3
  <2>7. \A y, z \in i .. Len(q) : y < z => q[y] < q[z]
    BY <1>5, <2>2, <2>6 DEF Same, Rising
  <2>8. \A y \in i .. Len(q) : \E c \in b + 1 .. Len(t) : q[y] = t[c]
    <3>1. TAKE y \in i .. Len(q)
    <3>2. y \in 1 .. Len(q) /\ g <= q[y] /\ q[y] \in Nat /\ q[y] \in Range(q)
      BY <2>2, <2>6
    <3>3. q[y] \in Range(t)
      BY <1>2, <1>5, <3>2 DEF Same
    <3>4. PICK c \in 1 .. Len(t) : q[y] = t[c]
      BY <2>2, <3>3
    <3>5. b < c
      <4>1. ASSUME c <= b
            PROVE  FALSE
        <5>1. t[c] <= t[b]
          BY <1>2, <1>3, <4>1, NotLess
        <5>2. t[c] \in Nat /\ t[b] \in Nat
          BY <2>2
        <5> QED
          BY <2>4, <2>5, <3>2, <3>4, <5>1, <5>2
      <4> QED
        BY <4>1
    <3>6. c \in b + 1 .. Len(t)
      BY <3>5
    <3> QED
      BY <3>4, <3>6
  <2>9. b \in 0 .. Len(t) /\ i \in 1 .. Len(q) + 1
    BY <2>2, <2>3
  <2>10. Len(q) - i + 1 <= Len(t) - b
    BY <1>2, <1>3, <2>7, <2>8, <2>9, NoMore
  <2>11. Len(q) - i + 1 = D
    BY <1>1, <2>2 DEF i
  <2> QED
    BY <1>1, <2>2, <2>5, <2>10, <2>11
<1> QED
  BY <1>5, <1>6, <1>7

\* The limit of the channel is reset, and that of the copy if it was raised.
LEMMA ResetServes ==
  ASSUME NEW p \in Seq(Nat), NEW q \in Seq(Nat), NEW n, NEW H, Ascends(p),
         Len(p) >= DefaultLimit, Serves(p, q, n, H)
  PROVE  Serves(Newest(p, DefaultLimit), Newest(q, DefaultLimit), DefaultLimit, H)
<1> DEFINE D == DefaultLimit
           u == Newest(p, D)
           v == Newest(q, D)
           c == Len(p) - D
           h == p[c + 1]
<1>1. D \in Nat \ {0} /\ D \in Nat
  BY LimitAssumption
<1>2. /\ Len(p) \in Nat /\ DOMAIN p = 1 .. Len(p)
      /\ \A i \in 1 .. Len(p) : p[i] \in Nat
      /\ \A x \in Range(p) : x \in Nat /\ \E i \in 1 .. Len(p) : x = p[i]
  BY InRange
<1>3. /\ Len(q) \in Nat /\ DOMAIN q = 1 .. Len(q)
      /\ \A i \in 1 .. Len(q) : q[i] \in Nat /\ q[i] \in Range(q)
      /\ \A x \in Range(q) : x \in Nat /\ \E i \in 1 .. Len(q) : x = q[i]
  BY InRange
<1>4. c \in 0 .. Len(p) /\ c + 1 \in 1 .. Len(p) /\ h \in Nat /\ Len(p) - c = D /\ c \in Nat
      /\ c + 1 \in 0 .. Len(p) /\ Len(p) >= D
  <2>1. c \in 0 .. Len(p) /\ c + 1 \in 1 .. Len(p) /\ Len(p) - c = D /\ c \in Nat
        /\ c + 1 \in 0 .. Len(p)
    BY <1>1, <1>2
  <2> HIDE DEF c
  <2> QED
    BY <1>2, <2>1
<1> HIDE DEF c, D
<1>5. /\ u \in Seq(Nat) /\ Len(u) = D
      /\ u[1] = h
      /\ Ascends(u)
      /\ Range(u) \subseteq Range(p)
      /\ \A x \in Range(u), y \in Range(p) : x <= y => y \in Range(u)
  <2>1. /\ u \in Seq(Nat) /\ Len(u) = (IF Len(p) <= D THEN Len(p) ELSE D)
        /\ \A i \in 1 .. Len(u) : u[i] = p[Len(p) - Len(u) + i]
    BY <1>1, NewestFacts
  <2>2. /\ Ascends(u)
        /\ \A x \in Range(u), y \in Range(p) : x <= y => y \in Range(u)
    BY <1>1, NewestAscends
  <2>3. Range(u) \subseteq Range(p)
    BY <1>1, NewestMembers
  <2> HIDE DEF u
  <2>4. Len(u) = D
    <3>1. Len(p) >= D /\ Len(p) \in Nat /\ D \in Nat
      BY <1>1, <1>2, <1>4
    <3>2. Len(u) = IF Len(p) <= D THEN Len(p) ELSE D
      BY <2>1
    <3> QED
      BY ONLY <3>1, <3>2
  <2>5. 1 \in 1 .. Len(u) /\ Len(p) - Len(u) + 1 = c + 1
    BY <1>1, <2>4 DEF c
  <2>6. u[1] = h
    BY <2>1, <2>5
  <2> QED
    BY <2>1, <2>2, <2>3, <2>4, <2>6
<1>6. /\ v \in Seq(Nat) /\ Len(v) = (IF Len(q) <= D THEN Len(q) ELSE D)
      /\ \A i \in 1 .. Len(v) : v[i] = q[Len(q) - Len(v) + i]
      /\ Range(v) \subseteq Range(q)
  BY <1>1, NewestFacts, NewestMembers
<1> HIDE DEF u, v
<1>7. PICK g \in Nat : Same(p, q, H, g) /\ (Many(q, g) \/ Whole(p, q, n, H, g))
  BY DEF Serves
\* What is in p and newer than p[a] is behind it.
<1>8. ASSUME NEW a \in 0 .. Len(p), NEW x \in Range(p), a = 0 \/ p[a] < x
      PROVE  \E b \in a + 1 .. Len(p) : x = p[b]
  <2>1. PICK b \in 1 .. Len(p) : x = p[b]
    BY <1>2
  <2>2. a < b
    <3>1. ASSUME b <= a
          PROVE  FALSE
      <4>1. a \in 1 .. Len(p)
        BY <1>2, <3>1
      <4>2. p[b] <= p[a] /\ p[b] \in Nat /\ p[a] \in Nat
        BY <1>2, <3>1, <4>1, NotLess
      <4>3. p[a] < p[b]
        BY <1>8, <2>1, <3>1
      <4> QED
        BY <4>2, <4>3
    <3> QED
      BY <1>2, <3>1
  <2>3. b \in a + 1 .. Len(p)
    BY <1>2, <2>2
  <2> QED
    BY <2>1, <2>3
<1>9. g <= h
  <2>1. CASE Whole(p, q, n, H, g)
    <3>1. g = 0 \/ g <= p[Len(p) - D + 1]
      BY <2>1 DEF Whole, D
    <3> QED
      BY <1>4, <3>1 DEF c
  <2>2. CASE Many(q, g)
    <3>1. SUFFICES ASSUME h < g
                   PROVE  FALSE
      BY <1>4
    <3> DEFINE i == Len(q) - D + 1
    <3>2. i \in 1 .. Len(q) /\ i \in Nat /\ g <= q[i] /\ Len(q) - i + 1 = D /\ i \in 1 .. Len(q) + 1
      BY <1>1, <1>3, <2>2 DEF Many, D
    <3> HIDE DEF i
    <3>3. \A y \in i .. Len(q) : y \in 1 .. Len(q) /\ g <= q[y]
      <4>1. TAKE y \in i .. Len(q)
      <4>2. y \in 1 .. Len(q) /\ i <= y
        BY <3>2
      <4>3. g <= q[y]
        BY <1>7, <3>2, <4>2, LaterIsGreater DEF Same
      <4> QED
        BY <4>2, <4>3
    <3>4. \A y, z \in i .. Len(q) : y < z => q[y] < q[z]
      BY <1>3, <1>7, <3>3 DEF Same, Rising
    <3>5. \A y \in i .. Len(q) : \E b \in (c + 1) + 1 .. Len(p) : q[y] = p[b]
      <4>1. TAKE y \in i .. Len(q)
      <4>2. q[y] \in Range(q) /\ q[y] \in Nat /\ g <= q[y]
        BY <1>3, <3>3
      <4>3. q[y] \in Range(p)
        BY <1>7, <4>2 DEF Same
      <4>4. p[c + 1] < q[y]
        <5>1. h \in Nat /\ g \in Nat /\ h < g /\ g <= q[y] /\ q[y] \in Nat
          BY <1>4, <3>1, <4>2
        <5>2. h < q[y]
          BY ONLY <5>1
        <5> QED
          BY <5>2 DEF h
      <4> QED
        BY <1>4, <1>8, <4>3, <4>4
    <3>6. Len(q) - i + 1 <= Len(p) - (c + 1)
      <4> DEFINE a == c + 1
      <4>1. a \in 0 .. Len(p)
        BY <1>4
      <4>2. \A y \in i .. Len(q) : \E b \in a + 1 .. Len(p) : q[y] = p[b]
        BY <3>5
      <4> HIDE DEF a
      <4>3. Len(q) - i + 1 <= Len(p) - a
        BY <3>2, <3>4, <4>1, <4>2, NoMore
      <4> QED
        BY <4>3 DEF a
    <3> QED
      BY <1>1, <1>2, <1>4, <3>2, <3>6
  <2> QED
    BY <1>7, <2>1, <2>2
<1> HIDE DEF h
<1>10. /\ \A x \in Nat : h <= x => (x \in Range(q) <=> x \in Range(p) \ H)
       /\ Rising(q, h)
  <2>1. h \in Nat
    BY <1>4
  <2>2. \A x \in Nat : h <= x => g <= x
    BY <1>9, <2>1
  <2> QED
    BY <1>3, <1>7, <2>2 DEF Same, Rising
<1>11. \A x \in Nat : h <= x => (x \in Range(v) <=> x \in Range(q))
  <2>1. SUFFICES ASSUME NEW x \in Nat, h <= x, x \in Range(q)
                 PROVE  x \in Range(v)
    BY <1>6
  <2>2. PICK i \in 1 .. Len(q) : x = q[i]
    BY <1>3, <2>1
  <2>3. h \in Nat /\ i \in 1 .. Len(q) + 1 /\ i \in Nat
    BY <1>3, <1>4
  <2>4. \A y \in i .. Len(q) : y \in 1 .. Len(q) /\ h <= q[y]
    <3>1. TAKE y \in i .. Len(q)
    <3>2. y \in 1 .. Len(q) /\ i <= y
      BY <2>3
    <3>3. h <= q[y]
      BY <1>10, <2>1, <2>2, <2>3, <3>2, LaterIsGreater
    <3> QED
      BY <3>2, <3>3
  <2>5. \A y, z \in i .. Len(q) : y < z => q[y] < q[z]
    BY <1>3, <1>10, <2>4 DEF Rising
  <2>6. \A y \in i .. Len(q) : \E b \in c + 1 .. Len(p) : q[y] = p[b]
    <3>1. TAKE y \in i .. Len(q)
    <3>2. q[y] \in Range(p) /\ h <= q[y] /\ q[y] \in Nat
      BY <1>3, <1>10, <2>4
    <3>3. c = 0 \/ p[c] < q[y]
      <4>1. SUFFICES ASSUME c # 0
                     PROVE  p[c] < q[y]
        OBVIOUS
      <4> DEFINE e == c + 1
      <4>2. c \in 1 .. Len(p) /\ e \in 1 .. Len(p) /\ c < e /\ c <= e
        BY <1>2, <1>4, <4>1
      <4> HIDE DEF e
      <4>3. p[c] < p[e] /\ p[c] \in Nat /\ p[e] \in Nat
        BY <1>2, <4>2, NotLess
      <4>4. p[e] = h
        BY DEF e, h
      <4> QED
        BY <3>2, <4>3, <4>4
    <3> QED
      BY <1>4, <1>8, <3>2, <3>3
  <2>7. Len(q) - i + 1 <= Len(p) - c
    BY <1>4, <2>3, <2>5, <2>6, NoMore
  <2>8. Len(v) \in Nat /\ DOMAIN v = 1 .. Len(v)
    BY <1>6, InRange
  <2> DEFINE j == i - Len(q) + Len(v)
  <2>9. j \in 1 .. Len(v) /\ Len(q) - Len(v) + j = i
    <3>1. Len(v) <= Len(q) /\ Len(q) - i + 1 <= Len(v)
      <4>1. CASE Len(q) <= D
        BY <1>3, <1>6, <2>3, <4>1
      <4>2. CASE ~(Len(q) <= D)
        <5>1. Len(v) = D
          BY <1>6, <4>2
        <5> QED
          <6>1. Len(q) - i + 1 <= D
            BY ONLY <1>4, <2>7
          <6>2. Len(q) \in Nat /\ i \in Nat /\ D \in Nat
            BY ONLY <1>1, <1>3, <2>3
          <6> QED
            BY ONLY <4>2, <5>1, <6>1, <6>2
      <4> QED
        BY <4>1, <4>2
    <3> QED
      BY <1>3, <2>3, <2>8, <3>1
  <2> HIDE DEF j
  <2>10. v[j] = x
    BY <1>6, <2>2, <2>9
  <2> QED
    BY <2>8, <2>9, <2>10 DEF Range
<1>12. Rising(v, h)
  <2>1. Len(v) \in Nat /\ DOMAIN v = 1 .. Len(v) /\ Len(v) <= Len(q)
    BY <1>1, <1>3, <1>6, InRange
  <2>2. SUFFICES ASSUME NEW i \in 1 .. Len(v), NEW j \in 1 .. Len(v), i < j, h <= v[i]
                 PROVE  v[i] < v[j]
    BY <2>1 DEF Rising
  <2> DEFINE x == Len(q) - Len(v) + i
             y == Len(q) - Len(v) + j
  <2>3. x \in 1 .. Len(q) /\ y \in 1 .. Len(q) /\ x < y
    BY <1>3, <2>1, <2>2
  <2>4. v[i] = q[x] /\ v[j] = q[y]
    BY <1>6
  <2> HIDE DEF x, y
  <2> QED
    BY <1>3, <1>10, <2>2, <2>3, <2>4 DEF Rising
<1>13. \A x \in Nat : h <= x => (x \in Range(u) <=> x \in Range(p))
  <2>1. u[1] \in Range(u)
    <3>1. 1 \in 1 .. Len(u)
      BY <1>1, <1>5
    <3> QED
      BY <1>5, <3>1, InRange
  <2> QED
    BY <1>5, <2>1
<1>14. Same(u, v, H, u[1])
  BY <1>5, <1>10, <1>11, <1>12, <1>13 DEF Same
<1>15. Len(u) >= DefaultLimit
  BY <1>1, <1>5 DEF D
<1>16. Serves(u, v, D, H)
  BY <1>5, <1>6, <1>14, <1>15, FirstServes
<1> QED
  BY <1>16 DEF u, v, D

\* A message comes to a channel whose limit is raised, and to the copy unless it is
\* hidden: both make room for it.
LEMMA PushServes ==
  ASSUME NEW p \in Seq(Nat), NEW q \in Seq(Nat), NEW n \in Nat, NEW H, Ascends(p), Len(q) <= n,
         NEW m \in Nat, \A x \in Range(p) : x < m, \A x \in Range(q) : x < m,
         Serves(p, q, n, H)
  PROVE  Serves(Append(p, m), IF m \in H THEN q ELSE Append(q, m), n + 1, H)
<1> DEFINE D == DefaultLimit
           u == Append(p, m)
           v == IF m \in H THEN q ELSE Append(q, m)
<1>1. D \in Nat \ {0} /\ D \in Nat
  BY LimitAssumption
<1>2. /\ Len(p) \in Nat /\ DOMAIN p = 1 .. Len(p)
      /\ \A i \in 1 .. Len(p) : p[i] \in Nat /\ p[i] \in Range(p) /\ p[i] < m
      /\ \A x \in Range(p) : x \in Nat /\ \E i \in 1 .. Len(p) : x = p[i]
  BY InRange
<1>3. /\ Len(q) \in Nat /\ DOMAIN q = 1 .. Len(q)
      /\ \A i \in 1 .. Len(q) : q[i] \in Nat /\ q[i] \in Range(q) /\ q[i] < m
      /\ \A x \in Range(q) : x \in Nat /\ \E i \in 1 .. Len(q) : x = q[i]
  BY InRange
<1>4. /\ u \in Seq(Nat) /\ Len(u) = Len(p) + 1 /\ DOMAIN u = 1 .. Len(p) + 1
      /\ \A i \in 1 .. Len(p) : u[i] = p[i]
      /\ u[Len(p) + 1] = m
  OBVIOUS
<1>5. \/ m \in H /\ v = q
      \/ /\ m \notin H
         /\ v \in Seq(Nat) /\ Len(v) = Len(q) + 1 /\ DOMAIN v = 1 .. Len(q) + 1
         /\ \A i \in 1 .. Len(q) : v[i] = q[i]
         /\ v[Len(q) + 1] = m
  <2>1. LET a == Append(q, m)
        IN  /\ a \in Seq(Nat) /\ Len(a) = Len(q) + 1 /\ DOMAIN a = 1 .. Len(q) + 1
            /\ \A i \in 1 .. Len(q) : a[i] = q[i]
            /\ a[Len(q) + 1] = m
    OBVIOUS
  <2> QED
    BY <2>1
<1> HIDE DEF u, v
<1>6. Range(u) = Range(p) \union {m}
  <2>1. ASSUME NEW x \in Range(u)
        PROVE  x \in Range(p) \union {m}
    <3>1. PICK i \in 1 .. Len(p) + 1 : x = u[i]
      BY <1>4 DEF Range
    <3>2. i = Len(p) + 1 \/ i \in 1 .. Len(p)
      BY <1>2
    <3> QED
      BY <1>2, <1>4, <3>1, <3>2
  <2>2. ASSUME NEW x \in Range(p)
        PROVE  x \in Range(u)
    <3>1. PICK i \in 1 .. Len(p) : x = p[i]
      BY <1>2
    <3>2. i \in 1 .. Len(p) + 1
      BY <1>2
    <3> QED
      BY <1>4, <3>1, <3>2 DEF Range
  <2>3. m \in Range(u)
    <3>1. Len(p) + 1 \in 1 .. Len(p) + 1
      BY <1>2
    <3> QED
      BY <1>4, <3>1 DEF Range
  <2> QED
    BY <2>1, <2>2, <2>3
<1>7. Range(v) = Range(q) \union ({m} \ H)
  <2>1. CASE m \in H /\ v = q
    BY <2>1
  <2>2. CASE m \notin H /\ v # q
    <3>1. ASSUME NEW x \in Range(v)
          PROVE  x \in Range(q) \union {m}
      <4>1. PICK i \in 1 .. Len(q) + 1 : x = v[i]
        BY <1>5, <2>2 DEF Range
      <4>2. i = Len(q) + 1 \/ i \in 1 .. Len(q)
        BY <1>3
      <4> QED
        BY <1>3, <1>5, <2>2, <4>1, <4>2
    <3>2. ASSUME NEW x \in Range(q)
          PROVE  x \in Range(v)
      <4>1. PICK i \in 1 .. Len(q) : x = q[i]
        BY <1>3
      <4>2. i \in 1 .. Len(q) + 1
        BY <1>3
      <4> QED
        BY <1>5, <2>2, <4>1, <4>2 DEF Range
    <3>3. m \in Range(v)
      <4>1. Len(q) + 1 \in 1 .. Len(q) + 1
        BY <1>3
      <4> QED
        BY <1>5, <2>2, <4>1 DEF Range
    <3> QED
      BY <2>2, <3>1, <3>2, <3>3
  <2>3. m \notin H => v # q
    <3>1. SUFFICES ASSUME m \notin H, v = q
                   PROVE  FALSE
      OBVIOUS
    <3>2. Len(q) = Len(q) + 1
      BY <1>5, <3>1
    <3> QED
      BY <1>3, <3>2
  <2> QED
    BY <1>5, <2>1, <2>2, <2>3
<1>8. PICK g \in Nat : Same(p, q, H, g) /\ (Many(q, g) \/ Whole(p, q, n, H, g))
  BY DEF Serves
<1>9. Same(u, v, H, g)
  <2>1. \A x \in Nat : g <= x => (x \in Range(v) <=> x \in Range(u) \ H)
    BY <1>6, <1>7, <1>8 DEF Same
  <2>2. Rising(v, g)
    <3>1. CASE m \in H /\ v = q
      BY <1>8, <3>1 DEF Same
    <3>2. CASE ~(m \in H /\ v = q)
      <4>1. SUFFICES ASSUME NEW i \in 1 .. Len(q) + 1, NEW j \in 1 .. Len(q) + 1, i < j, g <= v[i]
                     PROVE  v[i] < v[j]
        BY <1>5, <3>2 DEF Rising
      <4>2. i \in 1 .. Len(q) /\ (j \in 1 .. Len(q) \/ j = Len(q) + 1)
        <5>1. i \in Nat /\ j \in Nat /\ j <= Len(q) + 1 /\ 1 <= i /\ i < j /\ Len(q) \in Nat
          BY <1>3, <4>1
        <5> QED
          BY ONLY <5>1
      <4> QED
        BY <1>3, <1>5, <1>8, <3>2, <4>1, <4>2 DEF Same, Rising
    <3> QED
      BY <3>1, <3>2
  <2> QED
    BY <2>1, <2>2 DEF Same
<1>10. CASE Many(q, g)
  <2> DEFINE i == Len(q) - D + 1
  <2>1. i \in 1 .. Len(q) /\ i \in Nat /\ g <= q[i] /\ Len(q) >= D
    BY <1>1, <1>3, <1>10 DEF Many, D
  <2>2. CASE m \in H /\ v = q
    BY <1>10, <1>9, <2>2 DEF Serves, u, v
  <2>3. CASE ~(m \in H /\ v = q)
    <3> DEFINE e == i + 1
    <3>1. Len(v) >= D /\ Len(v) - D + 1 = e
      <4>1. Len(v) = Len(q) + 1
        BY <1>5, <2>3
      <4> QED
        BY <1>1, <1>3, <2>1, <4>1
    <3>2. e \in Nat /\ i <= e /\ (e \in 1 .. Len(q) \/ e = Len(q) + 1)
      BY ONLY <1>3, <2>1
    <3> HIDE DEF i, e
    <3>3. g <= v[e]
      <4>1. CASE e \in 1 .. Len(q)
        <5>1. g <= q[e]
          BY <1>8, <2>1, <3>2, <4>1, LaterIsGreater DEF Same
        <5> QED
          BY <1>5, <2>3, <4>1, <5>1
      <4>2. CASE e = Len(q) + 1
        <5>1. q[i] \in Nat /\ q[i] < m
          BY <1>3, <2>1
        <5>2. g <= m
          BY <2>1, <5>1
        <5> QED
          BY <1>5, <2>3, <4>2, <5>2
      <4> QED
        BY <3>2, <4>1, <4>2
    <3>4. Many(v, g)
      BY <3>1, <3>3 DEF Many, D
    <3> QED
      BY <1>9, <3>4 DEF Serves, u, v
  <2> QED
    BY <2>2, <2>3
<1>11. CASE Whole(p, q, n, H, g)
  <2>1. /\ g = 0 \/ (Len(p) >= D /\ p[1] <= g /\ g <= p[Len(p) - D + 1])
        /\ Range(p) \ H \subseteq Range(q)
        /\ \A i \in 1 .. Len(p) : p[i] < g =>
             i <= n /\ \A j \in 1 .. Len(q) : p[i] < q[j] => i + Len(q) - j + 1 <= n
    BY <1>11 DEF Whole, D
  <2>2. Range(u) \ H \subseteq Range(v)
    BY <1>6, <1>7, <2>1
  <2>3. CASE g = 0
    <3>1. \A i \in 1 .. Len(u) : ~(u[i] < g)
      BY <1>4, <2>3, InRange
    <3>2. Whole(u, v, n + 1, H, g)
      BY <2>2, <2>3, <3>1 DEF Whole
    <3> QED
      BY <1>9, <3>2 DEF Serves, u, v
  <2>4. CASE g # 0
    <3> DEFINE i == Len(p) - D + 1
               e == i + 1
    <3>1. /\ i \in 1 .. Len(p) /\ i \in Nat /\ e \in Nat /\ i <= e
          /\ (e \in 1 .. Len(p) \/ e = Len(p) + 1)
          /\ Len(u) - D + 1 = e /\ Len(u) >= D /\ 1 \in 1 .. Len(p)
      <4>1. Len(p) >= D
        BY <2>1, <2>4
      <4>2. i \in 1 .. Len(p) /\ i \in Nat /\ 1 \in 1 .. Len(p)
        BY <1>1, <1>2, <4>1
      <4>3. Len(u) - D + 1 = e /\ Len(u) >= D
        BY <1>1, <1>2, <1>4, <4>1
      <4> HIDE DEF i
      <4> QED
        BY <1>2, <4>2, <4>3
    <3>2. g <= p[i] /\ p[i] \in Nat /\ p[i] < m
      BY <1>2, <2>1, <2>4, <3>1
    <3> HIDE DEF i, e
    <3>3. g <= u[e]
      <4>1. CASE e \in 1 .. Len(p)
        <5>1. p[i] <= p[e] /\ p[e] \in Nat
          BY <1>2, <3>1, <4>1, NotLess
        <5> QED
          <6>1. u[e] = p[e] /\ g \in Nat
            BY <1>4, <4>1
          <6> QED
            BY ONLY <3>2, <5>1, <6>1
      <4>2. CASE e = Len(p) + 1
        BY <1>4, <3>2, <4>2
      <4> QED
        BY <3>1, <4>1, <4>2
    <3>4. u[1] <= g
      BY <1>4, <2>1, <2>4, <3>1
    <3>5. ASSUME NEW x \in 1 .. Len(u), u[x] < g
          PROVE  x <= n + 1 /\ \A j \in 1 .. Len(v) : u[x] < v[j] => x + Len(v) - j + 1 <= n + 1
      <4>1. x \in 1 .. Len(p) /\ u[x] = p[x]
        <5>1. x # Len(p) + 1
          BY <1>4, <3>2, <3>5
        <5>2. x \in 1 .. Len(p)
          BY <1>2, <1>4, <5>1
        <5> QED
          BY <1>4, <5>2
      <4>2. x <= n /\ \A j \in 1 .. Len(q) : p[x] < q[j] => x + Len(q) - j + 1 <= n
        BY <2>1, <3>5, <4>1
      <4>3. ASSUME NEW j \in 1 .. Len(v), u[x] < v[j]
            PROVE  x + Len(v) - j + 1 <= n + 1
        <5>1. CASE m \in H /\ v = q
          <6>1. x + Len(q) - j + 1 <= n
            BY <4>1, <4>2, <4>3, <5>1
          <6> QED
            BY <1>3, <5>1, <6>1
        <5>2. CASE ~(m \in H /\ v = q)
          <6>1. Len(v) = Len(q) + 1 /\ (j \in 1 .. Len(q) \/ j = Len(q) + 1)
            BY <1>3, <1>5, <5>2
          <6>2. CASE j \in 1 .. Len(q)
            <7>1. x + Len(q) - j + 1 <= n
              BY <1>5, <4>1, <4>2, <4>3, <5>2, <6>2
            <7> QED
              BY <1>3, <6>1, <7>1
          <6>3. CASE j = Len(q) + 1
            BY <1>3, <4>2, <6>1, <6>3
          <6> QED
            BY <6>1, <6>2, <6>3
        <5> QED
          BY <5>1, <5>2
      <4> QED
        BY <4>2, <4>3
    <3>6. Whole(u, v, n + 1, H, g)
      <4>1. Len(u) >= DefaultLimit /\ g <= u[Len(u) - DefaultLimit + 1]
        BY <3>1, <3>3 DEF D
      <4> QED
        BY <2>2, <3>4, <3>5, <4>1 DEF Whole
    <3> QED
      BY <1>9, <3>6 DEF Serves, u, v
  <2> QED
    BY <2>3, <2>4
<1> QED
  BY <1>8, <1>10, <1>11

-----------------------------------------------------------------------------
(* A page of older messages *)

\* A sequence behind another one, by places.
Behinds(s, t, u) ==
  /\ u \in Seq(Nat) /\ Len(u) = Len(s) + Len(t) /\ DOMAIN u = 1 .. Len(u) /\ Len(u) \in Nat
  /\ \A i \in 1 .. Len(s) : i \in 1 .. Len(u) /\ u[i] = s[i]
  /\ \A i \in 1 .. Len(t) : Len(s) + i \in 1 .. Len(u) /\ u[Len(s) + i] = t[i]
  /\ \A i \in 1 .. Len(u) : i \in 1 .. Len(s) \/ \E j \in 1 .. Len(t) : i = Len(s) + j
  /\ Range(u) = Range(s) \union Range(t)

\* A sequence behind another one is that.
LEMMA ConcatPlaces ==
  ASSUME NEW s \in Seq(Nat), NEW t \in Seq(Nat), NEW u, u = s \o t
  PROVE  Behinds(s, t, u)
<1>1. /\ Len(s) \in Nat /\ Len(t) \in Nat
      /\ u \in Seq(Nat) /\ Len(u) = Len(s) + Len(t) /\ DOMAIN u = 1 .. Len(s) + Len(t)
      /\ \A i \in 1 .. Len(s) + Len(t) : u[i] = IF i <= Len(s) THEN s[i] ELSE t[i - Len(s)]
  OBVIOUS
<1>2. Range(u) = Range(s) \union Range(t)
  BY ConcatMembers
<1>3. \A i \in 1 .. Len(s) : i \in 1 .. Len(u) /\ u[i] = s[i]
  <2>1. TAKE i \in 1 .. Len(s)
  <2>2. i \in 1 .. Len(s) + Len(t) /\ i <= Len(s)
    BY <1>1
  <2> QED
    BY <1>1, <2>2
<1>4. \A i \in 1 .. Len(t) : Len(s) + i \in 1 .. Len(u) /\ u[Len(s) + i] = t[i]
  <2>1. TAKE i \in 1 .. Len(t)
  <2> DEFINE x == Len(s) + i
  <2>2. x \in 1 .. Len(s) + Len(t) /\ ~(x <= Len(s)) /\ x - Len(s) = i
    BY <1>1
  <2> HIDE DEF x
  <2>3. u[x] = t[i]
    BY <1>1, <2>2
  <2> QED
    BY <1>1, <2>2, <2>3 DEF x
<1>5. \A i \in 1 .. Len(u) : i \in 1 .. Len(s) \/ \E j \in 1 .. Len(t) : i = Len(s) + j
  <2>1. TAKE i \in 1 .. Len(u)
  <2>2. SUFFICES ASSUME i \notin 1 .. Len(s)
                 PROVE  \E j \in 1 .. Len(t) : i = Len(s) + j
    OBVIOUS
  <2> DEFINE j == i - Len(s)
  <2>3. j \in 1 .. Len(t) /\ i = Len(s) + j
    BY <1>1, <2>2
  <2> QED
    BY <2>3
<1> QED
  BY <1>1, <1>2, <1>3, <1>4, <1>5 DEF Behinds

\* All of s is older than g.
Older(s, g) == \A x \in Range(s) : x < g

\* From g on, which is newer than all that come in front, nothing changes.
LEMMA FrontSame ==
  ASSUME NEW p \in Seq(Nat), NEW q \in Seq(Nat), NEW s \in Seq(Nat), NEW f \in Seq(Nat),
         NEW u, NEW v, Behinds(s, p, u), Behinds(f, q, v), NEW H,
         NEW g \in Nat, Older(s, g), Range(f) \subseteq Range(s),
         Same(p, q, H, g)
  PROVE  Same(u, v, H, g)
<1>1. /\ \A x \in Nat : g <= x => x \notin Range(s) /\ x \notin Range(f)
      /\ \A i \in 1 .. Len(f) : ~(g <= f[i])
  <2>1. \A x \in Range(s) : x \in Nat /\ ~(g <= x)
    BY InRange DEF Older
  <2>2. \A i \in 1 .. Len(f) : f[i] \in Range(f)
    BY InRange
  <2> QED
    BY <2>1, <2>2
<1>2. \A x \in Nat : g <= x => (x \in Range(v) <=> x \in Range(u) \ H)
  BY <1>1 DEF Same, Behinds
<1>3. Rising(v, g)
  <2>1. SUFFICES ASSUME NEW i \in 1 .. Len(v), NEW j \in 1 .. Len(v), i < j, g <= v[i]
                 PROVE  v[i] < v[j]
    BY DEF Behinds, Rising
  <2>2. i \notin 1 .. Len(f)
    BY <1>1, <2>1 DEF Behinds
  <2>3. PICK x \in 1 .. Len(q) : i = Len(f) + x
    BY <2>2 DEF Behinds
  <2>4. Len(f) \in Nat /\ Len(q) \in Nat /\ DOMAIN q = 1 .. Len(q)
    BY InRange
  <2>5. j \notin 1 .. Len(f)
    BY <2>1, <2>3, <2>4
  <2>6. PICK y \in 1 .. Len(q) : j = Len(f) + y
    BY <2>5 DEF Behinds
  <2>7. v[i] = q[x] /\ v[j] = q[y] /\ x < y
    BY <2>1, <2>3, <2>4, <2>6 DEF Behinds
  <2> QED
    BY <2>1, <2>4, <2>7 DEF Same, Rising
<1> QED
  BY <1>2, <1>3 DEF Same

\* Many messages are still many.
LEMMA FrontMany ==
  ASSUME NEW q \in Seq(Nat), NEW f \in Seq(Nat), NEW v, Behinds(f, q, v),
         NEW g \in Nat, Many(q, g)
  PROVE  Many(v, g)
<1> DEFINE i == Len(q) - DefaultLimit + 1
<1>1. DefaultLimit \in Nat \ {0} /\ Len(q) \in Nat /\ Len(f) \in Nat
  BY LimitAssumption, InRange
<1>2. i \in 1 .. Len(q) /\ g <= q[i] /\ Len(q) >= DefaultLimit
  BY <1>1 DEF Many
<1>3. Len(v) = Len(f) + Len(q) /\ Len(v) >= DefaultLimit /\ Len(v) - DefaultLimit + 1 = Len(f) + i
  BY <1>1, <1>2 DEF Behinds
<1> HIDE DEF i
<1>4. g <= v[Len(f) + i]
  BY <1>2 DEF Behinds
<1> QED
  BY <1>3, <1>4 DEF Many

\* All of what ascends among others that ascend, behind one of them.
LEMMA NoMoreOf ==
  ASSUME NEW p \in Seq(Nat), Ascends(p), NEW q \in Seq(Nat), Ascends(q),
         NEW a \in 0 .. Len(p), NEW i \in 1 .. Len(q),
         a = 0 \/ p[a] < q[i], Range(q) \subseteq Range(p)
  PROVE  Len(q) - i + 1 <= Len(p) - a
<1>1. /\ Len(p) \in Nat /\ \A x \in 1 .. Len(p) : p[x] \in Nat
      /\ \A x \in Range(p) : \E b \in 1 .. Len(p) : x = p[b]
  BY InRange
<1>2. /\ Len(q) \in Nat /\ DOMAIN q = 1 .. Len(q)
      /\ \A x \in 1 .. Len(q) : q[x] \in Nat /\ q[x] \in Range(q)
  BY InRange
<1>3. i \in 1 .. Len(q) + 1
  BY <1>2
<1>4. \A x \in i .. Len(q) : x \in 1 .. Len(q) /\ q[i] <= q[x]
  <2>1. TAKE x \in i .. Len(q)
  <2>2. x \in 1 .. Len(q) /\ i <= x
    BY <1>2
  <2>3. q[i] <= q[x]
    BY <2>2, NotLess
  <2> QED
    BY <2>2, <2>3
<1>5. \A x, y \in i .. Len(q) : x < y => q[x] < q[y]
  BY <1>2, <1>4 DEF Ascends
<1>6. \A x \in i .. Len(q) : \E b \in a + 1 .. Len(p) : q[x] = p[b]
  <2>1. TAKE x \in i .. Len(q)
  <2>2. q[x] \in Range(p) /\ q[x] \in Nat /\ q[i] \in Nat /\ q[i] <= q[x]
    BY <1>2, <1>4
  <2>3. PICK b \in 1 .. Len(p) : q[x] = p[b]
    BY <1>1, <2>2
  <2>4. a < b
    <3>1. ASSUME b <= a
          PROVE  FALSE
      <4>1. a \in 1 .. Len(p) /\ a # 0
        BY <1>1, <3>1
      <4>2. p[b] <= p[a] /\ p[a] \in Nat /\ p[b] \in Nat
        BY <1>1, <3>1, <4>1, NotLess
      <4> QED
        BY <2>2, <2>3, <4>1, <4>2
    <3> QED
      BY <1>1, <3>1
  <2>5. b \in a + 1 .. Len(p)
    BY <1>1, <2>4
  <2> QED
    BY <2>3, <2>5
<1> QED
  BY <1>3, <1>5, <1>6, NoMore

\* Older messages come in front of the channel and, as far as it includes them, of the
\* copy; the limits of both grow by what the channel has no room for.
LEMMA PageServes ==
  ASSUME NEW p \in Seq(Nat), NEW q \in Seq(Nat), NEW H, NEW s \in Seq(Nat), Ascends(s), Ascends(p),
         \A x \in Range(s), y \in Range(p) : x < y,
         NEW l \in Nat, NEW n \in Nat, NEW by \in Nat,
         Len(p) <= l, Len(q) <= n, Len(p) = l \/ (l = DefaultLimit /\ n = DefaultLimit),
         Len(s) - (l - Len(p)) <= by,
         Serves(p, q, n, H)
  PROVE  Serves(s \o p, Newest(Without(s, H), n + by - Len(q)) \o q, n + by, H)
<1> DEFINE D == DefaultLimit
           t == Without(s, H)
           k == n + by - Len(q)
           f == Newest(t, k)
           u == s \o p
           v == f \o q
<1>1. D \in Nat \ {0} /\ D \in Nat
  BY LimitAssumption
<1>2. /\ Len(p) \in Nat /\ DOMAIN p = 1 .. Len(p)
      /\ \A i \in 1 .. Len(p) : p[i] \in Nat /\ p[i] \in Range(p)
      /\ \A x \in Range(p) : x \in Nat /\ \E i \in 1 .. Len(p) : x = p[i]
  BY InRange
<1>3. /\ Len(q) \in Nat /\ DOMAIN q = 1 .. Len(q)
      /\ \A i \in 1 .. Len(q) : q[i] \in Nat /\ q[i] \in Range(q)
      /\ \A x \in Range(q) : x \in Nat /\ \E i \in 1 .. Len(q) : x = q[i]
  BY InRange
<1>4. /\ Len(s) \in Nat /\ DOMAIN s = 1 .. Len(s)
      /\ \A i \in 1 .. Len(s) : s[i] \in Nat /\ s[i] \in Range(s)
      /\ \A x \in Range(s) : x \in Nat /\ \E i \in 1 .. Len(s) : x = s[i]
  BY InRange
<1>5. t \in Seq(Nat) /\ Range(t) = Range(s) \ H /\ Ascends(t)
  BY WithoutMembers, WithoutAscends
<1>6. k \in Nat
  BY <1>3
<1> HIDE DEF t, k
<1>7. /\ f \in Seq(Nat) /\ Ascends(f) /\ Range(f) \subseteq Range(t)
      /\ Len(t) <= k => f = t
  BY <1>5, <1>6, NewestFacts, NewestAscends, NewestMembers
<1> HIDE DEF f
<1>8. /\ Len(f) \in Nat /\ DOMAIN f = 1 .. Len(f) /\ Len(t) \in Nat
      /\ \A i \in 1 .. Len(f) : f[i] \in Nat /\ f[i] \in Range(f)
  BY <1>5, <1>7, InRange
<1>9. Behinds(s, p, u) /\ Behinds(f, q, v)
  BY <1>7, ConcatPlaces
<1> HIDE DEF u, v
<1>10. Len(t) <= Len(s)
  <2>1. CASE Len(t) = 0
    BY <1>4, <2>1
  <2>2. CASE Len(t) # 0
    <3>1. 1 \in 1 .. Len(t) /\ 0 \in 0 .. Len(s)
      BY <1>4, <1>8, <2>2
    <3>2. Len(t) - 1 + 1 <= Len(s) - 0
      BY <1>5, <3>1, NoMoreOf
    <3> QED
      BY <1>4, <1>8, <3>2
  <2> QED
    BY <2>1, <2>2
<1>a. /\ Len(p) \in Nat /\ Len(q) \in Nat /\ Len(s) \in Nat /\ D \in Nat \ {0}
      /\ l \in Nat /\ n \in Nat /\ by \in Nat
      /\ Len(p) <= l /\ Len(q) <= n /\ (Len(p) = l \/ (l = D /\ n = D))
      /\ Len(s) - (l - Len(p)) <= by
  BY <1>1, <1>2, <1>3, <1>4 DEF D
<1>b. Range(f) \subseteq Range(s)
  BY <1>5, <1>7
<1>c. ASSUME NEW g \in Nat, \A x \in Range(s) : x < g, Same(p, q, H, g)
      PROVE  Same(u, v, H, g)
  <2>1. Older(s, g)
    BY <1>c DEF Older
  <2>2. f \in Seq(Nat) /\ Behinds(s, p, u) /\ Behinds(f, q, v) /\ Same(p, q, H, g)
    BY <1>7, <1>9, <1>c
  <2> QED
    BY <1>b, <2>1, <2>2, FrontSame
<1>11. PICK e \in Nat : Same(p, q, H, e) /\ (Many(q, e) \/ Whole(p, q, n, H, e))
  BY DEF Serves
<1>12. CASE Many(q, e)
  <2>1. PICK g \in Nat : Same(p, q, H, g) /\ Many(q, g) /\ p[1] <= g /\ Len(p) >= 1
    BY <1>11, <1>12, ManyFromFirst
  <2>2. \A x \in Range(s) : x < g
    <3>1. TAKE x \in Range(s)
    <3>a. 1 \in 1 .. Len(p)
      BY <1>2, <2>1, FirstOf
    <3>2. 1 \in 1 .. Len(p) /\ p[1] \in Range(p) /\ p[1] \in Nat /\ x \in Nat
      BY <1>2, <1>4, <3>a
    <3>3. x < p[1]
      BY <3>2
    <3> QED
      BY <2>1, <3>2, <3>3
  <2>3. Same(u, v, H, g)
    BY <1>c, <2>1, <2>2
  <2>4. Many(v, g)
    BY <1>7, <1>9, <2>1, FrontMany
  <2> QED
    BY <2>3, <2>4 DEF Serves, u, v, f, t, k
<1>13. ASSUME Len(s) <= k
       PROVE  f = t /\ Range(v) = (Range(s) \ H) \union Range(q) /\ Len(f) <= Len(s)
  <2>1. f = t
    BY <1>4, <1>6, <1>7, <1>8, <1>10, <1>13
  <2> QED
    BY <1>5, <1>9, <1>10, <2>1 DEF Behinds
<1>14. CASE Whole(p, q, n, H, e) /\ e = 0
  <2>1. Same(p, q, H, 0) /\ 0 \in Nat
    BY <1>11, <1>14
  <2>2. Range(q) = Range(p) \ H
    <3>1. \A x \in Nat : 0 <= x
      OBVIOUS
    <3>2. \A x \in Nat : x \in Range(q) <=> x \in Range(p) \ H
      BY <2>1, <3>1 DEF Same
    <3>3. Range(q) \subseteq Nat /\ Range(p) \subseteq Nat
      BY <1>2, <1>3
    <3> QED
      BY <3>2, <3>3
  <2>3. Ascends(q)
    BY <1>3, <2>1 DEF Same, Rising, Ascends
  <2>4. Len(q) <= Len(p)
    <3>1. CASE Len(q) = 0
      BY ONLY <1>a, <3>1
    <3>2. CASE Len(q) # 0
      <4>1. 1 \in 1 .. Len(q) /\ 0 \in 0 .. Len(p)
        BY ONLY <1>a, <3>2
      <4>2. Len(q) - 1 + 1 <= Len(p) - 0
        BY <2>2, <2>3, <4>1, NoMoreOf
      <4> QED
        BY ONLY <1>a, <4>2
    <3> QED
      BY <3>1, <3>2
  <2>5. Len(s) <= k
    <3>1. Len(s) <= n + by - Len(q)
      BY ONLY <1>a, <2>4
    <3> QED
      BY <3>1 DEF k
  <2>6. Range(v) = Range(u) \ H
    BY <1>9, <1>13, <2>2, <2>5 DEF Behinds
  <2>7. Ascends(v)
    <3>1. \A x \in Range(f), y \in Range(q) : x < y
      BY <1>5, <1>7, <2>2
    <3> QED
      BY <1>7, <2>3, <3>1, ConcatAscends DEF v
  <2>8. Same(u, v, H, 0)
    <3>1. Rising(v, 0)
      BY <2>7 DEF Rising, Ascends
    <3> QED
      BY <2>6, <3>1 DEF Same
  <2>9. Whole(u, v, n + by, H, 0)
    <3>1. \A i \in 1 .. Len(u) : ~(u[i] < 0)
      <4>1. u \in Seq(Nat)
        BY <1>9 DEF Behinds
      <4> QED
        BY <4>1, InRange
    <3> QED
      BY <2>6, <3>1 DEF Whole
  <2> QED
    BY <2>1, <2>8, <2>9 DEF Serves, u, v, f, t, k
<1>15. CASE Whole(p, q, n, H, e) /\ e # 0
  <2>1. /\ Len(p) >= D /\ p[1] <= e /\ e <= p[Len(p) - D + 1]
        /\ Range(p) \ H \subseteq Range(q)
        /\ \A i \in 1 .. Len(p) : p[i] < e =>
             i <= n /\ \A j \in 1 .. Len(q) : p[i] < q[j] => i + Len(q) - j + 1 <= n
    BY <1>15 DEF Whole, D
  <2>2. Len(p) = l /\ Len(s) <= by /\ Len(s) <= k
    <3>1. Len(p) >= D
      BY <2>1
    <3>2. Len(p) = l /\ Len(s) <= by /\ Len(s) <= n + by - Len(q)
      BY ONLY <1>a, <3>1
    <3> QED
      BY <3>2 DEF k
  <2>3. 1 \in 1 .. Len(p) /\ p[1] \in Range(p) /\ p[1] \in Nat
    <3>1. Len(p) >= D
      BY <2>1
    <3>2. Len(p) \in Nat /\ Len(p) >= 1
      BY ONLY <1>a, <3>1
    <3>3. 1 \in 1 .. Len(p)
      BY <3>2, FirstOf
    <3> QED
      BY <1>2, <3>3
  <2>4. \A x \in Range(s) : x < e
    <3>1. TAKE x \in Range(s)
    <3>2. x < p[1] /\ x \in Nat
      BY <1>4, <2>3
    <3> QED
      BY <2>1, <2>3, <3>2
  <2>5. Same(u, v, H, e)
    BY <1>11, <1>c, <2>4
  <2>6. Range(u) \ H \subseteq Range(v)
    BY <1>9, <1>13, <2>1, <2>2 DEF Behinds
  <2>7. Len(u) >= D /\ e <= u[Len(u) - D + 1]
    <3> DEFINE i == Len(p) - D + 1
    <3>a. Len(p) >= D /\ Len(u) = Len(s) + Len(p)
      BY <1>9, <2>1 DEF Behinds
    <3>1. i \in 1 .. Len(p)
      BY ONLY <1>a, <3>a
    <3>2. Len(u) = Len(s) + Len(p) /\ Len(u) >= D /\ Len(u) - D + 1 = Len(s) + i
      BY ONLY <1>a, <3>a
    <3> HIDE DEF i
    <3>3. u[Len(s) + i] = p[i]
      BY <1>9, <3>1 DEF Behinds
    <3> QED
      BY <2>1, <3>2, <3>3 DEF i
  <2>8. u[1] <= e
    <3>1. CASE Len(s) = 0
      <4>a. u[Len(s) + 1] = p[1]
        BY <1>9, <2>3 DEF Behinds
      <4>b. Len(s) + 1 = 1
        BY <3>1
      <4>1. u[1] = p[1]
        BY <4>a, <4>b
      <4> QED
        BY <2>1, <4>1
    <3>2. CASE Len(s) # 0
      <4>1. 1 \in 1 .. Len(s)
        BY <1>4, <3>2
      <4>2. u[1] = s[1] /\ s[1] \in Range(s) /\ s[1] \in Nat
        BY <1>4, <1>9, <4>1 DEF Behinds
      <4> QED
        BY <2>4, <4>2
    <3> QED
      BY <3>1, <3>2
  <2>9. Len(v) = Len(f) + Len(q) /\ Len(f) <= Len(s)
    BY <1>9, <1>13, <2>2 DEF Behinds
  <2>10. ASSUME NEW i \in 1 .. Len(u), u[i] < e
         PROVE  i <= n + by /\ \A j \in 1 .. Len(v) : u[i] < v[j] => i + Len(v) - j + 1 <= n + by
    <3>1. CASE i \in 1 .. Len(s)
      <4>1. i <= n + by /\ i \in 0 .. Len(s) /\ u[i] = s[i]
        BY <1>4, <1>9, <2>2, <3>1 DEF Behinds
      <4>2. ASSUME NEW j \in 1 .. Len(v), u[i] < v[j]
            PROVE  i + Len(v) - j + 1 <= n + by
        <5>1. CASE j \in 1 .. Len(f)
          <6>1. v[j] = f[j] /\ s[i] < f[j]
            BY <1>9, <4>1, <4>2, <5>1 DEF Behinds
          <6>2. Range(f) \subseteq Range(s)
            BY <1>5, <1>7
          <6>3. Len(f) - j + 1 <= Len(s) - i
            BY <1>7, <4>1, <5>1, <6>1, <6>2, NoMoreOf
          <6> QED
            BY <1>3, <1>4, <1>8, <2>2, <2>9, <6>3
        <5>2. CASE j \notin 1 .. Len(f)
          <6>1. PICK x \in 1 .. Len(q) : j = Len(f) + x
            BY <1>9, <5>2 DEF Behinds
          <6> QED
            BY <1>3, <1>4, <1>8, <2>2, <2>9, <3>1, <6>1
        <5> QED
          BY <5>1, <5>2
      <4> QED
        BY <4>1, <4>2
    <3>2. CASE i \notin 1 .. Len(s)
      <4>1. PICK a \in 1 .. Len(p) : i = Len(s) + a
        BY <1>9, <3>2 DEF Behinds
      <4>2. u[i] = p[a]
        BY <1>9, <4>1 DEF Behinds
      <4>3. a <= n /\ \A j \in 1 .. Len(q) : p[a] < q[j] => a + Len(q) - j + 1 <= n
        BY <2>1, <2>10, <4>2
      <4>4. ASSUME NEW j \in 1 .. Len(v), u[i] < v[j]
            PROVE  i + Len(v) - j + 1 <= n + by
        <5>1. CASE j \in 1 .. Len(f)
          <6>1. v[j] = f[j] /\ f[j] \in Range(s) /\ f[j] \in Nat
            BY <1>5, <1>7, <1>8, <1>9, <5>1 DEF Behinds
          <6>2. p[a] \in Range(p) /\ p[a] \in Nat
            BY <1>2
          <6>3. f[j] < p[a]
            BY <6>1, <6>2
          <6> QED
            <7>1. v[j] < u[i] /\ v[j] \in Nat /\ u[i] \in Nat
              BY ONLY <4>2, <6>1, <6>2, <6>3
            <7> QED
              BY ONLY <4>4, <7>1
        <5>2. CASE j \notin 1 .. Len(f)
          <6>1. PICK x \in 1 .. Len(q) : j = Len(f) + x
            BY <1>9, <5>2 DEF Behinds
          <6>2. v[j] = q[x]
            BY <1>9, <6>1 DEF Behinds
          <6>3. a + Len(q) - x + 1 <= n
            BY <4>2, <4>3, <4>4, <6>2
          <6> QED
            BY <1>2, <1>3, <1>4, <1>8, <2>2, <2>9, <4>1, <6>1, <6>3
        <5> QED
          BY <5>1, <5>2
      <4>5. i <= n + by
        BY <1>2, <1>4, <2>2, <4>1, <4>3
      <4> QED
        BY <4>4, <4>5
    <3> QED
      BY <3>1, <3>2
  <2>11. Whole(u, v, n + by, H, e)
    <3>1. Len(u) >= DefaultLimit /\ e <= u[Len(u) - DefaultLimit + 1]
      BY <2>7 DEF D
    <3> QED
      BY <2>6, <2>8, <2>10, <3>1 DEF Whole
  <2> QED
    BY <2>5, <2>11 DEF Serves, u, v, f, t, k
<1> QED
  BY <1>11, <1>12, <1>14, <1>15

-----------------------------------------------------------------------------
(* The rings of a channel and of a view *)

\* A raised limit is one above the default, of a ring that is full.
RaisedFull(r) == r.raised => Len(r.msgs) = r.limit /\ r.limit > DefaultLimit

\* The copy c of the ring r, for a view that hides H.
Enough(r, c, H) == Serves(r.msgs, c.msgs, c.limit, H)

\* What is known of a well formed ring.
LEMMA RingParts ==
  ASSUME NEW M, M \subseteq Nat, NEW r, RingOk(r, M)
  PROVE  /\ r.msgs \in Seq(M) /\ r.msgs \in Seq(Nat) /\ Len(r.msgs) \in Nat
         /\ r.limit \in Nat /\ r.limit # 0 /\ r.raised \in BOOLEAN
         /\ Len(r.msgs) <= r.limit /\ DefaultLimit <= r.limit
         /\ ~r.raised => r.limit = DefaultLimit
         /\ DefaultLimit \in Nat \ {0}
BY LimitAssumption DEF RingOk, Ring

\* A message behind a ring with room for it.
LEMMA AppendFits ==
  ASSUME NEW A, NEW q \in Seq(A), NEW m \in A, NEW n \in Nat, Len(q) < n
  PROVE  Newest(Append(q, m), n) = Append(q, m)
<1>1. Append(q, m) \in Seq(A) /\ Len(Append(q, m)) = Len(q) + 1 /\ Len(q) \in Nat
  OBVIOUS
<1>2. Len(Append(q, m)) <= n
  BY <1>1
<1> QED
  BY <1>2 DEF Newest

\* A new message comes to a ring whose limit is raised, and makes room for itself.
LEMMA PushRaised ==
  ASSUME NEW M, M \subseteq Nat, NEW r, RingOk(r, M), NEW m \in M, RaisedFull(r), r.raised
  PROVE  /\ RoomForOne(r) = 1
         /\ Push(r, m).msgs = Append(r.msgs, m)
         /\ Push(r, m).limit = r.limit + 1
         /\ Push(r, m).raised = TRUE
<1>1. /\ r.msgs \in Seq(M) /\ Len(r.msgs) \in Nat /\ r.limit \in Nat
      /\ Len(r.msgs) = r.limit
  BY RingParts DEF RaisedFull
<1>2. RoomForOne(r) = 1
  BY <1>1 DEF RoomForOne, Full
<1>3. /\ Push(r, m).limit = r.limit + RoomForOne(r)
      /\ Push(r, m).raised = r.raised
      /\ Push(r, m).msgs = Newest(Append(r.msgs, m), r.limit + RoomForOne(r))
  BY PushFacts
<1>4. Newest(Append(r.msgs, m), r.limit + 1) = Append(r.msgs, m)
  <2> DEFINE q == r.msgs
             n == r.limit + 1
  <2>1. q \in Seq(M) /\ n \in Nat /\ Len(q) < n
    BY <1>1
  <2> HIDE DEF q, n
  <2>2. Newest(Append(q, m), n) = Append(q, m)
    BY <2>1, AppendFits
  <2> QED
    BY <2>2 DEF q, n
<1> QED
  BY <1>2, <1>3, <1>4

\* A new message comes to a ring whose limit is not raised.
LEMMA PushUsual ==
  ASSUME NEW M, M \subseteq Nat, NEW r, RingOk(r, M), NEW m \in M, ~r.raised
  PROVE  /\ RoomForOne(r) = 0
         /\ Push(r, m).msgs = Newest(Append(r.msgs, m), DefaultLimit)
         /\ Push(r, m).limit = DefaultLimit
         /\ Push(r, m).raised = FALSE
<1>1. r.limit = DefaultLimit /\ r.limit \in Nat /\ r.raised = FALSE
  BY RingParts
<1>2. RoomForOne(r) = 0
  BY <1>1 DEF RoomForOne
<1>3. /\ Push(r, m).limit = r.limit + RoomForOne(r)
      /\ Push(r, m).raised = r.raised
      /\ Push(r, m).msgs = Newest(Append(r.msgs, m), r.limit + RoomForOne(r))
  BY PushFacts
<1>4. r.limit + RoomForOne(r) = DefaultLimit
  BY <1>1, <1>2
<1> QED
  BY <1>1, <1>2, <1>3, <1>4

\* A copy that has just got room for one more message.
LEMMA PushGrown ==
  ASSUME NEW M, M \subseteq Nat, NEW c, RingOk(c, M), NEW m \in M
  PROVE  /\ Grow(c, 1).msgs = c.msgs /\ Grow(c, 1).limit = c.limit + 1
         /\ Push(Grow(c, 1), m).msgs = Append(c.msgs, m)
         /\ Push(Grow(c, 1), m).limit = c.limit + 1
<1> DEFINE g == Grow(c, 1)
<1>1. /\ c.msgs \in Seq(M) /\ Len(c.msgs) \in Nat /\ c.limit \in Nat
      /\ Len(c.msgs) <= c.limit
  BY RingParts
<1>2. RingOk(g, M) /\ g.msgs = c.msgs /\ g.limit = c.limit + 1
  BY GrowFacts
<1> HIDE DEF g
<1>3. RoomForOne(g) = 0
  <2>1. ~Full(g)
    BY <1>1, <1>2 DEF Full
  <2> QED
    BY <2>1 DEF RoomForOne
<1>4. /\ Push(g, m).limit = g.limit + RoomForOne(g)
      /\ Push(g, m).msgs = Newest(Append(g.msgs, m), g.limit + RoomForOne(g))
  BY <1>2, PushFacts
<1>5. g.limit + RoomForOne(g) = c.limit + 1
  BY <1>1, <1>2, <1>3
<1>6. Newest(Append(c.msgs, m), c.limit + 1) = Append(c.msgs, m)
  <2> DEFINE q == c.msgs
             n == c.limit + 1
  <2>1. q \in Seq(M) /\ n \in Nat /\ Len(q) < n
    BY <1>1
  <2> HIDE DEF q, n
  <2>2. Newest(Append(q, m), n) = Append(q, m)
    BY <2>1, AppendFits
  <2> QED
    BY <2>2 DEF q, n
<1> QED
  BY <1>2, <1>4, <1>5, <1>6 DEF g

\* The copy of a view when the message m came to its channel.
Taking(r, c, m, H) ==
  IF m \in H THEN Grow(c, RoomForOne(r)) ELSE Push(Grow(c, RoomForOne(r)), m)

\* A message that is newer than all others comes to the ring and to a copy.
LEMMA SayEnough ==
  ASSUME NEW M, M \subseteq Nat, NEW r, RingOk(r, M), NEW c, RingOk(c, M), NEW m \in M, NEW H,
         Ascends(r.msgs), Older(r.msgs, m), Older(c.msgs, m), RaisedFull(r), c.raised => r.raised,
         Enough(r, c, H)
  PROVE  Enough(Push(r, m), Taking(r, c, m, H), H)
<1> DEFINE p == r.msgs
           q == c.msgs
           n == c.limit
           d == Taking(r, c, m, H)
<1>1. /\ p \in Seq(Nat) /\ q \in Seq(Nat) /\ q \in Seq(M) /\ n \in Nat
      /\ Len(p) <= r.limit /\ Len(q) <= n /\ m \in Nat /\ DefaultLimit \in Nat \ {0}
  BY RingParts
<1>2. Ascends(p) /\ Serves(p, q, n, H)
  BY DEF Enough
<1>3. (\A x \in Range(p) : x < m) /\ (\A x \in Range(q) : x < m)
  BY DEF Older
<1>4. CASE r.raised
  <2>1. RoomForOne(r) = 1 /\ Push(r, m).msgs = Append(p, m)
    BY <1>4, PushRaised
  <2>2. /\ Grow(c, 1).msgs = q /\ Grow(c, 1).limit = n + 1
        /\ Push(Grow(c, 1), m).msgs = Append(q, m)
        /\ Push(Grow(c, 1), m).limit = n + 1
    <3> HIDE DEF d, p
    <3>1. M \subseteq Nat /\ RingOk(c, M) /\ m \in M
      OBVIOUS
    <3> QED
      BY ONLY <3>1, PushGrown
  <2>3. d.msgs = (IF m \in H THEN q ELSE Append(q, m)) /\ d.limit = n + 1
    BY <2>1, <2>2 DEF Taking
  <2> HIDE DEF p, q, n, d
  <2>4. Serves(Append(p, m), IF m \in H THEN q ELSE Append(q, m), n + 1, H)
    BY <1>1, <1>2, <1>3, PushServes
  <2>5. Serves(Push(r, m).msgs, d.msgs, d.limit, H)
    BY <2>1, <2>3, <2>4
  <2> QED
    BY <2>5 DEF Enough, d
<1>5. CASE ~r.raised
  <2>1. ~c.raised /\ r.limit = DefaultLimit /\ n = DefaultLimit
    BY <1>5, RingParts
  <2>2. RoomForOne(r) = 0 /\ Push(r, m).msgs = Newest(Append(p, m), DefaultLimit)
    BY <1>5, PushUsual
  <2>3. Push(c, m).msgs = Newest(Append(q, m), DefaultLimit) /\ Push(c, m).limit = DefaultLimit
    BY <2>1, PushUsual
  <2>4. Grow(c, RoomForOne(r)) = c
    BY <2>2 DEF Grow
  <2>5. d.msgs = (IF m \in H THEN q ELSE Newest(Append(q, m), DefaultLimit)) /\ d.limit = DefaultLimit
    BY <2>1, <2>3, <2>4 DEF Taking
  <2>a. Len(p) <= DefaultLimit /\ Len(q) <= DefaultLimit /\ Serves(p, q, DefaultLimit, H)
    BY <1>1, <1>2, <2>1
  <2> DEFINE u == Newest(Append(p, m), DefaultLimit)
             a == Newest(Append(q, m), DefaultLimit)
             v == IF m \in H THEN q ELSE a
  <2> HIDE DEF p, q, n, d
  <2>6. u \in Seq(Nat) /\ Adds(p, m, DefaultLimit, u) /\ a \in Seq(Nat) /\ Adds(q, m, DefaultLimit, a)
    BY <1>1, <1>3, <2>a, NewestAppended
  <2> HIDE DEF u, a
  <2>7. v \in Seq(Nat) /\ (IF m \in H THEN v = q ELSE Adds(q, m, DefaultLimit, v))
    BY <1>1, <2>6
  <2> HIDE DEF v
  <2>8. DefaultLimit <= DefaultLimit /\ (DefaultLimit > DefaultLimit => Len(p) = DefaultLimit)
        /\ DefaultLimit \in Nat
    BY <1>1
  <2>9. Serves(u, v, DefaultLimit, H)
    BY ONLY <1>1, <1>2, <2>a, <2>6, <2>7, <2>8, AddServes
  <2>10. Serves(Push(r, m).msgs, d.msgs, d.limit, H)
    BY <2>2, <2>5, <2>9 DEF u, v, a
  <2> QED
    BY <2>10 DEF Enough, d
<1> QED
  BY <1>4, <1>5

\* A raised ring stays one, and full, when a message comes.
LEMMA SayFull ==
  ASSUME NEW M, M \subseteq Nat, NEW r, RingOk(r, M), NEW m \in M, RaisedFull(r)
  PROVE  RaisedFull(Push(r, m)) /\ Push(r, m).raised = r.raised
<1>1. r.raised \in BOOLEAN /\ r.msgs \in Seq(M) /\ Len(r.msgs) \in Nat /\ r.limit \in Nat
      /\ DefaultLimit \in Nat
  BY RingParts
<1>2. CASE r.raised
  <2>1. /\ Push(r, m).msgs = Append(r.msgs, m) /\ Push(r, m).limit = r.limit + 1
        /\ Push(r, m).raised = TRUE
    BY <1>2, PushRaised
  <2>2. Len(Append(r.msgs, m)) = Len(r.msgs) + 1
    BY <1>1
  <2>3. Len(r.msgs) = r.limit /\ r.limit > DefaultLimit
    BY <1>2 DEF RaisedFull
  <2>4. Len(Push(r, m).msgs) = Push(r, m).limit /\ Push(r, m).limit > DefaultLimit
    BY <1>1, <2>1, <2>2, <2>3
  <2> QED
    BY <1>1, <1>2, <2>1, <2>4 DEF RaisedFull
<1>3. CASE ~r.raised
  BY <1>1, <1>3, PushUsual DEF RaisedFull
<1> QED
  BY <1>2, <1>3

\* A channel serves itself.
LEMMA SelfServes ==
  ASSUME NEW p \in Seq(Nat), Ascends(p), NEW n
  PROVE  Serves(p, p, n, {})
<1>1. Len(p) \in Nat /\ DOMAIN p = 1 .. Len(p) /\ \A i \in 1 .. Len(p) : p[i] \in Nat
  BY InRange
<1>2. Same(p, p, {}, 0)
  BY DEF Same, Rising, Ascends
<1>3. Whole(p, p, n, {}, 0)
  BY <1>1 DEF Whole
<1> QED
  BY <1>2, <1>3 DEF Serves

\* What filling in takes of a ring and of a copy of it.
LEMMA FillServed ==
  ASSUME NEW M, M \subseteq Nat, NEW r, RingOk(r, M), NEW c, RingOk(c, M), NEW s \in Seq(M), NEW H,
         Ascends(s), Ascends(r.msgs), RaisedFull(r), Enough(r, c, H)
  PROVE  Served(FillIn(r, s).msgs, FillIn(c, Without(s, H)).msgs, r.limit, c.limit, H)
<1> DEFINE p == r.msgs
           q == c.msgs
           l == r.limit
           n == c.limit
           u == FillIn(r, s).msgs
           v == FillIn(c, Without(s, H)).msgs
<1>1. /\ p \in Seq(Nat) /\ q \in Seq(Nat) /\ l \in Nat /\ n \in Nat
      /\ Len(p) <= l /\ Len(q) <= n /\ DefaultLimit <= l /\ DefaultLimit <= n
  BY RingParts
<1>2. l > DefaultLimit => Len(p) = l
  <2>1. CASE r.raised
    BY <2>1 DEF RaisedFull
  <2>2. CASE ~r.raised
    <3>1. l = DefaultLimit /\ DefaultLimit \in Nat
      BY <2>2, RingParts
    <3> QED
      BY <3>1
  <2> QED
    BY <2>1, <2>2
<1>3. Ascends(p) /\ Serves(p, q, n, H)
  BY DEF Enough
<1>4. Served(p, q, l, n, H)
  BY <1>1, <1>2, <1>3 DEF Served
<1>5. Without(s, {}) = s
  <2>1. Range(s) \cap {} = {}
    OBVIOUS
  <2> QED
    BY <2>1, WithoutNothing
<1>6. Fillable(p, s, {}, l, u) # {}
  <2>1. Fillable(r.msgs, s, {}, r.limit, FillIn(r, Without(s, {})).msgs) # {}
    BY FillInFillable
  <2> QED
    BY <1>5, <2>1
<1>7. Fillable(q, s, H, n, v) # {}
  <2>1. Fillable(c.msgs, s, H, c.limit, FillIn(c, Without(s, H)).msgs) # {}
    BY FillInFillable
  <2> QED
    BY <2>1
<1>8. s \in Seq(Nat)
  BY SeqMonotonic
<1>9. u \in Seq(Nat) /\ v \in Seq(Nat)
  <2> DEFINE t == Without(s, H)
             g == FillIn(r, s)
             h == FillIn(c, t)
  <2>1. t \in Seq(M)
    BY WithoutMembers
  <2> HIDE DEF t
  <2>2. RingOk(g, M) /\ RingOk(h, M)
    BY <2>1, FillInFacts
  <2> HIDE DEF g, h
  <2>3. g.msgs \in Seq(Nat) /\ h.msgs \in Seq(Nat)
    BY <2>2, RingParts
  <2> QED
    BY <2>3 DEF g, h, t
<1> HIDE DEF p, q, l, n, u, v
<1>10. Served(u, v, l, n, H)
  BY ONLY <1>1, <1>4, <1>6, <1>7, <1>8, <1>9, FillServes
<1> QED
  BY <1>10 DEF u, v, l, n

\* The missed messages are filled into the ring, and into a copy as far as it has them.
LEMMA FillEnough ==
  ASSUME NEW M, M \subseteq Nat, NEW r, RingOk(r, M), NEW c, RingOk(c, M), NEW s \in Seq(M), NEW H,
         Ascends(s), Ascends(r.msgs), RaisedFull(r), Enough(r, c, H)
  PROVE  Enough(FillIn(r, s), FillIn(c, Without(s, H)), H)
<1> DEFINE t == Without(s, H)
<1>1. Served(FillIn(r, s).msgs, FillIn(c, t).msgs, r.limit, c.limit, H)
  BY FillServed
<1>2. t \in Seq(M)
  BY WithoutMembers
<1> HIDE DEF t
<1>3. FillIn(c, t).limit = c.limit
  BY <1>2, FillInFacts
<1>4. Enough(FillIn(r, s), FillIn(c, t), H)
  BY <1>1, <1>3 DEF Enough, Served
<1> QED
  BY <1>4 DEF t

\* A ring that is full stays full.
LEMMA FillFull ==
  ASSUME NEW M, M \subseteq Nat, NEW r, RingOk(r, M), NEW s \in Seq(M), Ascends(s),
         Ascends(r.msgs), RaisedFull(r)
  PROVE  RaisedFull(FillIn(r, s)) /\ FillIn(r, s).raised = r.raised
<1>1. FillIn(r, s).limit = r.limit /\ FillIn(r, s).raised = r.raised
  BY FillInFacts
<1>2. r.msgs \in Seq(Nat) /\ r.limit \in Nat
  BY RingParts
<1>3. Enough(r, r, {})
  <2> DEFINE p == r.msgs
             n == r.limit
  <2>1. p \in Seq(Nat) /\ Ascends(p)
    BY <1>2
  <2> HIDE DEF p, n
  <2>2. Serves(p, p, n, {})
    BY <2>1, SelfServes
  <2> QED
    BY <2>2 DEF Enough, p, n
<1>4. Served(FillIn(r, s).msgs, FillIn(r, Without(s, {})).msgs, r.limit, r.limit, {})
  BY <1>3, FillServed
<1>5. r.limit > DefaultLimit => Len(FillIn(r, s).msgs) = r.limit
  BY <1>4 DEF Served
<1> QED
  BY <1>1, <1>5 DEF RaisedFull

\* The limit of a ring is reset, and that of a copy if it was raised.
LEMMA ResetEnough ==
  ASSUME NEW M, M \subseteq Nat, NEW r, RingOk(r, M), NEW c, RingOk(c, M), NEW H,
         Ascends(r.msgs), RaisedFull(r), r.raised, Enough(r, c, H)
  PROVE  Enough(Reset(r), IF c.raised THEN Reset(c) ELSE c, H)
<1> DEFINE p == r.msgs
           q == c.msgs
           n == c.limit
           d == IF c.raised THEN Reset(c) ELSE c
<1>1. p \in Seq(Nat) /\ q \in Seq(Nat) /\ DefaultLimit \in Nat /\ r.limit \in Nat
  BY RingParts
<1>2. Len(p) >= DefaultLimit
  BY <1>1 DEF RaisedFull
<1>3. Ascends(p) /\ Serves(p, q, n, H)
  BY DEF Enough
<1>4. Reset(r).msgs = Newest(p, DefaultLimit)
  BY ResetFacts
<1>5. d.msgs = Newest(q, DefaultLimit) /\ d.limit = DefaultLimit
  <2>1. d = Reset(c)
    BY DEF Reset
  <2>2. Reset(c).msgs = Newest(q, DefaultLimit) /\ Reset(c).limit = DefaultLimit
    BY ResetFacts
  <2> QED
    BY <2>1, <2>2
<1> HIDE DEF p, q, n, d
<1>6. Serves(Newest(p, DefaultLimit), Newest(q, DefaultLimit), DefaultLimit, H)
  BY <1>1, <1>2, <1>3, ResetServes
<1>7. Enough(Reset(r), d, H)
  BY <1>4, <1>5, <1>6 DEF Enough
<1> QED
  BY <1>7 DEF d

\* By how much a limit grows for a page of the messages of s.
RoomFor(r, s) == Max({0, Len(s) - (r.limit - Len(r.msgs))})

\* A page fits into a ring whose limit grew, and the ring stays full when its limit is raised.
PagedWell(r, s, by) ==
  /\ by \in Nat /\ Len(s) - (r.limit - Len(r.msgs)) <= by
  /\ PushFront(Grow(r, by), s).msgs = s \o r.msgs
  /\ RaisedFull(PushFront(Grow(r, by), s))
  /\ PushFront(Grow(r, by), s).raised = (r.raised \/ by # 0)

\* What a page does to the limit.
LEMMA PagedFacts ==
  ASSUME NEW M, M \subseteq Nat, NEW r, RingOk(r, M), NEW s \in Seq(M), RaisedFull(r),
         NEW by, by = RoomFor(r, s)
  PROVE  PagedWell(r, s, by)
<1> DEFINE a == Len(s) - (r.limit - Len(r.msgs))
           h == Grow(r, by)
<1>0. M \subseteq Nat /\ RingOk(r, M) /\ s \in Seq(M) /\ RaisedFull(r)
  OBVIOUS
<1>1. /\ r.msgs \in Seq(M) /\ Len(r.msgs) \in Nat /\ r.limit \in Nat /\ Len(r.msgs) <= r.limit
      /\ DefaultLimit \in Nat /\ DefaultLimit <= r.limit /\ Len(s) \in Nat /\ r.raised \in BOOLEAN
  <2>1. Len(s) \in Nat
    BY ONLY <1>0
  <2> QED
    BY ONLY <1>0, <2>1, RingParts
<1>2. a \in Int /\ a = Len(s) - (r.limit - Len(r.msgs))
  BY <1>1
<1>3. by = Max({0, a})
  BY DEF RoomFor
<1> HIDE DEF a
<1>4. by = IF a > 0 THEN a ELSE 0
  BY <1>2, <1>3, MaxWithZero
<1>5. by \in Nat /\ a <= by
  BY <1>2, <1>4
<1>6. RingOk(h, M) /\ h.msgs = r.msgs /\ h.limit = r.limit + by /\ h.raised = (r.raised \/ by # 0)
  BY ONLY <1>0, <1>5, GrowFacts
<1> HIDE DEF h
<1>7. /\ PushFront(h, s).msgs = Fitting(h, s) \o h.msgs /\ PushFront(h, s).limit = h.limit
      /\ PushFront(h, s).raised = h.raised
  BY <1>6, PushFrontFacts
<1>8. Fitting(h, s) = s
  <2> DEFINE k == h.limit - Len(h.msgs)
  <2>1. Len(s) <= k
    BY <1>1, <1>2, <1>5, <1>6
  <2> HIDE DEF k
  <2>2. Newest(s, k) = s
    BY <2>1 DEF Newest
  <2> QED
    BY <2>2 DEF Fitting, k
<1>9. ASSUME r.raised \/ by # 0
      PROVE  Len(s \o r.msgs) = r.limit + by /\ r.limit + by > DefaultLimit
  <2>1. Len(s \o r.msgs) = Len(s) + Len(r.msgs)
    BY <1>1
  <2>2. CASE by # 0
    <3>1. by = Len(s) - (r.limit - Len(r.msgs)) /\ by > 0
      BY <1>2, <1>4, <2>2
    <3> QED
      BY <1>1, <1>5, <2>1, <3>1
  <2>3. CASE by = 0
    <3>1. Len(r.msgs) = r.limit /\ r.limit > DefaultLimit
      BY <1>9, <2>3 DEF RaisedFull
    <3>2. Len(s) = 0
      BY <1>1, <1>2, <1>5, <2>3, <3>1
    <3> QED
      BY <1>1, <2>1, <2>3, <3>1, <3>2
  <2> QED
    BY <2>2, <2>3
<1>10. RaisedFull(PushFront(h, s))
  BY <1>6, <1>7, <1>8, <1>9 DEF RaisedFull
<1> QED
  BY <1>2, <1>5, <1>6, <1>7, <1>8, <1>10 DEF h, PagedWell

\* A page of older messages reaches a copy as far as it includes them.
LEMMA PageEnough ==
  ASSUME NEW M, M \subseteq Nat, NEW r, RingOk(r, M), NEW c, RingOk(c, M), NEW s \in Seq(M), NEW H,
         Ascends(s), Ascends(r.msgs), \A x \in Range(s), y \in Range(r.msgs) : x < y,
         RaisedFull(r), c.raised => r.raised, Enough(r, c, H),
         NEW by, by = RoomFor(r, s)
  PROVE  Enough(PushFront(Grow(r, by), s), PushFront(Grow(c, by), Without(s, H)), H)
<1> DEFINE p == r.msgs
           q == c.msgs
           l == r.limit
           n == c.limit
           t == Without(s, H)
           g == Grow(c, by)
<1>1. /\ p \in Seq(Nat) /\ q \in Seq(Nat) /\ l \in Nat /\ n \in Nat
      /\ Len(p) <= l /\ Len(q) <= n /\ s \in Seq(Nat)
  BY RingParts, SeqMonotonic
<1>0. /\ M \subseteq Nat /\ RingOk(r, M) /\ RingOk(c, M) /\ s \in Seq(M) /\ RaisedFull(r)
      /\ by = RoomFor(r, s)
  OBVIOUS
<1>2. by \in Nat /\ Len(s) - (l - Len(p)) <= by /\ PushFront(Grow(r, by), s).msgs = s \o p
  <2>1. PagedWell(r, s, by)
    BY ONLY <1>0, PagedFacts
  <2> QED
    BY ONLY <2>1 DEF PagedWell
<1>3. Ascends(p) /\ Serves(p, q, n, H) /\ \A x \in Range(s), y \in Range(p) : x < y
  BY DEF Enough
<1>4. Len(p) = l \/ (l = DefaultLimit /\ n = DefaultLimit)
  <2>1. CASE r.raised
    BY <2>1 DEF RaisedFull
  <2>2. CASE ~r.raised
    BY <2>2, RingParts
  <2> QED
    BY <2>1, <2>2
<1>5. RingOk(g, M) /\ g.msgs = q /\ g.limit = n + by
  BY <1>2, GrowFacts
<1>6. t \in Seq(M)
  BY WithoutMembers
<1> HIDE DEF t, g
<1>7. PushFront(g, t).msgs = Fitting(g, t) \o g.msgs /\ PushFront(g, t).limit = g.limit
  BY ONLY <1>0, <1>5, <1>6, PushFrontFacts
<1>8. PushFront(g, t).msgs = Newest(t, n + by - Len(q)) \o q /\ PushFront(g, t).limit = n + by
  <2> HIDE DEF q, n
  <2>1. Fitting(g, t) = Newest(t, g.limit - Len(g.msgs))
    BY DEF Fitting
  <2>2. g.limit - Len(g.msgs) = n + by - Len(q)
    <3>1. n \in Nat /\ Len(q) \in Nat /\ by \in Nat
      BY <1>1, <1>2
    <3> QED
      BY ONLY <1>5, <3>1
  <2> QED
    BY ONLY <1>5, <1>7, <2>1, <2>2
<1> HIDE DEF p, q, l, n
<1>9. Serves(s \o p, Newest(Without(s, H), n + by - Len(q)) \o q, n + by, H)
  <2>1. Ascends(s)
    OBVIOUS
  <2> QED
    BY ONLY <1>1, <1>2, <1>3, <1>4, <2>1, PageServes
<1>10. Enough(PushFront(Grow(r, by), s), PushFront(g, t), H)
  BY <1>2, <1>8, <1>9 DEF Enough, t
<1> QED
  BY <1>10 DEF g, t
================================================================================
