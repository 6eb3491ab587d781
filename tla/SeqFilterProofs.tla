--------------------------- MODULE SeqFilterProofs ---------------------------
(***************************************************************************)
(* What a filtered list holds, for every list.  Recursive definitions are  *)
(* reasoned about through the least number that would be an exception.     *)
(***************************************************************************)
EXTENDS SeqFilter, SequencesExt, SequenceTheorems, FiniteSetTheorems, WellFoundedInduction, TLAPS

\* The library's order on the naturals is the order.
LEMMA LessIsRelated == \A x, y \in Nat : y < x => <<y, x>> \in OpToRel(<, Nat)
  BY Zenon DEF OpToRel

\* A set of naturals that is not empty has a least element.
LEMMA LeastNatural ==
    ASSUME NEW T, T \subseteq Nat, T # {}
    PROVE  \E x \in T : \A y \in T : x <= y
  <1>1. PICK x \in T : \A y \in T : ~ (<<y, x>> \in OpToRel(<, Nat))
    BY WFMin, NatLessThanWellFounded, Zenon
  <1>2. \A y \in T : ~(y < x)
    BY <1>1, LessIsRelated, Zenon
  <1>3. QED
    BY <1>2

\* Induction up to a number: a set that holds 0, and every number up to N with
\* the one before it, holds them all.
LEMMA UpTo ==
    ASSUME NEW N \in Nat, NEW T, 0 \in T, \A n \in 1..N : n - 1 \in T => n \in T
    PROVE  0..N \subseteq T
  <1>1. SUFFICES ASSUME {n \in 0..N : n \notin T} # {} PROVE FALSE
    OBVIOUS
  <1>2. PICK x \in {n \in 0..N : n \notin T} : \A y \in {n \in 0..N : n \notin T} : x <= y
    <2>1. {n \in 0..N : n \notin T} \subseteq Nat
      OBVIOUS
    <2>2. QED
      BY <1>1, <2>1, LeastNatural, Zenon
  <1>3. x \in 1..N /\ x - 1 \in 0..N
    BY <1>2
  <1>4. x - 1 \in T
    BY <1>2, <1>3
  <1>5. QED
    BY <1>2, <1>3, <1>4

\* One step of the function that Among is made of.
Picks(f, s, S, n) == IF s[n] \in S THEN Append(f[n - 1], s[n]) ELSE f[n - 1]

\* The recursive function that Among is made of exists.
LEMMA AmongDefined ==
    ASSUME NEW X, NEW s \in Seq(X), NEW S
    PROVE  \E f : /\ f[0] = <<>> /\ \A n \in 1..Len(s) : f[n] = Picks(f, s, S, n)
                  /\ Among(s, S) = f[Len(s)]
  <1> DEFINE Fits(f, m) == f = [n \in 0..m |-> IF n = 0 THEN <<>>
                                 ELSE IF s[n] \in S THEN Append(f[n - 1], s[n]) ELSE f[n - 1]]
             T == {m \in 0..Len(s) : \E f : Fits(f, m)}
  <1>1. Len(s) \in Nat
    OBVIOUS
  <1>2. 0 \in T
    <2>1. Fits([n \in 0..0 |-> <<>>], 0)
      OBVIOUS
    <2> HIDE DEF Fits
    <2>2. QED
      BY <1>1, <2>1
  <1>3. ASSUME NEW m \in 1..Len(s), m - 1 \in T
        PROVE  m \in T
    <2>1. PICK f : Fits(f, m - 1)
      BY <1>3
    <2> DEFINE g == [n \in 0..m |-> IF n < m THEN f[n] ELSE
                        IF s[n] \in S THEN Append(f[n - 1], s[n]) ELSE f[n - 1]]
    <2>2. ASSUME NEW n \in 0..m
          PROVE  g[n] = IF n = 0 THEN <<>>
                        ELSE IF s[n] \in S THEN Append(g[n - 1], s[n]) ELSE g[n - 1]
      <3>1. CASE n < m
        <4>1. n \in 0..m - 1 /\ (n # 0 => n - 1 \in 0..m - 1)
          BY <3>1
        <4>2. f[n] = IF n = 0 THEN <<>>
                     ELSE IF s[n] \in S THEN Append(f[n - 1], s[n]) ELSE f[n - 1]
          BY <2>1, <4>1
        <4>3. g[n] = f[n] /\ (n # 0 => g[n - 1] = f[n - 1])
          BY <3>1, <4>1
        <4>4. QED
          BY <4>2, <4>3
      <3>2. CASE n = m
        <4>1. g[m - 1] = f[m - 1]
          OBVIOUS
        <4>2. QED
          BY <3>2, <4>1
      <3>3. QED
        BY <3>1, <3>2
    <2>3. Fits(g, m)
      BY <2>2
    <2> HIDE DEF Fits, g
    <2>4. QED
      BY <2>3
  <1>4. Len(s) \in T
    <2>1. 0..Len(s) \subseteq T
      <3> HIDE DEF T
      <3> QED BY <1>1, <1>2, <1>3, UpTo
    <2> HIDE DEF T
    <2>2. QED
      BY <2>1, <1>1
  <1> DEFINE F == CHOOSE f : Fits(f, Len(s))
  <1>5. Fits(F, Len(s))
    BY <1>4
  <1>6. Among(s, S) = F[Len(s)]
    BY DEF Among
  <1>7. F[0] = <<>> /\ \A n \in 1..Len(s) : F[n] = Picks(F, s, S, n)
    <2> HIDE DEF F
    <2> DEFINE G == [n \in 0..Len(s) |-> IF n = 0 THEN <<>>
                       ELSE IF s[n] \in S THEN Append(F[n - 1], s[n]) ELSE F[n - 1]]
    <2>1. F = G
      BY <1>5
    <2>2. G[0] = <<>> /\ \A n \in 1..Len(s) : G[n] = Picks(F, s, S, n)
      BY <1>1 DEF Picks
    <2> HIDE DEF G
    <2>3. QED
      BY <2>1, <2>2
  <1>8. QED
    BY <1>6, <1>7

\* What list b took from list s is in the order s has it.
KeepsOrder(b, s) ==
    \A i, j \in 1..Len(b) : i < j => \E k, l \in 1..Len(s) : k < l /\ s[k] = b[i] /\ s[l] = b[j]

\* A list comprehension returns the elements that meet its condition, all of
\* them and no other, in the order they had.
THEOREM AmongProperties ==
    ASSUME NEW X, NEW s \in Seq(X), NEW S
    PROVE  /\ Among(s, S) \in Seq(X)
           /\ Len(Among(s, S)) <= Len(s)
           /\ \A i \in 1..Len(Among(s, S)) : Among(s, S)[i] \in S
           /\ \A k \in 1..Len(s) : s[k] \in S => \E i \in 1..Len(Among(s, S)) : Among(s, S)[i] = s[k]
           /\ \A i \in 1..Len(Among(s, S)) : \E k \in 1..Len(s) : s[k] = Among(s, S)[i]
           /\ KeepsOrder(Among(s, S), s)
  <1>1. PICK f : /\ f[0] = <<>> /\ \A n \in 1..Len(s) : f[n] = Picks(f, s, S, n)
                 /\ Among(s, S) = f[Len(s)]
    BY AmongDefined
  <1> DEFINE Typed(n)  == f[n] \in Seq(X) /\ Len(f[n]) <= n
             Picked(n) == \A i \in 1..Len(f[n]) : f[n][i] \in S /\ \E k \in 1..n : s[k] = f[n][i]
             Whole(n)  == \A k \in 1..n : s[k] \in S => \E i \in 1..Len(f[n]) : f[n][i] = s[k]
             Sorted(n) == \A i, j \in 1..Len(f[n]) : i < j =>
                            \E k, l \in 1..n : k < l /\ s[k] = f[n][i] /\ s[l] = f[n][j]
             T == {n \in 0..Len(s) : Typed(n) /\ Picked(n) /\ Whole(n) /\ Sorted(n)}
  <1>2. Len(s) \in Nat
    OBVIOUS
  <1>3. 0 \in T
    <2>1. f[0] \in Seq(X) /\ Len(f[0]) = 0
      BY <1>1
    <2>2. QED
      BY <1>2, <2>1
  <1>4. ASSUME NEW n \in 1..Len(s), n - 1 \in T
        PROVE  n \in T
    <2>1. n - 1 \in Nat /\ Typed(n - 1) /\ Picked(n - 1) /\ Whole(n - 1) /\ Sorted(n - 1) /\ s[n] \in X
      BY <1>4
    <2>2. CASE s[n] \notin S
      <3>1. f[n] = f[n - 1]
        BY <1>1, <2>2 DEF Picks
      <3>2. Typed(n) /\ Picked(n) /\ Whole(n)
        BY <2>1, <2>2, <3>1
      <3>3. Sorted(n)
        BY <2>1, <3>1
      <3>4. QED
        BY <3>2, <3>3
    <2>3. CASE s[n] \in S
      <3>1. f[n] = Append(f[n - 1], s[n])
        BY <1>1, <2>3 DEF Picks
      <3>2. /\ f[n] \in Seq(X) /\ Len(f[n]) = Len(f[n - 1]) + 1 /\ Len(f[n - 1]) \in Nat
            /\ \A i \in 1..Len(f[n - 1]) : f[n][i] = f[n - 1][i]
            /\ f[n][Len(f[n - 1]) + 1] = s[n]
        BY <2>1, <3>1
      <3> HIDE <3>1
      <3>3. Typed(n)
        BY <2>1, <3>2
      <3>4. Picked(n)
        <4> SUFFICES ASSUME NEW i \in 1..Len(f[n])
                     PROVE  f[n][i] \in S /\ \E k \in 1..n : s[k] = f[n][i]
          OBVIOUS
        <4>1. CASE i \in 1..Len(f[n - 1])
          <5>1. f[n][i] = f[n - 1][i] /\ f[n - 1][i] \in S
            BY <2>1, <3>2, <4>1
          <5>2. PICK k \in 1..n - 1 : s[k] = f[n - 1][i]
            BY <2>1, <4>1
          <5>3. k \in 1..n
            BY <2>1
          <5>4. QED
            BY <5>1, <5>2, <5>3
        <4>2. CASE i = Len(f[n - 1]) + 1
          <5>1. n \in 1..n
            BY <2>1
          <5>2. QED
            BY <2>3, <3>2, <4>2, <5>1
        <4>3. QED
          BY <3>2, <4>1, <4>2
      <3>5. Whole(n)
        <4> SUFFICES ASSUME NEW k \in 1..n, s[k] \in S
                     PROVE  \E i \in 1..Len(f[n]) : f[n][i] = s[k]
          OBVIOUS
        <4>1. CASE k = n
          <5>1. Len(f[n - 1]) + 1 \in 1..Len(f[n])
            BY <3>2
          <5>2. QED
            BY <3>2, <4>1, <5>1
        <4>2. CASE k \in 1..n - 1
          <5>1. PICK i \in 1..Len(f[n - 1]) : f[n - 1][i] = s[k]
            BY <2>1, <4>2
          <5>2. i \in 1..Len(f[n]) /\ f[n][i] = s[k]
            BY <3>2, <5>1
          <5>3. QED
            BY <5>2
        <4>3. QED
          BY <2>1, <4>1, <4>2
      <3>6. Sorted(n)
        <4> SUFFICES ASSUME NEW i \in 1..Len(f[n]), NEW j \in 1..Len(f[n]), i < j
                     PROVE  \E k, l \in 1..n : k < l /\ s[k] = f[n][i] /\ s[l] = f[n][j]
          OBVIOUS
        <4>1. i \in 1..Len(f[n - 1]) /\ f[n][i] = f[n - 1][i]
          BY SMTT(30), <3>2
        <4>2. CASE j \in 1..Len(f[n - 1])
          <5>1. f[n][j] = f[n - 1][j]
            BY <3>2, <4>2
          <5>2. PICK k \in 1..n - 1, l \in 1..n - 1 : k < l /\ s[k] = f[n - 1][i] /\ s[l] = f[n - 1][j]
            BY <2>1, <4>1, <4>2
          <5>3. k \in 1..n /\ l \in 1..n
            BY <2>1
          <5>4. QED
            BY <4>1, <5>1, <5>2, <5>3
        <4>3. CASE j = Len(f[n - 1]) + 1
          <5>1. PICK k \in 1..n - 1 : s[k] = f[n - 1][i]
            BY <2>1, <4>1
          <5>2. k \in 1..n /\ n \in 1..n /\ k < n /\ f[n][j] = s[n]
            BY <2>1, <3>2, <4>3
          <5>3. QED
            BY <4>1, <5>1, <5>2
        <4>4. QED
          BY <3>2, <4>2, <4>3
      <3>7. QED
        BY <3>3, <3>4, <3>5, <3>6
    <2>4. QED
      BY <2>2, <2>3
  <1>5. Len(s) \in T
    <2>1. 0..Len(s) \subseteq T
      <3> HIDE DEF T
      <3> QED BY <1>2, <1>3, <1>4, UpTo
    <2> HIDE DEF T
    <2>2. QED
      BY <1>2, <2>1
  <1>6. Typed(Len(s)) /\ Picked(Len(s)) /\ Whole(Len(s)) /\ Sorted(Len(s))
    BY <1>5
  <1> HIDE DEF T
  <1>7. KeepsOrder(Among(s, S), s)
    BY <1>1, <1>6 DEF KeepsOrder
  <1>8. QED
    BY <1>1, <1>6, <1>7

\* What a list holds once is returned once.
THEOREM AmongInjective ==
    ASSUME NEW X, NEW s \in Seq(X), NEW S, \A k, l \in 1..Len(s) : s[k] = s[l] => k = l
    PROVE  \A i, j \in 1..Len(Among(s, S)) : Among(s, S)[i] = Among(s, S)[j] => i = j
  <1>1. ASSUME NEW i \in 1..Len(Among(s, S)), NEW j \in 1..Len(Among(s, S)), i < j
        PROVE  Among(s, S)[i] # Among(s, S)[j]
    <2>1. PICK k, l \in 1..Len(s) : k < l /\ s[k] = Among(s, S)[i] /\ s[l] = Among(s, S)[j]
      <3>1. KeepsOrder(Among(s, S), s)
        BY AmongProperties
      <3>2. QED
        BY <1>1, <3>1 DEF KeepsOrder
    <2>2. QED
      BY <2>1
  <1>2. Len(Among(s, S)) \in Nat
    BY AmongProperties
  <1>3. ASSUME NEW i \in 1..Len(Among(s, S)), NEW j \in 1..Len(Among(s, S)), i # j
        PROVE  i < j \/ j < i
    BY <1>2, <1>3
  <1>4. QED
    BY <1>1, <1>3
-----------------------------------------------------------------------------
(***************************************************************************)
(* Lists and the sets of their elements                                    *)
(***************************************************************************)

LEMMA DomainOf == ASSUME NEW X, NEW s \in Seq(X) PROVE DOMAIN s = 1..Len(s) /\ Len(s) \in Nat
  OBVIOUS

\* What is left of a list is in the order it had.
LEMMA AmongOrder ==
    ASSUME NEW X, NEW s \in Seq(X), NEW S
    PROVE  \A i, j \in 1..Len(Among(s, S)) : i < j =>
             \E k, l \in 1..Len(s) : k < l /\ s[k] = Among(s, S)[i] /\ s[l] = Among(s, S)[j]
  <1>1. KeepsOrder(Among(s, S), s)
    BY AmongProperties
  <1>2. QED
    BY <1>1, Zenon DEF KeepsOrder

\* The elements of a list that are in a set.
LEMMA AmongSet ==
    ASSUME NEW X, NEW s \in Seq(X), NEW S
    PROVE  ToSet(Among(s, S)) = ToSet(s) \cap S
  <1>1. Among(s, S) \in Seq(X)
    BY AmongProperties
  <1>2. DOMAIN Among(s, S) = 1..Len(Among(s, S)) /\ DOMAIN s = 1..Len(s)
    BY <1>1
  <1>3. \A i \in 1..Len(Among(s, S)) : Among(s, S)[i] \in S
    BY AmongProperties
  <1>4. \A k \in 1..Len(s) : s[k] \in S => \E i \in 1..Len(Among(s, S)) : Among(s, S)[i] = s[k]
    BY AmongProperties
  <1>5. \A i \in 1..Len(Among(s, S)) : \E k \in 1..Len(s) : s[k] = Among(s, S)[i]
    BY AmongProperties
  <1> DEFINE a == Among(s, S)
  <1>6. a = Among(s, S)
    OBVIOUS
  <1> HIDE DEF a
  <1>7. /\ DOMAIN a = 1..Len(a) /\ DOMAIN s = 1..Len(s)
        /\ \A i \in 1..Len(a) : a[i] \in S /\ \E k \in 1..Len(s) : s[k] = a[i]
        /\ \A k \in 1..Len(s) : s[k] \in S => \E i \in 1..Len(a) : a[i] = s[k]
    BY <1>2, <1>3, <1>4, <1>5, <1>6
  <1>8. ToSet(a) = ToSet(s) \cap S
    <2>1. ASSUME NEW x \in ToSet(a) PROVE x \in ToSet(s) /\ x \in S
      <3>1. PICK i \in 1..Len(a) : x = a[i]
        BY <1>7, <2>1 DEF ToSet
      <3>2. PICK k \in 1..Len(s) : s[k] = x
        BY <1>7, <3>1
      <3>3. QED
        BY <1>7, <3>1, <3>2 DEF ToSet
    <2>2. ASSUME NEW x \in ToSet(s), x \in S PROVE x \in ToSet(a)
      <3>1. PICK k \in 1..Len(s) : x = s[k]
        BY <1>7, <2>2 DEF ToSet
      <3>2. PICK i \in 1..Len(a) : a[i] = x
        BY <1>7, <2>2, <3>1
      <3>3. QED
        BY <1>7, <3>2 DEF ToSet
    <2>3. QED
      BY <2>1, <2>2
  <1>9. QED
    BY <1>6, <1>8

\* A list of elements of X holds elements of X.
LEMMA ListSet ==
    ASSUME NEW X, NEW s \in Seq(X)
    PROVE  ToSet(s) \subseteq X /\ (\A i \in 1..Len(s) : s[i] \in ToSet(s)) /\ DOMAIN s = 1..Len(s)
  <1>1. DOMAIN s = 1..Len(s) /\ \A i \in 1..Len(s) : s[i] \in X
    OBVIOUS
  <1>2. QED
    BY <1>1 DEF ToSet

LEMMA ListMember ==
    ASSUME NEW X, NEW s \in Seq(X), NEW x \in ToSet(s)
    PROVE  \E n \in 1..Len(s) : x = s[n]
  <1>1. DOMAIN s = 1..Len(s)
    OBVIOUS
  <1>2. QED
    BY <1>1 DEF ToSet

\* A list holds finitely many elements.
LEMMA ListFinite == ASSUME NEW X, NEW s \in Seq(X) PROVE IsFiniteSet(ToSet(s))
  <1> DEFINE f == [i \in 1..Len(s) |-> s[i]]
  <1>1. Len(s) \in Nat /\ DOMAIN s = 1..Len(s)
    OBVIOUS
  <1>2. f \in Surjection(1..Len(s), ToSet(s))
    BY <1>1 DEF Surjection, ToSet
  <1>3. IsFiniteSet(1..Len(s))
    BY <1>1, FS_Interval
  <1>4. QED
    BY <1>2, <1>3, FS_Surjection

\* A list written as a function.
LEMMA WrittenOut ==
    ASSUME NEW X, NEW n \in Nat, NEW s, s = [k \in 1..n |-> s[k]], \A k \in 1..n : s[k] \in X
    PROVE  s \in Seq(X) /\ Len(s) = n /\ DOMAIN s = 1..n
  <1>1. s \in [1..n -> X]
    OBVIOUS
  <1>2. QED
    BY <1>1

\* The beginning of a list.
LEMMA Beginning ==
    ASSUME NEW X, NEW s \in Seq(X), NEW n \in Nat, n <= Len(s)
    PROVE  /\ SubSeq(s, 1, n) \in Seq(X) /\ Len(SubSeq(s, 1, n)) = n
           /\ \A k \in 1..n : SubSeq(s, 1, n)[k] = s[k]
           /\ ToSet(SubSeq(s, 1, n)) \subseteq ToSet(s)
  <1>1. /\ SubSeq(s, 1, n) \in Seq(X) /\ Len(SubSeq(s, 1, n)) = n
        /\ \A k \in 1..n : SubSeq(s, 1, n)[k] = s[k]
    OBVIOUS
  <1>2. DOMAIN SubSeq(s, 1, n) = 1..n /\ 1..n \subseteq 1..Len(s) /\ DOMAIN s = 1..Len(s)
    BY <1>1
  <1>3. QED
    BY <1>1, <1>2 DEF ToSet

\* The rest of a list.
LEMMA RestOfList ==
    ASSUME NEW X, NEW s \in Seq(X), s # <<>>
    PROVE  /\ Head(s) \in X /\ Head(s) = s[1] /\ Len(s) \in Nat \ {0}
           /\ Tail(s) \in Seq(X) /\ Len(Tail(s)) = Len(s) - 1
           /\ \A k \in 1..Len(s) - 1 : Tail(s)[k] = s[k + 1]
           /\ ToSet(Tail(s)) \subseteq ToSet(s)
  <1>1. /\ Head(s) \in X /\ Head(s) = s[1] /\ Len(s) \in Nat \ {0}
        /\ Tail(s) \in Seq(X) /\ Len(Tail(s)) = Len(s) - 1
        /\ \A k \in 1..Len(s) - 1 : Tail(s)[k] = s[k + 1]
    OBVIOUS
  <1>2. DOMAIN Tail(s) = 1..Len(s) - 1 /\ DOMAIN s = 1..Len(s)
    BY <1>1
  <1>3. \A k \in 1..Len(s) - 1 : k + 1 \in 1..Len(s)
    BY <1>1
  <1>4. QED
    BY <1>1, <1>2, <1>3 DEF ToSet

\* A list with one element more.
LEMMA OneMore ==
    ASSUME NEW X, NEW s \in Seq(X), NEW x \in X
    PROVE  /\ Append(s, x) \in Seq(X) /\ Len(Append(s, x)) = Len(s) + 1
           /\ Append(s, x)[Len(s) + 1] = x
           /\ \A k \in 1..Len(s) : Append(s, x)[k] = s[k]
           /\ ToSet(Append(s, x)) = ToSet(s) \cup {x}
  <1>1. /\ Append(s, x) \in Seq(X) /\ Len(Append(s, x)) = Len(s) + 1
        /\ Append(s, x)[Len(s) + 1] = x
        /\ \A k \in 1..Len(s) : Append(s, x)[k] = s[k]
    OBVIOUS
  <1>2. DOMAIN Append(s, x) = 1..Len(s) + 1 /\ DOMAIN s = 1..Len(s) /\ Len(s) \in Nat
    BY <1>1
  <1>3. 1..Len(s) + 1 = 1..Len(s) \cup {Len(s) + 1}
    BY <1>2
  <1>4. QED
    BY <1>1, <1>2, <1>3 DEF ToSet
-----------------------------------------------------------------------------
(***************************************************************************)
(* Filtering lists that are put together, and filtering twice              *)
(***************************************************************************)

\* The intermediate lists are lists of the same elements.
LEMMA AmongSteps ==
    ASSUME NEW X, NEW s \in Seq(X), NEW S
    PROVE  \E f : /\ f[0] = <<>> /\ \A n \in 1..Len(s) : f[n] = Picks(f, s, S, n)
                  /\ \A n \in 0..Len(s) : f[n] \in Seq(X)
                  /\ Among(s, S) = f[Len(s)]
  <1>1. PICK f : /\ f[0] = <<>> /\ \A n \in 1..Len(s) : f[n] = Picks(f, s, S, n)
                 /\ Among(s, S) = f[Len(s)]
    BY AmongDefined
  <1> DEFINE T == {n \in 0..Len(s) : f[n] \in Seq(X)}
  <1>2. Len(s) \in Nat
    OBVIOUS
  <1>3. 0 \in T
    <2>1. f[0] \in Seq(X)
      BY <1>1
    <2>2. QED
      BY <1>2, <2>1
  <1>4. ASSUME NEW n \in 1..Len(s), n - 1 \in T PROVE n \in T
    <2>1. f[n - 1] \in Seq(X) /\ s[n] \in X
      BY <1>4
    <2>2. f[n] = IF s[n] \in S THEN Append(f[n - 1], s[n]) ELSE f[n - 1]
      BY <1>1 DEF Picks
    <2>3. f[n] \in Seq(X)
      <3> HIDE DEF T
      <3> QED BY <2>1, <2>2
    <2>4. QED
      BY <1>2, <2>3
  <1>5. \A n \in 0..Len(s) : f[n] \in Seq(X)
    <2>1. 0..Len(s) \subseteq T
      <3> HIDE DEF T
      <3> QED BY <1>2, <1>3, <1>4, UpTo
    <2>2. QED
      BY <2>1
  <1>6. QED
    BY <1>1, <1>5

\* The steps determine the result.
LEMMA AmongIs ==
    ASSUME NEW X, NEW s \in Seq(X), NEW S, NEW f, f[0] = <<>>,
           \A n \in 1..Len(s) : f[n] = Picks(f, s, S, n)
    PROVE  Among(s, S) = f[Len(s)]
  <1>1. PICK g : /\ g[0] = <<>> /\ \A n \in 1..Len(s) : g[n] = Picks(g, s, S, n)
                 /\ Among(s, S) = g[Len(s)]
    BY AmongDefined
  <1> DEFINE T == {n \in 0..Len(s) : f[n] = g[n]}
  <1>2. Len(s) \in Nat
    OBVIOUS
  <1>3. 0 \in T
    BY <1>1, <1>2
  <1>4. ASSUME NEW n \in 1..Len(s), n - 1 \in T PROVE n \in T
    <2>1. f[n - 1] = g[n - 1] /\ n \in 0..Len(s)
      BY <1>2, <1>4
    <2>2. f[n] = g[n]
      BY <1>1, <2>1 DEF Picks
    <2>3. QED
      BY <2>1, <2>2
  <1>5. 0..Len(s) \subseteq T
    <2> HIDE DEF T
    <2> QED BY <1>2, <1>3, <1>4, UpTo
  <1>6. QED
    BY <1>1, <1>2, <1>5

LEMMA JoinAppend ==
    ASSUME NEW X, NEW a \in Seq(X), NEW b \in Seq(X), NEW x \in X
    PROVE  a \o Append(b, x) = Append(a \o b, x)
  <1> DEFINE c == Append(b, x)
             d == a \o b
             l == a \o c
             r == Append(d, x)
  <1>1. /\ c \in Seq(X) /\ Len(c) = Len(b) + 1 /\ c[Len(b) + 1] = x
        /\ \A k \in 1..Len(b) : c[k] = b[k]
        /\ Len(a) \in Nat /\ Len(b) \in Nat
    OBVIOUS
  <1>2. /\ d \in Seq(X) /\ Len(d) = Len(a) + Len(b)
        /\ \A k \in 1..Len(a) + Len(b) : d[k] = IF k <= Len(a) THEN a[k] ELSE b[k - Len(a)]
    BY ConcatProperties
  <1> HIDE DEF c, d
  <1>3. /\ l \in Seq(X) /\ Len(l) = Len(a) + Len(c)
        /\ \A k \in 1..Len(a) + Len(c) : l[k] = IF k <= Len(a) THEN a[k] ELSE c[k - Len(a)]
    BY <1>1, ConcatProperties
  <1>4. /\ r \in Seq(X) /\ Len(r) = Len(d) + 1 /\ r[Len(d) + 1] = x
        /\ \A k \in 1..Len(d) : r[k] = d[k]
    BY <1>2
  <1> HIDE DEF l, r
  <1>5. ASSUME NEW k \in 1..Len(a) + Len(b) + 1 PROVE l[k] = r[k]
    <2>1. CASE k <= Len(a)
      BY <1>1, <1>2, <1>3, <1>4, <2>1
    <2>2. CASE k = Len(a) + Len(b) + 1
      <3>1. l[k] = c[k - Len(a)] /\ k - Len(a) = Len(b) + 1
        BY <1>1, <1>3, <2>2
      <3>2. r[k] = x
        BY <1>2, <1>4, <2>2
      <3>3. QED
        BY <1>1, <3>1, <3>2
    <2>3. CASE ~(k <= Len(a)) /\ k # Len(a) + Len(b) + 1
      <3>1. Len(a) \in Nat /\ Len(b) \in Nat /\ Len(c) = Len(b) + 1 /\ Len(d) = Len(a) + Len(b)
        BY <1>1, <1>2
      <3> DEFINE m == Len(a)
                 n == Len(b)
      <3>2. m \in Nat /\ n \in Nat /\ k \in 1..m + n + 1 /\ ~(k <= m) /\ k # m + n + 1
        BY <2>3, <3>1
      <3> HIDE DEF m, n
      <3>3. k - m \in 1..n /\ k \in 1..m + n /\ k \in 1..m + (n + 1)
        BY <3>2
      <3>4. l[k] = c[k - Len(a)] /\ k - Len(a) \in 1..Len(b)
        BY <1>3, <2>3, <3>1, <3>3 DEF m, n
      <3>5. k \in 1..Len(d)
        BY <3>1, <3>3 DEF m, n
      <3>6. r[k] = b[k - Len(a)]
        BY <1>2, <1>4, <2>3, <3>5
      <3>7. QED
        BY <1>1, <3>4, <3>6
    <2>4. QED
      BY <2>1, <2>2, <2>3
  <1>6. l = r
    <2>1. l \in Seq(X) /\ r \in Seq(X) /\ Len(l) = Len(a) + Len(b) + 1 /\ Len(r) = Len(l)
      BY <1>1, <1>2, <1>3, <1>4
    <2>2. QED
      BY <1>5, <2>1, SeqEqual
  <1>7. QED
    BY <1>6 DEF l, r, c, d

\* Filtering two lists joined is joining the two lists filtered.
LEMMA AmongConcat ==
    ASSUME NEW X, NEW s \in Seq(X), NEW t \in Seq(X), NEW S
    PROVE  Among(s \o t, S) = Among(s, S) \o Among(t, S)
  <1>1. PICK f : /\ f[0] = <<>> /\ \A n \in 1..Len(s) : f[n] = Picks(f, s, S, n)
                 /\ \A n \in 0..Len(s) : f[n] \in Seq(X)
                 /\ Among(s, S) = f[Len(s)]
    BY AmongSteps
  <1>2. PICK g : /\ g[0] = <<>> /\ \A n \in 1..Len(t) : g[n] = Picks(g, t, S, n)
                 /\ \A n \in 0..Len(t) : g[n] \in Seq(X)
                 /\ Among(t, S) = g[Len(t)]
    BY AmongSteps
  <1>3. /\ Len(s) \in Nat /\ Len(t) \in Nat
        /\ s \o t \in Seq(X) /\ Len(s \o t) = Len(s) + Len(t)
        /\ \A n \in 1..Len(s) + Len(t) :
             (s \o t)[n] = IF n <= Len(s) THEN s[n] ELSE t[n - Len(s)]
    BY ConcatProperties
  <1> DEFINE u == s \o t
             h == [n \in 0..Len(s) + Len(t) |->
                     IF n <= Len(s) THEN f[n] ELSE f[Len(s)] \o g[n - Len(s)]]
  <1>4. /\ u \in Seq(X) /\ Len(u) = Len(s) + Len(t)
        /\ \A n \in 1..Len(u) : u[n] = IF n <= Len(s) THEN s[n] ELSE t[n - Len(s)]
    BY <1>3
  <1>5. \A n \in 0..Len(s) + Len(t) :
          h[n] = IF n <= Len(s) THEN f[n] ELSE f[Len(s)] \o g[n - Len(s)]
    OBVIOUS
  <1> HIDE DEF u, h
  <1>6. ASSUME NEW n \in 1..Len(u) PROVE h[n] = Picks(h, u, S, n)
    <2>1. CASE n <= Len(s)
      <3>1. n \in 1..Len(s) /\ n - 1 \in 0..Len(s) + Len(t) /\ n - 1 <= Len(s) /\ n \in 0..Len(s) + Len(t)
        BY <1>3, <1>4, <2>1
      <3>2. h[n] = f[n] /\ h[n - 1] = f[n - 1] /\ u[n] = s[n]
        BY <1>4, <1>5, <2>1, <3>1
      <3>3. QED
        BY <1>1, <3>1, <3>2 DEF Picks
    <2>2. CASE ~(n <= Len(s))
      <3> DEFINE m == n - Len(s)
      <3>1. /\ m \in 1..Len(t) /\ m - 1 \in 0..Len(t) /\ n \in 0..Len(s) + Len(t)
            /\ n - 1 \in 0..Len(s) + Len(t) /\ (n - 1) - Len(s) = m - 1
        BY <1>3, <1>4, <2>2
      <3>2. h[n] = f[Len(s)] \o g[m] /\ u[n] = t[m]
        BY <1>4, <1>5, <2>2, <3>1
      <3>3. f[Len(s)] \in Seq(X) /\ g[m - 1] \in Seq(X) /\ t[m] \in X
        <4>1. Len(s) \in 0..Len(s)
          BY <1>3
        <4> HIDE DEF m
        <4>2. QED
          BY <1>1, <1>2, <3>1, <4>1
      <3>4. h[n - 1] = f[Len(s)] \o g[m - 1]
        <4>1. CASE n - 1 <= Len(s)
          <5>1. m - 1 = 0 /\ n - 1 = Len(s)
            BY <1>3, <2>2, <4>1
          <5>2. h[n - 1] = f[Len(s)] /\ g[m - 1] = <<>>
            BY <1>2, <1>5, <3>1, <4>1, <5>1
          <5> HIDE DEF m
          <5>3. QED
            BY <3>3, <5>2
        <4>2. CASE ~(n - 1 <= Len(s))
          BY <1>5, <3>1, <4>2
        <4>3. QED
          BY <4>1, <4>2
      <3>5. g[m] = IF t[m] \in S THEN Append(g[m - 1], t[m]) ELSE g[m - 1]
        BY <1>2, <3>1 DEF Picks
      <3> HIDE DEF m
      <3>6. f[Len(s)] \o Append(g[m - 1], t[m]) = Append(f[Len(s)] \o g[m - 1], t[m])
        <4> DEFINE a == f[Len(s)]
                   b == g[m - 1]
                   x == t[m]
        <4>1. a \in Seq(X) /\ b \in Seq(X) /\ x \in X
          BY <3>3
        <4> HIDE DEF a, b, x
        <4>2. a \o Append(b, x) = Append(a \o b, x)
          BY <4>1, JoinAppend
        <4>3. QED
          BY <4>2 DEF a, b, x
      <3>7. h[n] = IF u[n] \in S THEN Append(h[n - 1], u[n]) ELSE h[n - 1]
        BY <3>2, <3>4, <3>5, <3>6
      <3>8. QED
        BY <3>7 DEF Picks
    <2>3. QED
      BY <2>1, <2>2
  <1>7. h[0] = <<>>
    BY <1>1, <1>3, <1>5
  <1>8. Among(u, S) = h[Len(u)]
    BY <1>4, <1>6, <1>7, AmongIs
  <1>9. h[Len(u)] = f[Len(s)] \o g[Len(t)]
    <2>1. Len(u) \in 0..Len(s) + Len(t) /\ Len(s) \in 0..Len(s)
      BY <1>3, <1>4
    <2>2. CASE Len(t) = 0
      <3>1. h[Len(u)] = f[Len(s)] /\ g[Len(t)] = <<>> /\ f[Len(s)] \in Seq(X)
        <4>1. Len(u) = Len(s)
          BY <1>3, <1>4, <2>2
        <4>2. QED
          BY <1>1, <1>2, <1>3, <1>5, <2>1, <2>2, <4>1
      <3>2. f[Len(s)] \o <<>> = f[Len(s)]
        BY <3>1
      <3>3. QED
        BY <3>1, <3>2
    <2>3. CASE Len(t) # 0
      <3>1. ~(Len(u) <= Len(s)) /\ Len(u) - Len(s) = Len(t)
        BY <1>3, <1>4, <2>3
      <3>2. QED
        BY <1>5, <2>1, <3>1
    <2>4. QED
      BY <2>2, <2>3
  <1>10. QED
    BY <1>1, <1>2, <1>8, <1>9 DEF u

LEMMA AmongEmpty == ASSUME NEW S PROVE Among(<<>>, S) = <<>>
  <1>1. <<>> \in Seq({})
    OBVIOUS
  <1>2. PICK f : f[0] = <<>> /\ Among(<<>>, S) = f[Len(<<>>)]
    BY <1>1, AmongDefined
  <1>3. QED
    BY <1>2

LEMMA AmongOne ==
    ASSUME NEW x, NEW S
    PROVE  Among(<<x>>, S) = IF x \in S THEN <<x>> ELSE <<>>
  <1> DEFINE s == <<x>>
  <1>1. s \in Seq({x}) /\ Len(s) = 1 /\ s[1] = x
    OBVIOUS
  <1> HIDE DEF s
  <1>2. PICK f : f[0] = <<>> /\ (\A n \in 1..Len(s) : f[n] = Picks(f, s, S, n)) /\ Among(s, S) = f[Len(s)]
    BY <1>1, AmongDefined
  <1>3. f[1] = IF x \in S THEN Append(<<>>, x) ELSE <<>>
    <2>1. 1 \in 1..Len(s) /\ 1 - 1 = 0
      BY <1>1
    <2>2. QED
      BY <1>1, <1>2, <2>1 DEF Picks
  <1>4. Append(<<>>, x) = <<x>>
    OBVIOUS
  <1>5. QED
    BY <1>1, <1>2, <1>3, <1>4 DEF s

\* A list that grows at its end.
LEMMA AmongAppend ==
    ASSUME NEW X, NEW s \in Seq(X), NEW x \in X, NEW S
    PROVE  Among(Append(s, x), S) = IF x \in S THEN Append(Among(s, S), x) ELSE Among(s, S)
  <1> DEFINE one == <<x>>
             whole == Append(s, x)
  <1>1. whole = s \o one /\ one \in Seq(X)
    OBVIOUS
  <1>2. Among(whole, S) = Among(s, S) \o Among(one, S)
    <2> HIDE DEF one, whole
    <2> QED BY <1>1, AmongConcat
  <1>3. Among(s, S) \in Seq(X)
    BY AmongProperties
  <1>4. Among(s, S) \o <<x>> = Append(Among(s, S), x) /\ Among(s, S) \o <<>> = Among(s, S)
    <2> DEFINE a == Among(s, S)
    <2>1. a \in Seq(X)
      BY <1>3
    <2> HIDE DEF a
    <2>2. a \o <<x>> = Append(a, x) /\ a \o <<>> = a
      BY <2>1
    <2>3. QED
      BY <2>2 DEF a
  <1>5. QED
    BY <1>2, <1>4, AmongOne

\* A list by its head and the rest.
LEMMA AmongRest ==
    ASSUME NEW X, NEW s \in Seq(X), s # <<>>, NEW S
    PROVE  Among(s, S) = IF s[1] \in S THEN <<s[1]>> \o Among(Tail(s), S) ELSE Among(Tail(s), S)
  <1>1. s = <<s[1]>> \o Tail(s) /\ <<s[1]>> \in Seq(X) /\ Tail(s) \in Seq(X)
    OBVIOUS
  <1>2. Among(s, S) = Among(<<s[1]>>, S) \o Among(Tail(s), S)
    <2> DEFINE one  == <<s[1]>>
               rest == Tail(s)
    <2>1. s = one \o rest /\ one \in Seq(X) /\ rest \in Seq(X)
      BY <1>1
    <2> HIDE DEF one, rest
    <2>2. Among(s, S) = Among(one, S) \o Among(rest, S)
      BY <2>1, AmongConcat
    <2>3. QED
      BY <2>2 DEF one, rest
  <1>3. <<>> \o Among(Tail(s), S) = Among(Tail(s), S)
    <2> DEFINE a == Among(Tail(s), S)
    <2>1. a \in Seq(X)
      BY <1>1, AmongProperties
    <2> HIDE DEF a
    <2>2. <<>> \o a = a
      BY <2>1
    <2>3. QED
      BY <2>2 DEF a
  <1>4. QED
    BY <1>2, <1>3, AmongOne

\* Conditions that agree on the elements of a list give one result.
LEMMA AmongSame ==
    ASSUME NEW X, NEW s \in Seq(X), NEW S, NEW T,
           \A k \in 1..Len(s) : s[k] \in S <=> s[k] \in T
    PROVE  Among(s, S) = Among(s, T)
  <1>1. PICK f : /\ f[0] = <<>> /\ \A n \in 1..Len(s) : f[n] = Picks(f, s, S, n)
                 /\ Among(s, S) = f[Len(s)]
    BY AmongDefined
  <1>2. \A n \in 1..Len(s) : f[n] = Picks(f, s, T, n)
    BY <1>1 DEF Picks
  <1>3. Among(s, T) = f[Len(s)]
    BY <1>1, <1>2, AmongIs
  <1>4. QED
    BY <1>1, <1>3

\* Nothing meets the condition.
LEMMA AmongNothing ==
    ASSUME NEW X, NEW s \in Seq(X), NEW S, \A k \in 1..Len(s) : s[k] \notin S
    PROVE  Among(s, S) = <<>>
  <1>1. /\ Among(s, S) \in Seq(X)
        /\ \A i \in 1..Len(Among(s, S)) : Among(s, S)[i] \in S
        /\ \A i \in 1..Len(Among(s, S)) : \E k \in 1..Len(s) : s[k] = Among(s, S)[i]
    BY AmongProperties
  <1>2. ~ \E i \in 1..Len(Among(s, S)) : TRUE
    BY <1>1
  <1> DEFINE a == Among(s, S)
  <1>3. a \in Seq(X) /\ ~ \E i \in 1..Len(a) : TRUE
    BY <1>1, <1>2
  <1> HIDE DEF a
  <1>4. Len(a) \in Nat /\ ~(1 \in 1..Len(a))
    BY <1>3
  <1>5. a = <<>>
    BY <1>3, <1>4
  <1>6. QED
    BY <1>5 DEF a

\* Filtering twice is filtering by both conditions.
LEMMA AmongTwice ==
    ASSUME NEW X, NEW s \in Seq(X), NEW S, NEW T
    PROVE  Among(Among(s, S), T) = Among(s, S \cap T)
  <1>1. PICK f : /\ f[0] = <<>> /\ \A n \in 1..Len(s) : f[n] = Picks(f, s, S, n)
                 /\ \A n \in 0..Len(s) : f[n] \in Seq(X)
                 /\ Among(s, S) = f[Len(s)]
    BY AmongSteps
  <1> DEFINE h == [n \in 0..Len(s) |-> Among(f[n], T)]
  <1>2. Len(s) \in Nat /\ \A n \in 0..Len(s) : h[n] = Among(f[n], T)
    OBVIOUS
  <1> HIDE DEF h
  <1>3. h[0] = <<>>
    BY <1>1, <1>2, AmongEmpty
  <1>4. ASSUME NEW n \in 1..Len(s) PROVE h[n] = Picks(h, s, S \cap T, n)
    <2>1. n \in 0..Len(s) /\ n - 1 \in 0..Len(s) /\ s[n] \in X
      BY <1>2
    <2>2. f[n - 1] \in Seq(X)
      BY <1>1, <2>1
    <2>3. h[n] = Among(f[n], T) /\ h[n - 1] = Among(f[n - 1], T)
      BY <1>2, <2>1
    <2>4. Among(Append(f[n - 1], s[n]), T) =
            IF s[n] \in T THEN Append(Among(f[n - 1], T), s[n]) ELSE Among(f[n - 1], T)
      <3> DEFINE a == f[n - 1]
                 x == s[n]
      <3>1. a \in Seq(X) /\ x \in X
        BY <2>1, <2>2
      <3> HIDE DEF a, x
      <3>2. Among(Append(a, x), T) = IF x \in T THEN Append(Among(a, T), x) ELSE Among(a, T)
        BY <3>1, AmongAppend
      <3>3. QED
        BY <3>2 DEF a, x
    <2>5. f[n] = IF s[n] \in S THEN Append(f[n - 1], s[n]) ELSE f[n - 1]
      BY <1>1 DEF Picks
    <2>6. h[n] = IF s[n] \in S \cap T THEN Append(h[n - 1], s[n]) ELSE h[n - 1]
      BY <2>3, <2>4, <2>5
    <2>7. QED
      BY <2>6 DEF Picks
  <1>5. Among(s, S \cap T) = h[Len(s)]
    BY <1>3, <1>4, AmongIs
  <1>6. QED
    BY <1>1, <1>2, <1>5
=============================================================================
