------------------------ MODULE EventSelectionProofs ------------------------
(***************************************************************************)
(* Induction on naturals and on sequences, for sets given by their         *)
(* elements, and what follows for Select, which is defined by recursion.   *)
(***************************************************************************)
EXTENDS EventSelection, SequenceTheorems, WellFoundedInduction, TLAPS

-----------------------------------------------------------------------------
(* Induction.                                                               *)

(* A non-empty set of naturals has a least element.                          *)
LEMMA LeastOf ==
  ASSUME NEW T \in SUBSET Nat, T # {}
  PROVE  \E x \in T : \A y \in T : x <= y
<1> DEFINE R == {ss \in Nat \X Nat : ss[1] < ss[2]}
<1>1. IsWellFoundedOn(R, Nat)
  BY NatLessThanWellFounded DEF OpToRel
<1>2. \A x, y \in Nat : x < y => <<x, y>> \in R
  OBVIOUS
<1> HIDE DEF R
<1>3. \E x \in T : \A y \in T : <<y, x>> \notin R
  BY <1>1, WFMin
<1>4. PICK x \in T : \A y \in T : <<y, x>> \notin R
  BY <1>3
<1>5. \A y \in T : ~(y < x)
  BY <1>2, <1>4
<1> QED
  BY <1>4, <1>5

(* A set of naturals closed under successor.                                 *)
LEMMA ClosedIsNat ==
  ASSUME NEW T, 0 \in T, \A n \in Nat : n \in T => n + 1 \in T
  PROVE  Nat \subseteq T
<1> SUFFICES ASSUME Nat \ T # {} PROVE FALSE
  OBVIOUS
<1>1. PICK x \in Nat \ T : \A y \in Nat \ T : x <= y
  BY LeastOf
<1>2. x - 1 \in Nat /\ x - 1 \in T /\ (x - 1) + 1 = x
  BY <1>1
<1> QED
  BY <1>1, <1>2

(* Definition by recursion.                                                  *)
IsRecursion(f, S, b, g) ==
  f \in [Nat -> S] /\ f[0] = b /\ \A n \in Nat : f[n + 1] = g[<<n, f[n]>>]

LEMMA Recursion ==
  ASSUME NEW S, NEW b \in S, NEW g \in [Nat \X S -> S]
  PROVE  \E f : IsRecursion(f, S, b, g)
<1> DEFINE Upto(n, f) == /\ f \in [0..n -> S] /\ f[0] = b
                         /\ \A i \in 0..n : i # n => f[i + 1] = g[<<i, f[i]>>]
<1>1. ASSUME NEW n \in Nat, NEW f, NEW m \in Nat, NEW h, m <= n, Upto(n, f), Upto(m, h)
      PROVE  \A i \in 0..m : f[i] = h[i]
  <2> DEFINE T == {i \in Nat : i <= m => f[i] = h[i]}
  <2>1. 0 \in T
    BY <1>1
  <2>2. ASSUME NEW i \in Nat, i \in T PROVE i + 1 \in T
    <3>1. CASE i + 1 <= m
      <4>1. i \in 0..n /\ i # n /\ i \in 0..m /\ i # m /\ f[i] = h[i]
        BY <1>1, <2>2, <3>1
      <4>2. f[i + 1] = g[<<i, f[i]>>] /\ h[i + 1] = g[<<i, h[i]>>]
        BY <1>1, <4>1
      <4> QED
        BY <4>1, <4>2
    <3> QED
      BY <3>1
  <2> HIDE DEF T
  <2>3. Nat \subseteq T
    BY <2>1, <2>2, ClosedIsNat
  <2> QED
    BY <2>3 DEF T
<1>2. \A n \in Nat : \E f : Upto(n, f)
  <2> DEFINE T == {n \in Nat : \E f : Upto(n, f)}
  <2>1. 0 \in T
    <3>1. Upto(0, [i \in 0..0 |-> b])
      OBVIOUS
    <3> QED
      BY <3>1
  <2>2. ASSUME NEW n \in Nat, n \in T PROVE n + 1 \in T
    <3>1. PICK f : Upto(n, f)
      BY <2>2
    <3>2. PICK h : h = [i \in 0..(n + 1) |-> IF i = n + 1 THEN g[<<n, f[n]>>] ELSE f[i]]
      OBVIOUS
    <3>3. h \in [0..(n + 1) -> S] /\ h[0] = b
      <4>1. g[<<n, f[n]>>] \in S
        BY <3>1
      <4> QED
        BY <3>1, <3>2, <4>1
    <3>4. ASSUME NEW i \in 0..(n + 1), i # n + 1 PROVE h[i + 1] = g[<<i, h[i]>>]
      <4>1. h[i] = f[i]
        BY <3>2, <3>4
      <4>2. CASE i = n
        <5>1. n + 1 \in 0..(n + 1)
          OBVIOUS
        <5>2. h[n + 1] = g[<<n, f[n]>>]
          BY <3>2, <5>1
        <5> QED
          BY <4>1, <4>2, <5>2
      <4>3. CASE i # n
        <5>1. i \in 0..n /\ i + 1 \in 0..(n + 1) /\ i + 1 # n + 1
          BY <3>4, <4>3
        <5>2. f[i + 1] = g[<<i, f[i]>>]
          BY <3>1, <4>3, <5>1
        <5> QED
          BY <3>2, <4>1, <5>1, <5>2
      <4> QED
        BY <4>2, <4>3
    <3>5. Upto(n + 1, h)
      BY <3>3, <3>4
    <3> QED
      BY <3>5
  <2> HIDE DEF T
  <2>3. Nat \subseteq T
    BY <2>1, <2>2, ClosedIsNat
  <2> QED
    BY <2>3 DEF T
<1>3. PICK F : F = [n \in Nat |-> CHOOSE f : Upto(n, f)]
  OBVIOUS
<1>4. \A n \in Nat : Upto(n, F[n])
  BY <1>2, <1>3
<1>5. PICK r : r = [n \in Nat |-> F[n][n]]
  OBVIOUS
<1>6. \A n \in Nat : r[n] \in S /\ F[n + 1][n] = r[n] /\ F[n + 1][n + 1] = g[<<n, F[n + 1][n]>>]
  <2> TAKE n \in Nat
  <2>1. Upto(n, F[n]) /\ Upto(n + 1, F[n + 1])
    BY <1>4
  <2>2. \A i \in 0..n : F[n + 1][i] = F[n][i]
    <3> HIDE DEF Upto
    <3>1. n + 1 \in Nat /\ n <= n + 1
      OBVIOUS
    <3> QED
      BY <1>1, <2>1, <3>1
  <2>3. F[n + 1][n] = F[n][n] /\ n \in 0..n /\ n # n + 1 /\ n \in 0..(n + 1)
    BY <2>2
  <2> QED
    BY <1>5, <2>1, <2>3
<1>7. r \in [Nat -> S]
  BY <1>5, <1>6
<1>8. r[0] = b
  BY <1>4, <1>5
<1>9. ASSUME NEW n \in Nat PROVE r[n + 1] = g[<<n, r[n]>>]
  <2>1. n + 1 \in Nat
    OBVIOUS
  <2>2. r[n + 1] = F[n + 1][n + 1]
    BY <1>5, <2>1
  <2> QED
    BY <1>6, <2>2
<1> QED
  BY <1>7, <1>8, <1>9 DEF IsRecursion

(* Every element of a set closed under Append is a sequence, and conversely. *)
LEMMA ClosedIsSeq ==
  ASSUME NEW X, NEW T, <<>> \in T, \A s \in Seq(X), e \in X : s \in T => Append(s, e) \in T
  PROVE  Seq(X) \subseteq T
<1> DEFINE Z == {n \in Nat : \A s \in Seq(X) : Len(s) = n => s \in T}
<1>1. 0 \in Z
  BY EmptySeq
<1>2. ASSUME NEW n \in Nat, n \in Z PROVE n + 1 \in Z
  <2> SUFFICES ASSUME NEW s \in Seq(X), Len(s) = n + 1 PROVE s \in T
    OBVIOUS
  <2>1. s # <<>>
    BY EmptySeq
  <2>2. PICK t \in Seq(X), e \in X : s = Append(t, e)
    BY <2>1, SequenceEmptyOrAppend
  <2>3. Len(t) = n
    <3>1. Len(s) = Len(t) + 1
      BY <2>2, AppendProperties
    <3>2. Len(t) \in Nat
      BY LenProperties
    <3> QED
      BY <3>1, <3>2
  <2> QED
    BY <1>2, <2>2, <2>3
<1> HIDE DEF Z
<1>3. Nat \subseteq Z
  BY <1>1, <1>2, ClosedIsNat
<1>4. \A s \in Seq(X) : Len(s) \in Nat
  BY LenProperties
<1> QED
  BY <1>3, <1>4 DEF Z

(* Append and concatenation commute.                                         *)
LEMMA ConcatAppend ==
  ASSUME NEW T, NEW s \in Seq(T), NEW t \in Seq(T), NEW e \in T
  PROVE  s \o Append(t, e) = Append(s \o t, e)
<1>1. <<e>> \in Seq(T) /\ s \o t \in Seq(T)
  BY ConcatProperties
<1> QED
  BY <1>1, AppendIsConcat, ConcatAssociative, SMTT(60)

-----------------------------------------------------------------------------
(* Select.                                                                  *)

(* part[n] is what is selected of the first n elements.                      *)
SelectPart(s, S, part) ==
  part = [n \in 0..Len(s) |-> IF n = 0 THEN <<>>
                              ELSE IF s[n] \in S THEN Append(part[n - 1], s[n])
                              ELSE part[n - 1]]

(* Two sequences that agree up to m select the same up to m.                 *)
LEMMA PartsAgree ==
  ASSUME NEW s, NEW S, NEW f, SelectPart(s, S, f),
         NEW t, NEW R, NEW g, SelectPart(t, R, g),
         Len(s) \in Nat, Len(t) \in Nat,
         NEW m \in Nat, m <= Len(s), m <= Len(t),
         \A i \in 1..m : s[i] = t[i] /\ (s[i] \in S <=> t[i] \in R)
  PROVE  \A n \in 0..m : f[n] = g[n]
<1> DEFINE Z == {n \in Nat : n <= m => f[n] = g[n]}
<1>1. 0 \in Z
  BY DEF SelectPart
<1>2. ASSUME NEW n \in Nat, n \in Z PROVE n + 1 \in Z
  <2> SUFFICES ASSUME n + 1 <= m PROVE f[n + 1] = g[n + 1]
    OBVIOUS
  <2>1. n + 1 \in 0..Len(s) /\ n + 1 \in 0..Len(t) /\ n + 1 # 0 /\ (n + 1) - 1 = n /\ n + 1 \in 1..m
    OBVIOUS
  <2>2. f[n] = g[n]
    BY <1>2
  <2>3. f[n + 1] = IF s[n + 1] \in S THEN Append(f[n], s[n + 1]) ELSE f[n]
    BY <2>1 DEF SelectPart
  <2>4. g[n + 1] = IF t[n + 1] \in R THEN Append(g[n], t[n + 1]) ELSE g[n]
    BY <2>1 DEF SelectPart
  <2> QED
    BY <2>1, <2>2, <2>3, <2>4
<1> HIDE DEF Z
<1>3. Nat \subseteq Z
  BY <1>1, <1>2, ClosedIsNat
<1> QED
  BY <1>3 DEF Z

(* The recursion has a solution.                                             *)
LEMMA SelectUnfolds ==
  ASSUME NEW T, NEW s \in Seq(T), NEW S
  PROVE  \E part \in [0..Len(s) -> Seq(T \cap S)] : SelectPart(s, S, part) /\ Select(s, S) = part[Len(s)]
<1>0. Len(s) \in Nat /\ \A n \in 1..Len(s) : s[n] \in T
  BY LenProperties, ElementOfSeq
<1>1. \E part \in [0..Len(s) -> Seq(T \cap S)] : SelectPart(s, S, part)
  <2> DEFINE Step(n, q) == IF n + 1 <= Len(s) /\ s[n + 1] \in S THEN Append(q, s[n + 1]) ELSE q
  <2>1. PICK Q : Q = Seq(T \cap S)
    OBVIOUS
  <2>2. PICK g : g = [p \in Nat \X Q |-> Step(p[1], p[2])]
    OBVIOUS
  <2>3. PICK b : b = <<>>
    OBVIOUS
  <2>4. ASSUME NEW n \in Nat, NEW q \in Q PROVE Step(n, q) \in Q
    <3>1. CASE n + 1 <= Len(s) /\ s[n + 1] \in S
      <4>1. s[n + 1] \in T \cap S
        BY <1>0, <3>1
      <4> QED
        BY <2>1, <3>1, <4>1, AppendProperties
    <3> QED
      BY <3>1
  <2>5. b \in Q
    BY <2>1, <2>3, EmptySeq
  <2>6. g \in [Nat \X Q -> Q]
    <3> HIDE DEF Step
    <3> QED
      BY <2>2, <2>4
  <2>7. PICK h : IsRecursion(h, Q, b, g)
    BY <2>5, <2>6, Recursion
  <2>8. PICK f : f = [n \in 0..Len(s) |-> h[n]]
    OBVIOUS
  <2>9. ASSUME NEW n \in 0..Len(s), n # 0
        PROVE  f[n] = IF s[n] \in S THEN Append(f[n - 1], s[n]) ELSE f[n - 1]
    <3>1. n - 1 \in Nat /\ (n - 1) + 1 = n /\ n - 1 \in 0..Len(s) /\ n <= Len(s)
      BY <1>0, <2>9
    <3>2. h[n] = g[<<n - 1, h[n - 1]>>] /\ h[n - 1] \in Q
      BY <2>7, <3>1 DEF IsRecursion
    <3>3. g[<<n - 1, h[n - 1]>>] = Step(n - 1, h[n - 1])
      <4> HIDE DEF Step
      <4> QED
        BY <2>2, <3>1, <3>2
    <3>4. Step(n - 1, h[n - 1]) = IF s[n] \in S THEN Append(h[n - 1], s[n]) ELSE h[n - 1]
      BY <3>1
    <3>5. f[n] = h[n] /\ f[n - 1] = h[n - 1]
      BY <2>8, <2>9, <3>1
    <3> QED
      BY <3>2, <3>3, <3>4, <3>5
  <2>10. f[0] = <<>> /\ f \in [0..Len(s) -> Q]
    BY <1>0, <2>3, <2>7, <2>8 DEF IsRecursion
  <2>11. SelectPart(s, S, f)
    <3>1. f = [n \in 0..Len(s) |-> f[n]]
      BY <2>8
    <3> QED
      BY <2>9, <2>10, <3>1 DEF SelectPart
  <2> QED
    BY <2>1, <2>10, <2>11
<1>2. PICK f \in [0..Len(s) -> Seq(T \cap S)] : SelectPart(s, S, f)
  BY <1>1
<1> DEFINE x == CHOOSE g : SelectPart(s, S, g)
<1>3. SelectPart(s, S, x)
  BY <1>2
<1>4. Select(s, S) = x[Len(s)]
  BY DEF Select, SelectPart
<1> HIDE DEF x
<1>5. \A n \in 0..Len(s) : x[n] = f[n]
  BY <1>0, <1>2, <1>3, PartsAgree
<1> QED
  BY <1>0, <1>2, <1>4, <1>5

(* Nothing is selected of nothing.                                           *)
LEMMA SelectEmpty == ASSUME NEW S PROVE Select(<<>>, S) = <<>>
<1>1. <<>> \in Seq({}) /\ Len(<<>>) = 0
  BY EmptySeq
<1>2. PICK f \in [0..Len(<<>>) -> Seq({} \cap S)] :
        SelectPart(<<>>, S, f) /\ Select(<<>>, S) = f[Len(<<>>)]
  BY <1>1, SelectUnfolds, ZenonT(60)
<1> QED
  BY <1>1, <1>2 DEF SelectPart

(* What is selected comes from the list and is in the set.                   *)
LEMMA SelectType ==
  ASSUME NEW T, NEW s \in Seq(T), NEW S
  PROVE  Select(s, S) \in Seq(T \cap S) /\ Select(s, S) \in Seq(T) /\ Select(s, S) \in Seq(S)
<1>1. Len(s) \in 0..Len(s)
  BY LenProperties
<1>2. Select(s, S) \in Seq(T \cap S)
  BY <1>1, SelectUnfolds
<1>3. T \cap S \subseteq T /\ T \cap S \subseteq S
  OBVIOUS
<1> QED
  BY <1>2, <1>3, SeqMonotonic

(* Only what the set says about the list's own elements counts.              *)
LEMMA SelectSame ==
  ASSUME NEW T, NEW s \in Seq(T), NEW S, NEW R,
         \A i \in 1..Len(s) : s[i] \in S <=> s[i] \in R
  PROVE  Select(s, S) = Select(s, R)
<1>1. Len(s) \in Nat
  BY LenProperties
<1>2. PICK f \in [0..Len(s) -> Seq(T \cap S)] : SelectPart(s, S, f) /\ Select(s, S) = f[Len(s)]
  BY SelectUnfolds
<1>3. PICK g \in [0..Len(s) -> Seq(T \cap R)] : SelectPart(s, R, g) /\ Select(s, R) = g[Len(s)]
  BY SelectUnfolds
<1>4. \A n \in 0..Len(s) : f[n] = g[n]
  BY <1>1, <1>2, <1>3, PartsAgree, SMTT(60)
<1> QED
  BY <1>1, <1>2, <1>3, <1>4

(* An element appended to the list is selected last.                         *)
LEMMA SelectAppend ==
  ASSUME NEW T, NEW s \in Seq(T), NEW e \in T, NEW S
  PROVE  Select(Append(s, e), S) = IF e \in S THEN Append(Select(s, S), e) ELSE Select(s, S)
<1> DEFINE t == Append(s, e)
<1>1. /\ t \in Seq(T) /\ Len(t) = Len(s) + 1 /\ t[Len(s) + 1] = e
      /\ \A i \in 1..Len(s) : t[i] = s[i]
      /\ Len(s) \in Nat
  BY AppendProperties, LenProperties
<1> HIDE DEF t
<1>2. PICK f \in [0..Len(s) -> Seq(T \cap S)] : SelectPart(s, S, f) /\ Select(s, S) = f[Len(s)]
  BY SelectUnfolds
<1>3. PICK g \in [0..Len(t) -> Seq(T \cap S)] : SelectPart(t, S, g) /\ Select(t, S) = g[Len(t)]
  BY <1>1, SelectUnfolds
<1>4. \A n \in 0..Len(s) : f[n] = g[n]
  <2>1. SelectPart(s, S, f) /\ SelectPart(t, S, g)
    BY <1>2, <1>3
  <2>2. Len(s) \in Nat /\ Len(t) \in Nat /\ Len(s) <= Len(s) /\ Len(s) <= Len(t)
    BY <1>1
  <2>3. \A i \in 1..Len(s) : s[i] = t[i] /\ (s[i] \in S <=> t[i] \in S)
    BY <1>1
  <2> QED
    BY <2>1, <2>2, <2>3, PartsAgree, SMTT(60)
<1>5. Len(t) \in 0..Len(t) /\ Len(t) # 0 /\ Len(t) - 1 = Len(s) /\ Len(s) \in 0..Len(s)
  BY <1>1
<1>6. g[Len(t)] = IF t[Len(t)] \in S THEN Append(g[Len(s)], t[Len(t)]) ELSE g[Len(s)]
  BY <1>3, <1>5 DEF SelectPart
<1>7. t[Len(t)] = e
  BY <1>1
<1> QED
  BY <1>2, <1>3, <1>4, <1>5, <1>6, <1>7 DEF t

(* A list of members of the set is selected whole.                           *)
LEMMA SelectAll ==
  ASSUME NEW T, NEW S, T \subseteq S, NEW s \in Seq(T)
  PROVE  Select(s, S) = s
<1> DEFINE Z == {u \in Seq(T) : Select(u, S) = u}
<1>1. <<>> \in Z
  BY SelectEmpty, EmptySeq
<1>2. ASSUME NEW u \in Seq(T), NEW e \in T, u \in Z PROVE Append(u, e) \in Z
  <2>1. Append(u, e) \in Seq(T)
    BY AppendProperties
  <2>2. Select(Append(u, e), S) = Append(Select(u, S), e)
    BY SelectAppend
  <2> QED
    BY <1>2, <2>1, <2>2
<1> HIDE DEF Z
<1>3. Seq(T) \subseteq Z
  BY <1>1, <1>2, ClosedIsSeq
<1> QED
  BY <1>3 DEF Z
=============================================================================
