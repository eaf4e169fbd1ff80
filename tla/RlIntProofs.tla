---------------------------- MODULE RlIntProofs -----------------------------
(***************************************************************************)
(* The big integers of RlInt compute what they should, for every number of *)
(* words and every width of a word: each operation on words is stated as   *)
(* one on Value, with the condition under which it overflows.              *)
(*                                                                         *)
(* What holds of the words one after the other is shown with a least       *)
(* counter-example (Least): a set of naturals without a least element is   *)
(* empty.  That is also how the recursive functions of RlInt are shown to  *)
(* be what their equations say (Recursion).                                *)
(***************************************************************************)
EXTENDS RlInt, WellFoundedInduction, NaturalsInduction, TLAPS

LEMMA Least ==
  ASSUME NEW S \in SUBSET Nat, S # {}
  PROVE  \E l \in S : \A k \in S : l <= k
<1> DEFINE R == OpToRel(<, Nat)
<1>1. IsWellFoundedOn(R, Nat)
  BY NatLessThanWellFounded
<1>2. \E l \in S : \A k \in S : ~ (<<k, l>> \in R)
  <2> HIDE DEF R
  <2> QED
    BY <1>1, WFMin
<1>3. \E l \in S : \A k \in S : ~ (k < l)
  BY <1>2 DEF OpToRel
<1> QED
  BY <1>3

\* Induction, for a set of naturals and for one of the naturals up to m.
LEMMA Induction ==
  ASSUME NEW P \in SUBSET Nat, 0 \in P, \A k \in P : k + 1 \in P
  PROVE  \A k \in Nat : k \in P
<1> DEFINE B == {k \in Nat : k \notin P}
<1> SUFFICES ASSUME B # {} PROVE FALSE
  OBVIOUS
<1>1. PICK l \in B : \A k \in B : l <= k
  <2>1. B \in SUBSET Nat
    OBVIOUS
  <2> HIDE DEF B
  <2> QED
    BY <2>1, Least
<1>2. l # 0 /\ l \in Nat
  BY <1>1
<1>3. l - 1 \in Nat /\ l - 1 \notin B /\ (l - 1) + 1 = l
  BY <1>1, <1>2
<1>4. l - 1 \in P
  BY <1>3
<1>5. l \in P
  BY <1>3, <1>4
<1> QED
  BY <1>1, <1>5

LEMMA BoundedInduction ==
  ASSUME NEW m \in Nat, NEW P, 0 \in P, \A k \in Nat : k \in P /\ k < m => k + 1 \in P
  PROVE  \A k \in 0 .. m : k \in P
<1> DEFINE Q == {k \in Nat : k <= m => k \in P}
<1>1. Q \in SUBSET Nat /\ 0 \in Q
  OBVIOUS
<1>2. ASSUME NEW k \in Q PROVE k + 1 \in Q
  <2>1. CASE k < m
    BY <2>1
  <2>2. CASE ~ (k < m)
    BY <2>2
  <2> QED
    BY <2>1, <2>2
<1>3. \A k \in Nat : k \in Q
  <2> HIDE DEF Q
  <2> QED
    BY <1>1, <1>2, Induction
<1> QED
  BY <1>3

\* A function that is z at 0 and G of its last value after that.
Inductive(D, S, z, G) ==
  /\ D = Nat \/ \E m \in Nat : D = 0 .. m
  /\ z \in S
  /\ \A l \in D \ {0}, s \in S : G[<<s, l>>] \in S

Defined(D, S, z, G) ==
  \E f \in [D -> S] : f = [l \in D |-> IF l = 0 THEN z ELSE G[<<f[l-1], l>>]]

LEMMA Recursion ==
  ASSUME NEW D, NEW S, NEW z, NEW G, Inductive(D, S, z, G)
  PROVE  Defined(D, S, z, G)
<1> DEFINE Ap(m, g) == /\ g \in [0 .. m -> S] /\ g[0] = z
                       /\ \A l \in 1 .. m : g[l] = G[<<g[l-1], l>>]
<1>1. /\ D \subseteq Nat /\ 0 \in D
      /\ \A l \in D \ {0} : l - 1 \in D /\ l \in Nat /\ l - 1 \in Nat
      /\ z \in S /\ \A l \in D \ {0}, s \in S : G[<<s, l>>] \in S
  BY DEF Inductive
<1>2. ASSUME NEW m \in Nat, NEW k \in Nat, NEW g, NEW h, Ap(m, g), Ap(k, h),
             NEW l \in Nat, l <= m, l <= k
      PROVE  g[l] = h[l]
  <2> DEFINE B == {j \in Nat : j <= m /\ j <= k /\ g[j] # h[j]}
  <2> SUFFICES ASSUME B # {} PROVE FALSE
    BY <1>2
  <2>1. B \in SUBSET Nat
    OBVIOUS
  <2>2. PICK j \in B : \A b \in B : j <= b
    <3> HIDE DEF B
    <3> QED
      BY <2>1, Least
  <2>3. j # 0
    BY <1>2, <2>2
  <2>4. j - 1 \in Nat /\ j - 1 \notin B /\ j \in 1 .. m /\ j \in 1 .. k
    BY <2>2, <2>3
  <2>5. g[j-1] = h[j-1]
    BY <2>4
  <2> QED
    BY <1>2, <2>2, <2>4, <2>5
<1>3. ASSUME NEW m \in D PROVE \E g : Ap(m, g)
  <2> DEFINE B == {j \in D : ~ \E g : Ap(j, g)}
  <2> SUFFICES ASSUME B # {} PROVE FALSE
    BY <1>3
  <2>1. B \in SUBSET Nat
    BY <1>1
  <2>2. PICK j \in B : \A b \in B : j <= b
    <3> HIDE DEF B
    <3> QED
      BY <2>1, Least
  <2>3. j # 0
    <3>1. Ap(0, [l \in 0 .. 0 |-> z])
      BY <1>1
    <3> QED
      BY <2>2, <3>1
  <2>4. j - 1 \in D /\ j \in Nat /\ j - 1 \in Nat /\ j \in D \ {0}
    BY <1>1, <2>2, <2>3
  <2>5. PICK g : Ap(j - 1, g)
    BY <2>2, <2>4
  <2> DEFINE h == [l \in 0 .. j |-> IF l = j THEN G[<<g[j-1], j>>] ELSE g[l]]
  <2>6. g[j-1] \in S
    BY <2>4, <2>5
  <2>7. h \in [0 .. j -> S]
    BY <1>1, <2>4, <2>5, <2>6
  <2>8. h[0] = z
    BY <2>3, <2>4, <2>5
  <2>9. ASSUME NEW l \in 1 .. j PROVE h[l] = G[<<h[l-1], l>>]
    <3>1. CASE l = j
      <4>1. h[j] = G[<<g[j-1], j>>]
        BY <2>4
      <4>2. j - 1 \in 0 .. j /\ j - 1 # j
        BY <2>4
      <4>3. h[j-1] = g[j-1]
        BY <4>2
      <4> QED
        BY <3>1, <4>1, <4>3
    <3>2. CASE l # j
      BY <2>4, <2>5, <3>2
    <3> QED
      BY <3>1, <3>2
  <2>10. Ap(j, h)
    BY <2>7, <2>8, <2>9
  <2> QED
    BY <2>2, <2>10
<1> DEFINE F == [l \in D |-> (CHOOSE g : Ap(l, g))[l]]
<1>4. ASSUME NEW l \in D PROVE \E g : Ap(l, g) /\ F[l] = g[l]
  BY <1>3
<1> HIDE DEF F
<1>5. ASSUME NEW l \in D
      PROVE  F[l] \in S /\ F[l] = IF l = 0 THEN z ELSE G[<<F[l-1], l>>]
  <2>1. PICK g : Ap(l, g) /\ F[l] = g[l]
    BY <1>4
  <2>2. l \in 0 .. l /\ F[l] \in S
    BY <1>1, <2>1
  <2>3. CASE l = 0
    BY <2>1, <2>2, <2>3
  <2>4. CASE l # 0
    <3>1. l - 1 \in D /\ l \in Nat /\ l - 1 \in Nat /\ l \in 1 .. l /\ l - 1 <= l
      BY <1>1, <2>4
    <3>2. PICK h : Ap(l - 1, h) /\ F[l-1] = h[l-1]
      BY <1>4, <3>1
    <3>3. g[l-1] = h[l-1]
      BY <1>2, <2>1, <3>1, <3>2
    <3> QED
      BY <2>1, <2>2, <2>4, <3>1, <3>2, <3>3
  <2> QED
    BY <2>3, <2>4
<1>6. F = [l \in D |-> IF l = 0 THEN z ELSE G[<<F[l-1], l>>]]
  <2>1. F = [l \in D |-> F[l]]
    BY DEF F
  <2> QED
    BY <1>5, <2>1
<1>7. F \in [D -> S]
  BY <1>5, <1>6
<1> QED
  BY <1>6, <1>7 DEF Defined

-----------------------------------------------------------------------------
(***************************************************************************)
(* Powers of two and the weights of words.                                 *)
(***************************************************************************)
LEMMA TwoLemma ==
  /\ Two[0] = 1
  /\ \A k \in Nat : Two[k] \in Nat \ {0} /\ Two[k+1] = 2 * Two[k]
<1> DEFINE G == [p \in Nat \X Nat |-> 2 * p[1]]
<1>1. PICK f \in [Nat -> Nat] : f = [k \in Nat |-> IF k = 0 THEN 1 ELSE G[<<f[k-1], k>>]]
  <2>1. 1 \in Nat /\ \A l \in Nat \ {0}, s \in Nat : G[<<s, l>>] \in Nat
    OBVIOUS
  <2> HIDE DEF G
  <2>2. Inductive(Nat, Nat, 1, G)
    BY <2>1 DEF Inductive
  <2>3. Defined(Nat, Nat, 1, G)
    BY <2>2, Recursion
  <2> QED
    BY <2>3 DEF Defined
<1>2. f = [k \in Nat |-> IF k = 0 THEN 1 ELSE 2 * f[k-1]]
  <2>1. ASSUME NEW k \in Nat, k # 0 PROVE G[<<f[k-1], k>>] = 2 * f[k-1]
    <3>1. k - 1 \in Nat
      BY <2>1
    <3> QED
      BY <3>1
  <2> HIDE DEF G
  <2> QED
    BY <1>1, <2>1
<1>3. Two = [k \in Nat |-> IF k = 0 THEN 1 ELSE 2 * Two[k-1]]
  BY <1>2 DEF Two
<1>4. Two[0] = 1 /\ \A k \in Nat : Two[k+1] = 2 * Two[k]
  <2>1. ASSUME NEW k \in Nat PROVE Two[k+1] = 2 * Two[k]
    <3>1. k + 1 \in Nat /\ k + 1 # 0 /\ (k + 1) - 1 = k
      OBVIOUS
    <3> QED
      BY <1>3, <3>1
  <2>2. Two[0] = 1
    BY <1>3
  <2> QED
    BY <2>1, <2>2
<1>5. ASSUME NEW k \in Nat PROVE Two[k] \in Nat \ {0}
  <2> DEFINE P == {l \in Nat : Two[l] \in Nat \ {0}}
  <2>1. P \in SUBSET Nat /\ 0 \in P
    BY <1>4
  <2>2. ASSUME NEW l \in P PROVE l + 1 \in P
    BY <1>4
  <2> HIDE DEF P
  <2>3. \A l \in Nat : l \in P
    BY <2>1, <2>2, Induction
  <2> QED
    BY <2>3 DEF P
<1> QED
  BY <1>4, <1>5

LEMMA BaseLemma ==
  Base \in Nat /\ Base >= 4 /\ UINT = 4 * Base /\ Base = 2 * Two[BLEN - 1] /\ Two[BLEN - 1] \in Nat
<1>1. BLEN - 1 \in Nat /\ BLEN - 2 \in Nat /\ (BLEN - 1) + 1 = BLEN /\ (BLEN - 2) + 1 = BLEN - 1
  BY WidthAssumption
<1>2. Two[(BLEN - 1) + 1] = 2 * Two[BLEN - 1] /\ Two[(BLEN - 2) + 1] = 2 * Two[BLEN - 2]
  BY <1>1, TwoLemma
<1>3. Two[BLEN] = 2 * Two[BLEN - 1] /\ Two[BLEN - 1] = 2 * Two[BLEN - 2] /\ Two[BLEN - 2] \in Nat \ {0}
  BY <1>1, <1>2, TwoLemma
<1> QED
  BY <1>3 DEF Base, UINT

LEMMA WeightLemma ==
  /\ Weight[0] = 1
  /\ \A k \in Nat : Weight[k] \in Nat \ {0} /\ Weight[k+1] = Base * Weight[k]
<1> DEFINE G == [p \in Nat \X Nat |-> Base * p[1]]
<1>1. PICK f \in [Nat -> Nat] : f = [k \in Nat |-> IF k = 0 THEN 1 ELSE G[<<f[k-1], k>>]]
  <2>1. 1 \in Nat /\ \A l \in Nat \ {0}, s \in Nat : G[<<s, l>>] \in Nat
    BY BaseLemma
  <2> HIDE DEF G
  <2>2. Inductive(Nat, Nat, 1, G)
    BY <2>1 DEF Inductive
  <2>3. Defined(Nat, Nat, 1, G)
    BY <2>2, Recursion
  <2> QED
    BY <2>3 DEF Defined
<1>2. f = [k \in Nat |-> IF k = 0 THEN 1 ELSE Base * f[k-1]]
  <2>1. ASSUME NEW k \in Nat, k # 0 PROVE G[<<f[k-1], k>>] = Base * f[k-1]
    <3>1. k - 1 \in Nat
      BY <2>1
    <3> QED
      BY <3>1
  <2> HIDE DEF G
  <2> QED
    BY <1>1, <2>1
<1>3. Weight = [k \in Nat |-> IF k = 0 THEN 1 ELSE Base * Weight[k-1]]
  BY <1>2 DEF Weight
<1>4. Weight[0] = 1 /\ \A k \in Nat : Weight[k+1] = Base * Weight[k]
  <2>1. ASSUME NEW k \in Nat PROVE Weight[k+1] = Base * Weight[k]
    <3>1. k + 1 \in Nat /\ k + 1 # 0 /\ (k + 1) - 1 = k
      OBVIOUS
    <3> QED
      BY <1>3, <3>1
  <2>2. Weight[0] = 1
    BY <1>3
  <2> QED
    BY <2>1, <2>2
<1>5. ASSUME NEW k \in Nat PROVE Weight[k] \in Nat \ {0}
  <2> DEFINE P == {l \in Nat : Weight[l] \in Nat \ {0}}
  <2>1. P \in SUBSET Nat /\ 0 \in P
    BY <1>4
  <2>2. ASSUME NEW l \in P PROVE l + 1 \in P
    <3>1. Weight[l] \in Nat /\ Weight[l] > 0 /\ Base \in Nat /\ Base > 0
      BY BaseLemma
    <3>2. Base * Weight[l] \in Nat /\ Base * Weight[l] > 0
      BY <3>1
    <3> QED
      BY <1>4, <3>2
  <2> HIDE DEF P
  <2>3. \A l \in Nat : l \in P
    BY <2>1, <2>2, Induction
  <2> QED
    BY <2>3 DEF P
<1> QED
  BY <1>4, <1>5

LEMMA WeightMonotone ==
  ASSUME NEW k \in Nat, NEW m \in Nat, k <= m
  PROVE  Weight[k] <= Weight[m]
<1> DEFINE P == {l \in Nat : Weight[k] <= Weight[k + l]}
<1>1. P \in SUBSET Nat /\ 0 \in P
  BY WeightLemma
<1>2. ASSUME NEW l \in P PROVE l + 1 \in P
  <2>1. k + l \in Nat /\ k + (l + 1) = (k + l) + 1
    OBVIOUS
  <2>2. /\ Weight[k] \in Nat /\ Weight[k + l] \in Nat
        /\ Weight[k + (l + 1)] = Base * Weight[k + l]
    BY <2>1, WeightLemma
  <2>3. Base * Weight[k + l] >= Weight[k + l]
    BY <2>2, BaseLemma
  <2> QED
    BY <2>2, <2>3, BaseLemma
<1>3. \A l \in Nat : l \in P
  <2> HIDE DEF P
  <2> QED
    BY <1>1, <1>2, Induction
<1>4. m - k \in Nat /\ k + (m - k) = m
  OBVIOUS
<1> QED
  BY <1>3, <1>4

-----------------------------------------------------------------------------
(***************************************************************************)
(* The value of the lowest words.                                          *)
(***************************************************************************)
LEMMA WordLemma ==
  ASSUME NEW x \in Bigint
  PROVE  /\ x.len \in Nat /\ x.len <= INT_LEN
         /\ \A k \in 0 .. INT_LEN - 1 : x.a[k] \in Nat /\ x.a[k] < Base
         /\ INT_LEN \in Nat /\ INT_LEN > 0
<1>1. INT_LEN \in Nat /\ INT_LEN > 0 /\ Base \in Nat
  BY LengthAssumption, BaseLemma
<1>2. x.len \in 0 .. INT_LEN /\ x.a \in [0 .. INT_LEN - 1 -> 0 .. Base - 1]
  BY DEF Bigint, Index
<1>3. ASSUME NEW k \in 0 .. INT_LEN - 1 PROVE x.a[k] \in Nat /\ x.a[k] < Base
  <2>1. x.a[k] \in 0 .. Base - 1
    BY <1>2
  <2> QED
    BY <1>1, <2>1
<1> QED
  BY <1>1, <1>2, <1>3

LEMMA LowestLemma ==
  ASSUME NEW x \in Bigint
  PROVE  /\ Lowest(x) \in [0 .. x.len -> Nat]
         /\ Lowest(x)[0] = 0
         /\ \A k \in 0 .. x.len - 1 : Lowest(x)[k+1] = Lowest(x)[k] + x.a[k] * Weight[k]
<1> DEFINE D == 0 .. x.len
           G == [p \in Nat \X D |-> p[1] + x.a[p[2] - 1] * Weight[p[2] - 1]]
<1>1. x.len \in Nat /\ \A k \in 0 .. x.len - 1 : x.a[k] \in Nat /\ Weight[k] \in Nat
  BY WordLemma, WeightLemma
<1>2. ASSUME NEW l \in D \ {0}, NEW s \in Nat
      PROVE  G[<<s, l>>] = s + x.a[l - 1] * Weight[l - 1] /\ G[<<s, l>>] \in Nat
  <2>1. l - 1 \in 0 .. x.len - 1
    BY <1>1
  <2>2. G[<<s, l>>] = s + x.a[l - 1] * Weight[l - 1]
    OBVIOUS
  <2>3. x.a[l - 1] * Weight[l - 1] \in Nat
    BY <1>1, <2>1
  <2> QED
    BY <2>2, <2>3
<1> HIDE DEF G
<1>3. Inductive(D, Nat, 0, G)
  BY <1>1, <1>2 DEF Inductive
<1>4. Defined(D, Nat, 0, G)
  BY <1>3, Recursion
<1>5. PICK f \in [D -> Nat] : f = [l \in D |-> IF l = 0 THEN 0 ELSE G[<<f[l-1], l>>]]
  BY <1>4 DEF Defined
<1>6. f = [l \in D |-> IF l = 0 THEN 0 ELSE f[l-1] + x.a[l - 1] * Weight[l - 1]]
  <2>1. ASSUME NEW l \in D, l # 0 PROVE G[<<f[l-1], l>>] = f[l-1] + x.a[l - 1] * Weight[l - 1]
    <3>1. l - 1 \in D
      BY <1>1, <2>1
    <3> QED
      BY <1>2, <2>1, <3>1
  <2> QED
    BY <1>5, <2>1
<1> DEFINE L == Lowest(x)
<1>7. L = [l \in D |-> IF l = 0 THEN 0 ELSE L[l-1] + x.a[l - 1] * Weight[l - 1]]
  BY <1>6 DEF Lowest
<1> HIDE DEF L
<1>8. L[0] = 0
  BY <1>1, <1>7
<1>9. ASSUME NEW k \in 0 .. x.len - 1 PROVE L[k+1] = L[k] + x.a[k] * Weight[k]
  <2>1. k + 1 \in D /\ k + 1 # 0 /\ (k + 1) - 1 = k
    BY <1>1
  <2> QED
    BY <1>7, <2>1
<1>10. ASSUME NEW k \in D PROVE L[k] \in Nat
  <2> DEFINE P == {l \in Nat : L[l] \in Nat}
  <2>1. 0 \in P
    BY <1>8
  <2>2. ASSUME NEW l \in Nat, l \in P, l < x.len PROVE l + 1 \in P
    <3>1. l \in 0 .. x.len - 1
      BY <1>1, <2>2
    <3>2. L[l+1] = L[l] + x.a[l] * Weight[l] /\ x.a[l] \in Nat /\ Weight[l] \in Nat /\ L[l] \in Nat
      BY <1>1, <1>9, <2>2, <3>1
    <3>3. L[l+1] \in Nat
      BY <3>2
    <3> QED
      BY <3>3
  <2> HIDE DEF P
  <2>3. \A l \in 0 .. x.len : l \in P
    BY <1>1, <2>1, <2>2, BoundedInduction
  <2> QED
    BY <2>3 DEF P
<1>11. L \in [D -> Nat]
  BY <1>7, <1>10
<1> QED
  BY <1>8, <1>9, <1>11 DEF L

LEMMA LowestBelow ==
  ASSUME NEW x \in Bigint, NEW k \in 0 .. x.len
  PROVE  Lowest(x)[k] \in Nat /\ Lowest(x)[k] < Weight[k]
<1> DEFINE L == Lowest(x)
           P == {l \in Nat : L[l] < Weight[l]}
<1>1. x.len \in Nat /\ L \in [0 .. x.len -> Nat]
  BY WordLemma, LowestLemma
<1>2. 0 \in P
  BY LowestLemma, WeightLemma
<1>3. ASSUME NEW l \in Nat, l \in P, l < x.len PROVE l + 1 \in P
  <2>1. l \in 0 .. x.len - 1 /\ l \in 0 .. x.len /\ l \in 0 .. INT_LEN - 1
    BY <1>1, <1>3, WordLemma
  <2>2. L[l+1] = L[l] + x.a[l] * Weight[l] /\ Weight[l+1] = Base * Weight[l]
    BY <2>1, LowestLemma, WeightLemma
  <2>3. x.a[l] \in Nat /\ x.a[l] < Base /\ Weight[l] \in Nat /\ Base \in Nat
    BY <2>1, WordLemma, WeightLemma, BaseLemma
  <2>4. L[l] \in Nat /\ L[l] < Weight[l]
    BY <1>1, <1>3, <2>1
  <2> DEFINE s == L[l]
             w == Weight[l]
             b == x.a[l]
  <2> HIDE DEF s, w, b, L
  <2>5. s \in Nat /\ w \in Nat /\ b \in Nat /\ Base \in Nat /\ b + 1 <= Base /\ s < w
    BY <2>3, <2>4 DEF s, w, b
  <2>6. (b + 1) * w <= Base * w
    BY <2>5
  <2>7. (b + 1) * w = b * w + w
    BY <2>5
  <2>8. b * w \in Nat /\ Base * w \in Nat
    BY <2>5
  <2>9. s + b * w < Base * w
    BY <2>5, <2>6, <2>7, <2>8
  <2>10. L[l+1] < Weight[l+1]
    BY <2>2, <2>9 DEF s, w, b
  <2> QED
    BY <2>10
<1> HIDE DEF P
<1>4. \A l \in 0 .. x.len : l \in P
  BY <1>1, <1>2, <1>3, BoundedInduction
<1> QED
  BY <1>1, <1>4 DEF P

\* The value depends on the words in use only.
LEMMA SameWords ==
  ASSUME NEW x \in Bigint, NEW y \in Bigint, NEW m \in Nat, m <= x.len, m <= y.len,
         \A j \in 0 .. m - 1 : x.a[j] = y.a[j]
  PROVE  \A k \in 0 .. m : Lowest(x)[k] = Lowest(y)[k]
<1> DEFINE P == {l \in Nat : Lowest(x)[l] = Lowest(y)[l]}
<1>1. x.len \in Nat /\ y.len \in Nat
  BY WordLemma
<1>2. 0 \in P
  BY LowestLemma
<1>3. ASSUME NEW l \in Nat, l \in P, l < m PROVE l + 1 \in P
  <2>1. l \in 0 .. x.len - 1 /\ l \in 0 .. y.len - 1 /\ l \in 0 .. m - 1
    BY <1>1, <1>3
  <2>2. /\ Lowest(x)[l+1] = Lowest(x)[l] + x.a[l] * Weight[l]
        /\ Lowest(y)[l+1] = Lowest(y)[l] + y.a[l] * Weight[l]
    BY <2>1, LowestLemma
  <2>3. Lowest(x)[l] = Lowest(y)[l] /\ x.a[l] = y.a[l]
    BY <1>3, <2>1
  <2>4. Lowest(x)[l+1] = Lowest(y)[l+1]
    BY <2>2, <2>3
  <2> QED
    BY <2>4
<1> HIDE DEF P
<1>4. \A l \in 0 .. m : l \in P
  BY <1>2, <1>3, BoundedInduction
<1> QED
  BY <1>4 DEF P

-----------------------------------------------------------------------------
(***************************************************************************)
(* Extrema of sets of naturals, and division.                              *)
(***************************************************************************)
LEMMA MinLemma ==
  ASSUME NEW S \in SUBSET Nat, S # {}
  PROVE  Min(S) \in S /\ Min(S) \in Nat /\ \A k \in S : Min(S) <= k
<1>1. PICK l \in S : \A k \in S : l <= k
  BY Least
<1> QED
  BY <1>1 DEF Min

LEMMA MaxLemma ==
  ASSUME NEW m \in Nat, NEW S \in SUBSET (0 .. m), S # {}
  PROVE  Max(S) \in S /\ Max(S) \in Nat /\ \A k \in S : k <= Max(S)
<1> DEFINE T == {m - k : k \in S}
<1>1. T \in SUBSET Nat /\ T # {}
  <2>1. ASSUME NEW k \in S PROVE m - k \in Nat
    OBVIOUS
  <2>2. PICK k \in S : TRUE
    OBVIOUS
  <2>3. m - k \in T
    OBVIOUS
  <2> QED
    BY <2>1, <2>3
<1>2. PICK t \in T : \A u \in T : t <= u
  <2> HIDE DEF T
  <2> QED
    BY <1>1, Least
<1>3. PICK l \in S : t = m - l
  BY <1>2
<1>4. ASSUME NEW k \in S PROVE l >= k
  <2>1. m - k \in T /\ m - l <= m - k
    BY <1>2, <1>3
  <2> QED
    BY <2>1
<1>5. \E y \in S : \A k \in S : y >= k
  BY <1>4
<1>6. Max(S) \in S /\ \A k \in S : Max(S) >= k
  BY <1>5 DEF Max
<1> DEFINE u == Max(S)
<1>7. u \in S /\ \A k \in S : u >= k
  BY <1>6
<1> HIDE DEF u
<1>8. u \in S /\ u \in Nat /\ \A k \in S : k <= u
  BY <1>7
<1> QED
  BY <1>8 DEF u

LEMMA Division ==
  ASSUME NEW v \in Nat, NEW d \in Nat \ {0}
  PROVE  /\ v \div d \in Nat /\ v % d \in Nat /\ v % d < d
         /\ v = d * (v \div d) + (v % d)
<1>1. v \div d \in Nat /\ v % d \in Nat /\ v % d < d
  OBVIOUS
<1>2. ASSUME NEW q, q = v \div d, NEW r, r = v % d PROVE v = d * q + r
  BY <1>2
<1> QED
  BY <1>1, <1>2

LEMMA Quotient ==
  ASSUME NEW d \in Nat \ {0}, NEW q \in Nat, NEW r \in Nat, r < d
  PROVE  (d * q + r) \div d = q /\ (d * q + r) % d = r
<1> DEFINE v == d * q + r
<1>1. v \in Nat /\ v = d * q + r
  OBVIOUS
<1> HIDE DEF v
<1>2. v \div d = q /\ v % d = r
  BY <1>1
<1> QED
  BY <1>2 DEF v

LEMMA SmallRemainder ==
  ASSUME NEW d \in Nat, NEW v \in Nat, v < d
  PROVE  v % d = v /\ v \div d = 0
<1>1. d * 0 + v = v
  OBVIOUS
<1> QED
  BY <1>1, Quotient

LEMMA SmallQuotient ==
  ASSUME NEW d \in Nat \ {0}, NEW m \in Nat, NEW v \in Nat, v < m * d
  PROVE  v \div d < m
<1> SUFFICES ASSUME NEW q, q = v \div d, q >= m PROVE FALSE
  OBVIOUS
<1>1. q \in Nat /\ d * q <= v
  BY Division
<1>2. m * d <= d * q
  BY <1>1
<1>3. m * d \in Nat /\ d * q \in Nat
  BY <1>1
<1> QED
  BY <1>1, <1>2, <1>3

LEMMA Associative ==
  ASSUME NEW p \in Nat, NEW q \in Nat, NEW r \in Nat
  PROVE  p * (q * r) = (p * q) * r /\ p * q = q * p /\ p * q \in Nat /\ p * (q + r) = p * q + p * r
OBVIOUS

LEMMA TwoSum ==
  ASSUME NEW k \in Nat, NEW m \in Nat
  PROVE  Two[k + m] = Two[k] * Two[m]
<1> DEFINE P == {l \in Nat : Two[k + l] = Two[k] * Two[l]}
<1>1. P \in SUBSET Nat /\ 0 \in P
  BY TwoLemma
<1>2. ASSUME NEW l \in P PROVE l + 1 \in P
  <2>1. k + l \in Nat /\ k + (l + 1) = (k + l) + 1
    OBVIOUS
  <2>2. Two[k + (l + 1)] = 2 * Two[k + l] /\ Two[l + 1] = 2 * Two[l]
    BY <2>1, TwoLemma
  <2>3. Two[k] \in Nat /\ Two[l] \in Nat /\ Two[k + l] = Two[k] * Two[l]
    BY TwoLemma
  <2>4. 2 * (Two[k] * Two[l]) = Two[k] * (2 * Two[l])
    BY <2>3
  <2> QED
    BY <2>2, <2>3, <2>4
<1>3. \A l \in Nat : l \in P
  <2> HIDE DEF P
  <2> QED
    BY <1>1, <1>2, Induction
<1> QED
  BY <1>3

LEMMA WeightSum ==
  ASSUME NEW k \in Nat, NEW m \in Nat
  PROVE  Weight[k + m] = Weight[k] * Weight[m]
<1> DEFINE P == {l \in Nat : Weight[k + l] = Weight[k] * Weight[l]}
<1>1. P \in SUBSET Nat /\ 0 \in P
  BY WeightLemma
<1>2. ASSUME NEW l \in P PROVE l + 1 \in P
  <2>1. k + l \in Nat /\ k + (l + 1) = (k + l) + 1
    OBVIOUS
  <2>2. Weight[k + (l + 1)] = Base * Weight[k + l] /\ Weight[l + 1] = Base * Weight[l]
    BY <2>1, WeightLemma
  <2>3. Weight[k] \in Nat /\ Weight[l] \in Nat /\ Weight[k + l] = Weight[k] * Weight[l] /\ Base \in Nat
    BY WeightLemma, BaseLemma
  <2>4. Base * (Weight[k] * Weight[l]) = Weight[k] * (Base * Weight[l])
    BY <2>3
  <2> QED
    BY <2>2, <2>3, <2>4
<1>3. \A l \in Nat : l \in P
  <2> HIDE DEF P
  <2> QED
    BY <1>1, <1>2, Induction
<1> QED
  BY <1>3

-----------------------------------------------------------------------------
(***************************************************************************)
(* Multiply and add.                                                       *)
(***************************************************************************)
LEMMA CarriesLemma ==
  ASSUME NEW x \in Bigint, NEW k \in 1 .. 3, NEW c \in 0 .. Base
  PROVE  /\ Carries(x, k, c)[0] = c
         /\ \A l \in 0 .. x.len : Carries(x, k, c)[l] \in 0 .. Base /\ (l # 0 => Carries(x, k, c)[l] <= 3)
         /\ \A l \in 0 .. x.len - 1 :
              /\ Raw(x, k, l, Carries(x, k, c)[l]) = k * x.a[l] + Carries(x, k, c)[l]
              /\ Carries(x, k, c)[l+1] = (k * x.a[l] + Carries(x, k, c)[l]) \div Base
<1> DEFINE D == 0 .. x.len
           G == [p \in Nat \X D |-> Raw(x, k, p[2] - 1, p[1]) \div Base]
           C == Carries(x, k, c)
<1>1. /\ x.len \in Nat /\ Base \in Nat /\ Base >= 4 /\ UINT = 4 * Base /\ c \in Nat
      /\ \A l \in 0 .. x.len - 1 : x.a[l] \in Nat /\ x.a[l] < Base
  <2>1. \A l \in 0 .. x.len - 1 : l \in 0 .. INT_LEN - 1
    BY WordLemma
  <2> QED
    BY <2>1, WordLemma, BaseLemma
<1>2. ASSUME NEW l \in D \ {0}, NEW s \in Nat
      PROVE  G[<<s, l>>] = Raw(x, k, l - 1, s) \div Base /\ G[<<s, l>>] \in Nat
  <2>1. x.a[l - 1] \in Nat
    BY <1>1
  <2>2. k * x.a[l - 1] + s \in Nat
    BY <2>1
  <2>3. Raw(x, k, l - 1, s) \in Nat
    BY <1>1, <2>2 DEF Raw
  <2>4. Raw(x, k, l - 1, s) \div Base \in Nat
    BY <1>1, <2>3
  <2> QED
    BY <2>4
<1> HIDE DEF G
<1>3. Inductive(D, Nat, c, G)
  BY <1>1, <1>2 DEF Inductive
<1>4. Defined(D, Nat, c, G)
  BY <1>3, Recursion
<1>5. PICK f \in [D -> Nat] : f = [l \in D |-> IF l = 0 THEN c ELSE G[<<f[l-1], l>>]]
  BY <1>4 DEF Defined
<1>6. f = [l \in D |-> IF l = 0 THEN c ELSE Raw(x, k, l - 1, f[l-1]) \div Base]
  <2>1. ASSUME NEW l \in D, l # 0 PROVE G[<<f[l-1], l>>] = Raw(x, k, l - 1, f[l-1]) \div Base
    <3>1. l - 1 \in D
      BY <1>1, <2>1
    <3> QED
      BY <1>2, <2>1, <3>1
  <2> QED
    BY <1>5, <2>1
<1>7. C = [l \in D |-> IF l = 0 THEN c ELSE Raw(x, k, l - 1, C[l-1]) \div Base]
  BY <1>6 DEF Carries
<1> HIDE DEF C
<1>8. C[0] = c
  BY <1>1, <1>7
<1>9. ASSUME NEW l \in 0 .. x.len - 1 PROVE C[l+1] = Raw(x, k, l, C[l]) \div Base
  <2>1. l + 1 \in D /\ l + 1 # 0 /\ (l + 1) - 1 = l
    BY <1>1
  <2> QED
    BY <1>7, <2>1
<1>10. ASSUME NEW l \in 0 .. x.len - 1, C[l] \in 0 .. Base
       PROVE  /\ Raw(x, k, l, C[l]) = k * x.a[l] + C[l]
              /\ C[l+1] = (k * x.a[l] + C[l]) \div Base
              /\ C[l+1] \in 0 .. 3
  <2> DEFINE v == k * x.a[l]
  <2>1. x.a[l] \in Nat /\ x.a[l] <= Base - 1
    BY <1>1
  <2>2. v \in Nat /\ v <= 3 * Base - 3
    BY <1>1, <2>1
  <2> HIDE DEF v
  <2>3. v + C[l] \in Nat /\ v + C[l] < 4 * Base
    BY <1>1, <1>10, <2>2
  <2>4. (v + C[l]) % (4 * Base) = v + C[l]
    <3>1. 4 * Base \in Nat
      BY <1>1
    <3> QED
      BY <2>3, <3>1, SmallRemainder
  <2>5. (v + C[l]) \div Base \in 0 .. 3
    <3>1. Base \in Nat \ {0} /\ v + C[l] \in Nat /\ v + C[l] < 4 * Base /\ 4 \in Nat
      BY <1>1, <2>3
    <3>2. (v + C[l]) \div Base < 4
      BY <3>1, SmallQuotient
    <3>3. (v + C[l]) \div Base \in Nat
      BY <3>1, Division
    <3> DEFINE q == (v + C[l]) \div Base
    <3> HIDE DEF q
    <3>4. q \in 0 .. 3
      BY <3>2, <3>3 DEF q
    <3> QED
      BY <3>4 DEF q
  <2>6. Raw(x, k, l, C[l]) = v + C[l]
    BY <1>1, <2>4 DEF Raw, v
  <2> QED
    BY <1>9, <2>5, <2>6 DEF v
<1>11. \A l \in 0 .. x.len : C[l] \in 0 .. Base /\ (l # 0 => C[l] <= 3)
  <2> DEFINE P == {l \in Nat : C[l] \in 0 .. Base /\ (l # 0 => C[l] <= 3)}
  <2>1. 0 \in P
    BY <1>8
  <2>2. ASSUME NEW l \in Nat, l \in P, l < x.len PROVE l + 1 \in P
    <3>1. l \in 0 .. x.len - 1 /\ C[l] \in 0 .. Base
      BY <1>1, <2>2
    <3>2. C[l+1] \in 0 .. 3
      BY <1>10, <3>1
    <3>3. C[l+1] \in 0 .. Base /\ C[l+1] <= 3
      BY <1>1, <3>2
    <3> QED
      BY <3>3
  <2> HIDE DEF P
  <2>3. \A l \in 0 .. x.len : l \in P
    BY <1>1, <2>1, <2>2, BoundedInduction
  <2> QED
    BY <2>3 DEF P
<1>12. \A l \in 0 .. x.len - 1 : l \in 0 .. x.len
  BY <1>1
<1> QED
  BY <1>8, <1>10, <1>11, <1>12 DEF C

\* The words after the loop, whose value lacks the last carry.
LEMMA LoopLemma ==
  ASSUME NEW x \in Bigint, NEW k \in 1 .. 3, NEW c \in 0 .. Base,
         NEW y, y = [x EXCEPT !.a = Words(x, k, c)]
  PROVE  /\ y \in Bigint /\ y.len = x.len
         /\ Value(y) + Carries(x, k, c)[x.len] * Weight[x.len] = k * Value(x) + c
<1> DEFINE C == Carries(x, k, c)
           LX == Lowest(x)
           LY == Lowest(y)
<1>1. /\ x.len \in Nat /\ x.len <= INT_LEN /\ Base \in Nat \ {0} /\ INT_LEN \in Nat
      /\ \A l \in 0 .. INT_LEN - 1 : x.a[l] \in Nat /\ x.a[l] < Base
  BY WordLemma, BaseLemma
<1>2. \A l \in 0 .. x.len - 1 : Raw(x, k, l, C[l]) = k * x.a[l] + C[l]
  BY CarriesLemma
<1>3. \A l \in 0 .. x.len : C[l] \in Nat
  BY <1>1, CarriesLemma
<1>4. \A l \in 0 .. x.len - 1 : k * x.a[l] + C[l] \in Nat
  <2> TAKE l \in 0 .. x.len - 1
  <2>1. x.a[l] \in Nat /\ C[l] \in Nat
    BY <1>1, <1>3
  <2> QED
    BY <2>1
<1> HIDE DEF C
<1>5. Words(x, k, c) = [l \in Index |-> IF l < x.len THEN (k * x.a[l] + C[l]) % Base ELSE x.a[l]]
  <2>1. ASSUME NEW l \in Index, l < x.len
        PROVE  Raw(x, k, l, C[l]) = k * x.a[l] + C[l]
    <3>1. l \in 0 .. x.len - 1
      BY <1>1, <2>1 DEF Index
    <3> QED
      BY <1>2, <3>1
  <2> QED
    BY <2>1 DEF Words, C
<1> DEFINE W == Words(x, k, c)
<1>6. W \in [Index -> 0 .. Base - 1]
  <2>1. ASSUME NEW l \in Index
        PROVE  (IF l < x.len THEN (k * x.a[l] + C[l]) % Base ELSE x.a[l]) \in 0 .. Base - 1
    <3>1. CASE l < x.len
      <4>1. k * x.a[l] + C[l] \in Nat
        BY <1>1, <1>4, <3>1 DEF Index
      <4>2. (k * x.a[l] + C[l]) % Base \in 0 .. Base - 1
        BY <1>1, <4>1
      <4> QED
        BY <3>1, <4>2
    <3>2. CASE ~ (l < x.len)
      BY <1>1, <3>2 DEF Index
    <3> QED
      BY <3>1, <3>2
  <2> QED
    BY <1>5, <2>1
<1> HIDE DEF W
<1>7. y.len = x.len /\ y.a = W /\ y \in Bigint
  BY <1>6 DEF Bigint, W
<1>8. ASSUME NEW l \in 0 .. x.len - 1
      PROVE  y.a[l] = (k * x.a[l] + C[l]) % Base /\ C[l+1] = (k * x.a[l] + C[l]) \div Base
  <2>1. l \in Index /\ l < x.len
    BY <1>1 DEF Index
  <2>2. C[l+1] = (k * x.a[l] + C[l]) \div Base
    BY CarriesLemma DEF C
  <2> QED
    BY <1>5, <1>7, <2>1, <2>2 DEF W
<1> DEFINE P == {l \in Nat : LY[l] + C[l] * Weight[l] = k * LX[l] + c}
<1>9. 0 \in P
  <2>1. LY[0] = 0 /\ LX[0] = 0 /\ Weight[0] = 1 /\ C[0] = c
    BY <1>7, LowestLemma, WeightLemma, CarriesLemma DEF C
  <2> QED
    BY <2>1
<1>10. ASSUME NEW l \in Nat, l \in P, l < x.len PROVE l + 1 \in P
  <2>1. l \in 0 .. x.len - 1 /\ l \in 0 .. x.len /\ l + 1 \in 0 .. x.len /\ l \in 0 .. INT_LEN - 1
    BY <1>1, <1>10
  <2>2. /\ LX[l+1] = LX[l] + x.a[l] * Weight[l]
        /\ LY[l+1] = LY[l] + y.a[l] * Weight[l]
        /\ Weight[l+1] = Base * Weight[l]
    BY <1>7, <2>1, LowestLemma, WeightLemma
  <2>3. /\ x.a[l] \in Nat /\ C[l] \in Nat /\ C[l+1] \in Nat /\ Weight[l] \in Nat
        /\ LX[l] \in Nat /\ LY[l] \in Nat /\ y.a[l] \in Nat
    BY <1>1, <1>3, <1>7, <2>1, LowestLemma, WeightLemma, WordLemma
  <2>4. k * x.a[l] + C[l] = Base * C[l+1] + y.a[l]
    BY <1>1, <1>4, <1>8, <2>1, Division
  <2> DEFINE a == x.a[l]
             b == y.a[l]
             d == C[l]
             e == C[l+1]
             w == Weight[l]
             s == LX[l]
             t == LY[l]
  <2> HIDE DEF a, b, d, e, w, s, t
  <2>5. a \in Nat /\ b \in Nat /\ d \in Nat /\ e \in Nat /\ w \in Nat /\ s \in Nat /\ t \in Nat
    BY <2>3 DEF a, b, d, e, w, s, t
  <2>6. k * a + d = Base * e + b /\ t + d * w = k * s + c
    BY <1>10, <2>4 DEF a, b, d, e, w, s, t
  <2>7. (t + b * w) + e * (Base * w) = k * (s + a * w) + c
    <3>1. (k * a + d) * w = (Base * e + b) * w
      BY <2>6
    <3>2. k * (a * w) + d * w = e * (Base * w) + b * w
      BY <1>1, <2>5, <3>1
    <3> DEFINE aw == k * (a * w)
               dw == d * w
               ew == e * (Base * w)
               bw == b * w
    <3>3. k * (s + a * w) = k * s + aw /\ aw \in Nat /\ dw \in Nat /\ ew \in Nat /\ bw \in Nat /\ k * s \in Nat
      BY <1>1, <2>5
    <3> HIDE DEF aw, dw, ew, bw
    <3>4. aw + dw = ew + bw /\ t + dw = k * s + c
      BY <2>6, <3>2 DEF aw, dw, ew, bw
    <3>5. (t + bw) + ew = (k * s + aw) + c
      BY <2>5, <3>3, <3>4
    <3> QED
      BY <3>3, <3>5 DEF bw, ew
  <2>8. LY[l+1] + C[l+1] * Weight[l+1] = k * LX[l+1] + c
    BY <2>2, <2>7 DEF a, b, d, e, w, s, t
  <2> QED
    BY <2>8
<1> HIDE DEF P
<1>11. \A l \in 0 .. x.len : l \in P
  BY <1>1, <1>9, <1>10, BoundedInduction
<1>12. x.len \in P
  BY <1>1, <1>11
<1>13. Value(y) = LY[x.len] /\ Value(x) = LX[x.len]
  BY <1>7 DEF Value
<1> QED
  BY <1>7, <1>12, <1>13 DEF P, C

\* In normal form the value tells the length.
LEMMA CanonicalLemma ==
  ASSUME NEW x \in Bigint, Canonical(x)
  PROVE  /\ Value(x) \in Nat /\ x.len \in Nat \ {0} /\ x.len <= INT_LEN
         /\ Weight[x.len - 1] <= Value(x) /\ Value(x) < Weight[x.len]
<1>1. x.len \in Nat \ {0} /\ x.len <= INT_LEN /\ x.a[x.len - 1] # 0
  BY WordLemma DEF Canonical
<1> DEFINE l == x.len - 1
<1>2. l \in Nat /\ l + 1 = x.len /\ l \in 0 .. x.len - 1 /\ l \in 0 .. INT_LEN - 1 /\ l \in 0 .. x.len /\ x.len \in 0 .. x.len
  BY <1>1, WordLemma
<1> HIDE DEF l
<1>3. Value(x) = Lowest(x)[l] + x.a[l] * Weight[l]
  BY <1>2, LowestLemma DEF Value
<1>4. Value(x) \in Nat /\ Value(x) < Weight[x.len]
  BY <1>2, LowestBelow DEF Value
<1>5. Lowest(x)[l] \in Nat /\ Weight[l] \in Nat /\ x.a[l] \in Nat /\ x.a[l] >= 1
  <2>1. x.a[l] \in Nat /\ x.a[l] # 0
    BY <1>1, <1>2, WordLemma DEF l
  <2>2. Lowest(x)[l] \in Nat /\ Weight[l] \in Nat
    BY <1>2, LowestBelow, WeightLemma
  <2> QED
    BY <2>1, <2>2
<1>6. x.a[l] * Weight[l] \in Nat /\ x.a[l] * Weight[l] >= Weight[l]
  BY <1>5
<1>7. Weight[l] <= Value(x)
  BY <1>3, <1>5, <1>6
<1> QED
  BY <1>1, <1>4, <1>7 DEF l

LEMMA TopWord ==
  ASSUME NEW x \in Bigint, x.len # 0, Weight[x.len - 1] <= Value(x)
  PROVE  Canonical(x)
<1>1. x.len \in Nat \ {0} /\ x.len <= INT_LEN /\ INT_LEN \in Nat
  BY WordLemma
<1> DEFINE l == x.len - 1
<1>2. l \in Nat /\ l + 1 = x.len /\ l \in 0 .. x.len - 1 /\ l \in 0 .. INT_LEN - 1 /\ l \in 0 .. x.len
  BY <1>1
<1> HIDE DEF l
<1>3. Value(x) = Lowest(x)[l] + x.a[l] * Weight[l]
  BY <1>2, LowestLemma DEF Value
<1>4. Lowest(x)[l] \in Nat /\ Lowest(x)[l] < Weight[l] /\ Weight[l] \in Nat
  BY <1>2, LowestBelow, WeightLemma
<1>5. x.a[l] # 0
  <2> SUFFICES ASSUME x.a[l] = 0 PROVE FALSE
    OBVIOUS
  <2>1. Value(x) = Lowest(x)[l]
    BY <1>3, <1>4
  <2>2. Weight[l] <= Value(x)
    BY DEF l
  <2> QED
    BY <1>4, <2>1, <2>2
<1>6. \A j \in 0 .. x.len - 1 : x.a[j] < Base
  <2>1. \A j \in 0 .. x.len - 1 : j \in 0 .. INT_LEN - 1
    BY <1>1
  <2> QED
    BY <2>1, WordLemma
<1> QED
  BY <1>1, <1>5, <1>6 DEF Canonical, l

\* MulAdd keeps the type; on a number in normal form it is k * x + c, and it
\* overflows exactly when that does not fit.
LEMMA MulAddLemma ==
  ASSUME NEW x \in Bigint, x.len # 0, NEW k \in 1 .. 3, NEW c \in 0 .. Base
  PROVE  /\ MulAdd(x, k, c).num \in Bigint /\ MulAdd(x, k, c).num.len # 0
         /\ MulAdd(x, k, c).over \in BOOLEAN
         /\ Canonical(x) =>
              /\ MulAdd(x, k, c).over <=> k * Value(x) + c >= Weight[INT_LEN]
              /\ ~ MulAdd(x, k, c).over =>
                   /\ Canonical(MulAdd(x, k, c).num)
                   /\ Value(MulAdd(x, k, c).num) = k * Value(x) + c
<1> DEFINE y == [x EXCEPT !.a = Words(x, k, c)]
           out == Carries(x, k, c)[x.len]
           m == MulAdd(x, k, c)
           v == k * Value(x) + c
<1>1. /\ x.len \in Nat /\ x.len <= INT_LEN /\ INT_LEN \in Nat
      /\ Base \in Nat /\ Base >= 4 /\ x.len \in 0 .. x.len
  BY WordLemma, BaseLemma
<1>2. y \in Bigint /\ y.len = x.len /\ Value(y) + out * Weight[x.len] = v
  BY LoopLemma
<1>3. out \in Nat /\ out <= 3
  BY <1>1, CarriesLemma
<1>4. m = IF out = 0 THEN Result(y, FALSE)
          ELSE IF Full(x) THEN Result(y, TRUE)
          ELSE Result([y EXCEPT !.a[x.len] = out, !.len = x.len + 1], FALSE)
  BY DEF MulAdd
<1>5. Weight[x.len] \in Nat \ {0} /\ Weight[x.len] <= Weight[INT_LEN] /\ Weight[INT_LEN] \in Nat
  BY <1>1, WeightLemma, WeightMonotone
<1>6. Value(y) \in Nat /\ Value(y) < Weight[x.len]
  BY <1>1, <1>2, LowestBelow DEF Value
<1>7. ASSUME Canonical(x)
      PROVE  x.len # 0 /\ v \in Nat /\ Weight[x.len - 1] <= v
  <2>1. x.len \in Nat \ {0} /\ Value(x) \in Nat /\ Weight[x.len - 1] <= Value(x) /\ Weight[x.len - 1] \in Nat
    BY <1>7, CanonicalLemma, WeightLemma
  <2>2. k * Value(x) \in Nat /\ k * Value(x) >= Value(x)
    BY <2>1
  <2> QED
    BY <2>1, <2>2
<1> HIDE DEF y, out, m, v
<1>8. CASE out = 0
  <2>1. m.num = y /\ m.over = FALSE
    BY <1>4, <1>8 DEF Result
  <2>2. Value(y) = v
    BY <1>2, <1>5, <1>6, <1>8
  <2>3. ASSUME Canonical(x) PROVE Canonical(y)
    BY <1>2, <1>7, <2>2, <2>3, TopWord
  <2>4. ~ (v >= Weight[INT_LEN])
    BY <1>5, <1>6, <2>2
  <2>5. y.len # 0
    BY <1>2
  <2> QED
    BY <1>2, <2>1, <2>2, <2>3, <2>4, <2>5 DEF m, v
<1>9. CASE out # 0 /\ Full(x)
  <2>1. m.num = y /\ m.over = TRUE /\ x.len = INT_LEN
    BY <1>1, <1>4, <1>9 DEF Result, Full
  <2>2. out * Weight[x.len] \in Nat /\ out * Weight[x.len] >= Weight[x.len]
    BY <1>3, <1>5, <1>9
  <2>3. v >= Weight[INT_LEN]
    BY <1>2, <1>5, <1>6, <2>1, <2>2
  <2>4. y.len # 0
    BY <1>2
  <2> QED
    BY <1>2, <2>1, <2>3, <2>4 DEF m, v
<1>10. CASE out # 0 /\ ~ Full(x)
  <2> DEFINE z == [y EXCEPT !.a[x.len] = out, !.len = x.len + 1]
             l == x.len
  <2>1. m.num = z /\ m.over = FALSE /\ x.len + 1 <= INT_LEN
    BY <1>1, <1>4, <1>10 DEF Result, Full
  <2>2. z.len = x.len + 1 /\ z.a = [y.a EXCEPT ![x.len] = out] /\ y.a \in [Index -> 0 .. Base - 1]
    BY <1>2 DEF Bigint
  <2>3. out \in 0 .. Base - 1 /\ l \in Index /\ l \in Nat /\ z.len \in 0 .. INT_LEN /\ z.len # 0
    BY <1>1, <1>3, <2>1, <2>2 DEF Index
  <2>4. z.a \in [Index -> 0 .. Base - 1] /\ z.a[l] = out /\ \A j \in 0 .. l - 1 : z.a[j] = y.a[j]
    <3>1. z.a \in [Index -> 0 .. Base - 1]
      BY <2>2, <2>3
    <3>2. \A j \in 0 .. l - 1 : j \in Index /\ j # l
      <4>1. l \in Nat /\ l <= INT_LEN - 1 /\ INT_LEN \in Nat
        BY <1>1, <2>1
      <4> HIDE DEF l
      <4> QED
        BY <4>1 DEF Index
    <3> QED
      BY <2>2, <2>3, <3>1, <3>2
  <2>5. z \in Bigint
    BY <1>2, <2>3, <2>4 DEF Bigint
  <2> HIDE DEF z, l
  <2>6. Lowest(z)[l] = Value(y)
    <3>1. l <= z.len /\ l <= y.len /\ l \in 0 .. l /\ y.len = l
      BY <1>1, <1>2, <2>2 DEF l
    <3>2. Lowest(z)[l] = Lowest(y)[l]
      BY <1>2, <2>3, <2>4, <2>5, <3>1, SameWords
    <3> QED
      BY <3>1, <3>2 DEF Value
  <2>7. Value(z) = Lowest(z)[l] + z.a[l] * Weight[l]
    <3>1. l \in 0 .. z.len - 1 /\ z.len = l + 1
      BY <1>1, <2>2 DEF l
    <3> QED
      BY <2>5, <3>1, LowestLemma DEF Value
  <2>8. Value(z) = v
    BY <1>2, <2>4, <2>6, <2>7 DEF l
  <2>9. Value(z) < Weight[INT_LEN] /\ Value(z) \in Nat
    <3>1. z.len \in Nat /\ z.len <= INT_LEN /\ z.len \in 0 .. z.len
      BY <1>1, <2>3
    <3>2. Value(z) \in Nat /\ Value(z) < Weight[z.len] /\ Weight[z.len] <= Weight[INT_LEN] /\ Weight[z.len] \in Nat
      BY <1>1, <2>5, <3>1, LowestBelow, WeightMonotone, WeightLemma DEF Value
    <3> QED
      BY <1>5, <3>2
  <2>10. Canonical(z)
    <3>1. z.len - 1 = l
      BY <1>1, <2>2 DEF l
    <3>2. out * Weight[l] \in Nat /\ out * Weight[l] >= Weight[l] /\ Weight[l] \in Nat
      BY <1>3, <1>5, <1>10 DEF l
    <3>3. Weight[l] <= v
      BY <1>2, <1>6, <3>2 DEF l
    <3> QED
      BY <2>3, <2>5, <2>8, <3>1, <3>3, TopWord
  <2>11. ~ (v >= Weight[INT_LEN])
    BY <1>5, <2>8, <2>9
  <2>12. z.len # 0
    BY <2>3
  <2> QED
    BY <2>1, <2>5, <2>8, <2>10, <2>11, <2>12 DEF m, v
<1> QED
  BY <1>8, <1>9, <1>10

\* rl_set copies the number, whatever the words above it are.
LEMMA SetLemma ==
  ASSUME NEW x \in Bigint, NEW y \in Bigint, y.len # 0
  PROVE  /\ rl_set(x, y) \in Bigint /\ rl_set(x, y).len # 0
         /\ Value(rl_set(x, y)) = Value(y)
         /\ Canonical(y) => Canonical(rl_set(x, y))
<1> DEFINE z == rl_set(x, y)
<1>1. z.len = y.len /\ z.a = [l \in Index |-> IF l < y.len THEN y.a[l] ELSE x.a[l]]
  BY DEF rl_set
<1>2. /\ x.a \in [Index -> 0 .. Base - 1] /\ y.a \in [Index -> 0 .. Base - 1]
      /\ y.len \in 0 .. INT_LEN /\ y.len \in Nat /\ y.len <= INT_LEN /\ INT_LEN \in Nat
  BY WordLemma DEF Bigint
<1>3. z \in Bigint
  BY <1>2 DEF Bigint, rl_set
<1> HIDE DEF z
<1>4. \A l \in 0 .. y.len - 1 : z.a[l] = y.a[l]
  <2>1. \A l \in 0 .. y.len - 1 : l \in Index /\ l < y.len
    BY <1>2 DEF Index
  <2> QED
    BY <1>1, <2>1
<1>5. Value(z) = Value(y)
  <2>1. y.len \in 0 .. y.len /\ y.len <= y.len /\ y.len <= z.len
    BY <1>1, <1>2
  <2>2. Lowest(z)[y.len] = Lowest(y)[y.len]
    BY <1>2, <1>3, <1>4, <2>1, SameWords
  <2> QED
    BY <1>1, <2>2 DEF Value
<1>6. ASSUME Canonical(y) PROVE Canonical(z)
  <2>1. Weight[z.len - 1] <= Value(z)
    BY <1>1, <1>5, <1>6, CanonicalLemma
  <2> QED
    BY <1>1, <1>3, <2>1, TopWord
<1> QED
  BY <1>1, <1>3, <1>5, <1>6 DEF z

-----------------------------------------------------------------------------
(***************************************************************************)
(* Comparisons.                                                            *)
(***************************************************************************)
LEMMA LongerIsGreater ==
  ASSUME NEW x \in Bigint, NEW y \in Bigint, Canonical(x), Canonical(y), x.len > y.len
  PROVE  Value(x) > Value(y)
<1>1. /\ x.len \in Nat \ {0} /\ y.len \in Nat
      /\ Weight[x.len - 1] <= Value(x) /\ Value(y) < Weight[y.len] /\ Value(x) \in Nat /\ Value(y) \in Nat
  BY CanonicalLemma
<1>2. x.len - 1 \in Nat /\ y.len <= x.len - 1
  BY <1>1
<1>3. Weight[y.len] <= Weight[x.len - 1] /\ Weight[y.len] \in Nat /\ Weight[x.len - 1] \in Nat
  BY <1>1, <1>2, WeightMonotone, WeightLemma
<1> QED
  BY <1>1, <1>3

\* The highest word in which two numbers of a length differ decides.
LEMMA HighestDecides ==
  ASSUME NEW x \in Bigint, NEW y \in Bigint, x.len = y.len,
         NEW d \in 0 .. x.len - 1, x.a[d] > y.a[d],
         \A l \in 0 .. x.len - 1 : l > d => x.a[l] = y.a[l]
  PROVE  Value(x) > Value(y)
<1> DEFINE LX == Lowest(x)
           LY == Lowest(y)
           P == {l \in Nat : LX[d + 1 + l] > LY[d + 1 + l]}
<1>1. /\ x.len \in Nat /\ x.len <= INT_LEN /\ d \in Nat /\ d < x.len /\ d \in 0 .. x.len /\ INT_LEN \in Nat
      /\ d \in 0 .. INT_LEN - 1
  BY WordLemma
<1>2. 0 \in P
  <2>1. LX[d + 1] = LX[d] + x.a[d] * Weight[d] /\ LY[d + 1] = LY[d] + y.a[d] * Weight[d]
    BY LowestLemma
  <2>2. LX[d] \in Nat /\ LY[d] \in Nat /\ LY[d] < Weight[d] /\ Weight[d] \in Nat
    BY <1>1, LowestBelow, WeightLemma
  <2>3. x.a[d] \in Nat /\ y.a[d] \in Nat /\ x.a[d] >= y.a[d] + 1
    BY <1>1, WordLemma
  <2>4. x.a[d] * Weight[d] >= (y.a[d] + 1) * Weight[d] /\ x.a[d] * Weight[d] \in Nat
    BY <2>2, <2>3
  <2>5. (y.a[d] + 1) * Weight[d] = y.a[d] * Weight[d] + Weight[d] /\ y.a[d] * Weight[d] \in Nat
    BY <2>2, <2>3
  <2>6. LX[d] + x.a[d] * Weight[d] > LY[d] + y.a[d] * Weight[d]
    BY <2>2, <2>4, <2>5
  <2>7. LX[d + 1] > LY[d + 1]
    BY <2>1, <2>6
  <2> HIDE DEF LX, LY
  <2>8. d + 1 + 0 = d + 1
    BY <1>1
  <2> QED
    BY <2>7, <2>8
<1>3. ASSUME NEW l \in Nat, l \in P, l < x.len - 1 - d PROVE l + 1 \in P
  <2> DEFINE j == d + 1 + l
  <2>1. j \in 0 .. x.len - 1 /\ j > d /\ d + 1 + (l + 1) = j + 1 /\ j \in Nat /\ j \in 0 .. x.len /\ j \in 0 .. INT_LEN - 1
    BY <1>1, <1>3
  <2>2. LX[j] > LY[j]
    BY <1>3
  <2> HIDE DEF j
  <2>3. LX[j + 1] = LX[j] + x.a[j] * Weight[j] /\ LY[j + 1] = LY[j] + y.a[j] * Weight[j]
    BY <2>1, LowestLemma
  <2>4. LX[j] \in Nat /\ LY[j] \in Nat /\ Weight[j] \in Nat /\ x.a[j] \in Nat /\ x.a[j] = y.a[j]
    BY <2>1, LowestBelow, WeightLemma, WordLemma
  <2>5. x.a[j] * Weight[j] \in Nat
    BY <2>4
  <2>6. LX[j] + x.a[j] * Weight[j] > LY[j] + x.a[j] * Weight[j]
    BY <2>2, <2>4, <2>5
  <2>7. LX[j + 1] > LY[j + 1]
    BY <2>3, <2>4, <2>6
  <2> QED
    BY <2>1, <2>7
<1> HIDE DEF P
<1>4. x.len - 1 - d \in Nat /\ d + 1 + (x.len - 1 - d) = x.len
  BY <1>1
<1>5. \A l \in 0 .. x.len - 1 - d : l \in P
  BY <1>2, <1>3, <1>4, BoundedInduction
<1>6. x.len - 1 - d \in P
  BY <1>4, <1>5
<1> QED
  BY <1>4, <1>6 DEF P, Value

LEMMA DifferingLemma ==
  ASSUME NEW x \in Bigint, NEW y \in Bigint, x.len = y.len
  PROVE  /\ Differing(x, y) = {} => Value(x) = Value(y)
         /\ Differing(x, y) # {} =>
              /\ Max(Differing(x, y)) \in 0 .. x.len - 1
              /\ x.a[Max(Differing(x, y))] # y.a[Max(Differing(x, y))]
              /\ x.a[Max(Differing(x, y))] \in Nat /\ y.a[Max(Differing(x, y))] \in Nat
              /\ \A l \in 0 .. x.len - 1 : l > Max(Differing(x, y)) => x.a[l] = y.a[l]
<1> DEFINE D == Differing(x, y)
<1>1. x.len \in Nat /\ x.len <= INT_LEN /\ INT_LEN \in Nat
  BY WordLemma
<1>2. \A l : l \in D <=> l \in 0 .. x.len - 1 /\ x.a[l] # y.a[l]
  BY DEF Differing
<1> HIDE DEF D
<1>3. ASSUME D = {} PROVE Value(x) = Value(y)
  <2>1. \A l \in 0 .. x.len - 1 : x.a[l] = y.a[l]
    BY <1>2, <1>3
  <2>2. x.len <= x.len /\ x.len <= y.len /\ x.len \in 0 .. x.len
    BY <1>1
  <2>3. Lowest(x)[x.len] = Lowest(y)[x.len]
    BY <1>1, <2>1, <2>2, SameWords
  <2> QED
    BY <2>3 DEF Value
<1>4. ASSUME D # {}
      PROVE  /\ Max(D) \in 0 .. x.len - 1 /\ x.a[Max(D)] # y.a[Max(D)]
             /\ x.a[Max(D)] \in Nat /\ y.a[Max(D)] \in Nat
             /\ \A l \in 0 .. x.len - 1 : l > Max(D) => x.a[l] = y.a[l]
  <2>1. D \in SUBSET (0 .. x.len)
    BY <1>1, <1>2
  <2> DEFINE d == Max(D)
  <2>2. d \in D /\ d \in Nat /\ \A k \in D : k <= d
    BY <1>1, <1>4, <2>1, MaxLemma
  <2> HIDE DEF d
  <2>3. d \in 0 .. x.len - 1 /\ x.a[d] # y.a[d] /\ d \in 0 .. INT_LEN - 1
    BY <1>1, <1>2, <2>2
  <2>4. ASSUME NEW l \in 0 .. x.len - 1, l > d PROVE x.a[l] = y.a[l]
    <3>1. l \notin D
      BY <1>1, <2>2, <2>4
    <3> QED
      BY <1>2, <3>1
  <2>5. x.a[d] \in Nat /\ y.a[d] \in Nat
    BY <2>3, WordLemma
  <2> QED
    BY <2>3, <2>4, <2>5 DEF d
<1> QED
  BY <1>3, <1>4 DEF D

\* The comparisons of numbers in normal form are those of their values.
LEMMA CompareLemma ==
  ASSUME NEW x \in Bigint, NEW y \in Bigint, Canonical(x), Canonical(y)
  PROVE  /\ rl_greater(x, y) <=> Value(x) > Value(y)
         /\ rl_equal(x, y) = 0 <=> Value(x) = Value(y)
         /\ rl_cmp(x, y) = IF Value(x) > Value(y) THEN 1 ELSE IF Value(x) = Value(y) THEN 0 ELSE -1
<1>1. x.len \in Nat /\ y.len \in Nat /\ Value(x) \in Nat /\ Value(y) \in Nat
  BY CanonicalLemma
<1>2. CASE x.len > y.len
  <2>1. Value(x) > Value(y) /\ Value(x) # Value(y)
    BY <1>1, <1>2, LongerIsGreater
  <2>2. rl_greater(x, y) /\ rl_equal(x, y) = 1
    BY <1>1, <1>2 DEF rl_greater, rl_equal
  <2> QED
    BY <2>1, <2>2 DEF rl_cmp
<1>3. CASE x.len < y.len
  <2>1. ~ (Value(x) > Value(y)) /\ Value(x) # Value(y)
    <3>1. Value(y) > Value(x)
      BY <1>1, <1>3, LongerIsGreater
    <3> QED
      BY <1>1, <3>1
  <2>2. ~ rl_greater(x, y) /\ rl_equal(x, y) = 1
    BY <1>1, <1>3 DEF rl_greater, rl_equal
  <2> QED
    BY <2>1, <2>2 DEF rl_cmp
<1>4. CASE x.len = y.len /\ Differing(x, y) = {}
  <2>1. Value(x) = Value(y) /\ ~ (Value(x) > Value(y))
    BY <1>1, <1>4, DifferingLemma
  <2>2. ~ rl_greater(x, y) /\ rl_equal(x, y) = 0
    BY <1>4 DEF rl_greater, rl_equal
  <2> QED
    BY <2>1, <2>2 DEF rl_cmp
<1>5. CASE x.len = y.len /\ Differing(x, y) # {}
  <2> DEFINE d == Max(Differing(x, y))
  <2>1. /\ d \in 0 .. x.len - 1 /\ x.a[d] # y.a[d] /\ x.a[d] \in Nat /\ y.a[d] \in Nat
        /\ \A l \in 0 .. x.len - 1 : l > d => x.a[l] = y.a[l]
    BY <1>5, DifferingLemma
  <2>2. rl_greater(x, y) <=> x.a[d] > y.a[d]
    BY <1>5 DEF rl_greater
  <2>3. rl_equal(x, y) = 1
    BY <1>5 DEF rl_equal
  <2> HIDE DEF d
  <2>4. CASE x.a[d] > y.a[d]
    <3>1. Value(x) > Value(y) /\ Value(x) # Value(y)
      BY <1>1, <1>5, <2>1, <2>4, HighestDecides
    <3> QED
      BY <2>2, <2>3, <2>4, <3>1 DEF rl_cmp
  <2>5. CASE ~ (x.a[d] > y.a[d])
    <3>1. y.a[d] > x.a[d]
      BY <2>1, <2>5
    <3>2. \A l \in 0 .. y.len - 1 : l > d => y.a[l] = x.a[l]
      BY <1>5, <2>1
    <3>3. Value(y) > Value(x)
      BY <1>5, <2>1, <3>1, <3>2, HighestDecides
    <3>4. ~ (Value(x) > Value(y)) /\ Value(x) # Value(y)
      BY <1>1, <3>3
    <3> QED
      BY <2>2, <2>3, <2>5, <3>4 DEF rl_cmp
  <2> QED
    BY <2>4, <2>5
<1> QED
  BY <1>1, <1>2, <1>3, <1>4, <1>5

-----------------------------------------------------------------------------
(***************************************************************************)
(* Encode writes the number it is given.                                   *)
(***************************************************************************)
LEMMA NestedDivision ==
  ASSUME NEW v \in Nat, NEW d \in Nat \ {0}, NEW e \in Nat \ {0}
  PROVE  v \div (e * d) = (v \div d) \div e
<1> DEFINE q == v \div d
           r == v % d
           s == q \div e
           t == q % e
<1>1. q \in Nat /\ r \in Nat /\ r < d /\ v = d * q + r
  BY Division
<1>2. s \in Nat /\ t \in Nat /\ t < e /\ q = e * s + t
  BY <1>1, Division
<1> HIDE DEF q, r, s, t
<1>3. v = (e * d) * s + (d * t + r)
  <2>1. d * (e * s + t) = (e * d) * s + d * t
    BY <1>2
  <2>2. (e * d) * s \in Nat /\ d * t \in Nat
    BY <1>2
  <2> QED
    BY <1>1, <1>2, <2>1, <2>2
<1>4. d * t + r \in Nat /\ d * t + r < e * d
  <2>1. d * t + d <= e * d
    <3>1. (t + 1) * d <= e * d
      BY <1>2
    <3>2. (t + 1) * d = d * t + d
      BY <1>2
    <3> QED
      BY <3>1, <3>2
  <2>2. d * t \in Nat /\ e * d \in Nat
    BY <1>2
  <2> QED
    BY <1>1, <2>1, <2>2
<1>5. e * d \in Nat \ {0}
  OBVIOUS
<1>6. v \div (e * d) = s
  <2> DEFINE u == d * t + r
             f == e * d
  <2>1. u \in Nat /\ f \in Nat \ {0} /\ u < f /\ v = f * s + u
    BY <1>3, <1>4, <1>5
  <2> HIDE DEF u, f
  <2>2. v \div f = s
    BY <1>2, <2>1, Quotient
  <2> QED
    BY <2>2 DEF f
<1> QED
  BY <1>6 DEF s, q

LEMMA EncodeLemma ==
  ASSUME NEW v \in 1 .. Weight[INT_LEN] - 1
  PROVE  Encode(v) \in Bigint /\ Canonical(Encode(v)) /\ Value(Encode(v)) = v
<1> DEFINE S == {l \in 1 .. INT_LEN : v < Weight[l]}
           m == Min(S)
           e == Encode(v)
           L == Lowest(e)
<1>1. INT_LEN \in Nat \ {0} /\ Weight[INT_LEN] \in Nat \ {0} /\ Base \in Nat /\ Base >= 4 /\ v \in Nat /\ v >= 1
  <2>1. INT_LEN \in Nat \ {0} /\ Weight[INT_LEN] \in Nat \ {0} /\ Base \in Nat /\ Base >= 4
    BY LengthAssumption, WeightLemma, BaseLemma
  <2> QED
    BY <2>1
<1>2. S \in SUBSET Nat /\ S # {}
  BY <1>1
<1>3. m \in S /\ m \in Nat /\ \A k \in S : m <= k
  <2> HIDE DEF S
  <2> QED
    BY <1>2, MinLemma
<1>4. m \in 1 .. INT_LEN /\ v < Weight[m]
  BY <1>3
<1>5. v >= Weight[m - 1]
  <2>1. CASE m = 1
    <3>1. m - 1 = 0
      BY <2>1
    <3> QED
      BY <1>1, <3>1, WeightLemma
  <2>2. CASE m # 1
    <3>1. m - 1 \in 1 .. INT_LEN /\ m - 1 < m /\ m - 1 \in Nat
      BY <1>1, <1>4, <2>2
    <3>2. ~ (m - 1 \in S)
      BY <1>3, <3>1
    <3>3. ~ (v < Weight[m - 1])
      BY <3>1, <3>2
    <3>4. Weight[m - 1] \in Nat
      BY <3>1, WeightLemma
    <3> QED
      BY <1>1, <3>3, <3>4
  <2> QED
    BY <2>1, <2>2
<1> HIDE DEF S
<1>6. e.len = m /\ e.a = [l \in Index |-> (v \div Weight[l]) % Base]
  BY DEF Encode, S
<1> HIDE DEF m
<1>7. \A l \in Nat : /\ v \div Weight[l] \in Nat /\ (v \div Weight[l]) % Base \in 0 .. Base - 1
  <2> TAKE l \in Nat
  <2>1. Weight[l] \in Nat \ {0}
    BY WeightLemma
  <2>2. v \div Weight[l] \in Nat
    BY <1>1, <2>1
  <2> QED
    BY <1>1, <2>2
<1>8. e \in Bigint
  <2>1. Index \subseteq Nat
    BY DEF Index
  <2>2. [l \in Index |-> (v \div Weight[l]) % Base] \in [Index -> 0 .. Base - 1]
    BY <1>7, <2>1
  <2>3. m \in 0 .. INT_LEN
    BY <1>1, <1>4
  <2> QED
    BY <2>2, <2>3 DEF Bigint, Encode, m, S
<1> HIDE DEF e
<1> DEFINE P == {l \in Nat : Weight[l] * (v \div Weight[l]) + L[l] = v}
<1>9. 0 \in P
  <2>1. L[0] = 0 /\ Weight[0] = 1
    BY <1>8, LowestLemma, WeightLemma
  <2>2. v \div 1 = v
    BY <1>1
  <2> QED
    BY <1>1, <2>1, <2>2
<1>10. ASSUME NEW l \in Nat, l \in P, l < m PROVE l + 1 \in P
  <2>1. l \in 0 .. e.len - 1 /\ l \in 0 .. INT_LEN - 1 /\ l \in Index /\ l \in 0 .. e.len
    BY <1>1, <1>4, <1>6, <1>10 DEF Index
  <2> DEFINE w == Weight[l]
             q == v \div w
             r == q % Base
             p == q \div Base
             s == L[l]
  <2>2. w \in Nat \ {0} /\ Weight[l + 1] = Base * w /\ s \in Nat /\ q \in Nat
    BY <1>7, <1>8, <2>1, LowestBelow, WeightLemma
  <2>3. q = Base * p + r /\ p \in Nat /\ r \in Nat
    <3> HIDE DEF q
    <3>1. Base \in Nat \ {0} /\ q \in Nat
      BY <1>1, <2>2
    <3> QED
      BY <3>1, Division
  <2>4. v \div (Base * w) = p
    BY <1>1, <2>2, NestedDivision
  <2>5. L[l + 1] = s + r * w
    <3>1. e.a[l] = r
      BY <1>6, <2>1
    <3> QED
      BY <1>8, <2>1, <3>1, LowestLemma
  <2>6. w * q + s = v
    BY <1>10
  <2> HIDE DEF w, q, r, p, s
  <2>7. (Base * w) * p + (s + r * w) = v
    <3>1. w * (Base * p + r) = (Base * w) * p + r * w
      BY <1>1, <2>2, <2>3
    <3>2. (Base * w) * p \in Nat /\ r * w \in Nat
      BY <1>1, <2>2, <2>3
    <3> QED
      BY <2>2, <2>3, <2>6, <3>1, <3>2
  <2>8. Weight[l + 1] * (v \div Weight[l + 1]) + L[l + 1] = v
    BY <2>2, <2>4, <2>5, <2>7
  <2> QED
    BY <2>8
<1> HIDE DEF P
<1>11. m \in P
  <2>1. m \in Nat /\ m \in 0 .. m
    BY <1>4
  <2>2. \A l \in 0 .. m : l \in P
    BY <1>9, <1>10, <2>1, BoundedInduction
  <2> QED
    BY <2>1, <2>2
<1>12. Value(e) = v
  <2>1. m \in Nat /\ Weight[m] \in Nat \ {0} /\ m \in 0 .. e.len
    BY <1>4, <1>6, WeightLemma
  <2>2. v \div Weight[m] = 0
    BY <1>1, <1>4, <2>1, SmallRemainder
  <2>3. Weight[m] * (v \div Weight[m]) + L[m] = v /\ L[m] \in Nat
    BY <1>8, <1>11, <2>1, LowestBelow DEF P
  <2>4. L[m] = v
    BY <2>1, <2>2, <2>3
  <2> QED
    BY <1>6, <2>4 DEF Value
<1>13. e.len # 0
  BY <1>4, <1>6
<1>14. Canonical(e)
  BY <1>5, <1>6, <1>8, <1>12, <1>13, TopWord
<1> QED
  BY <1>8, <1>12, <1>14 DEF e

-----------------------------------------------------------------------------
(***************************************************************************)
(* rl_fdiv2: the shift by whole words, and the shift by bits.              *)
(***************************************************************************)

\* Words that are all zero have the value zero.
LEMMA ZeroWords ==
  ASSUME NEW x \in Bigint, NEW m \in 0 .. x.len, \A l \in 0 .. m - 1 : x.a[l] = 0
  PROVE  Lowest(x)[m] = 0
<1> DEFINE P == {l \in Nat : Lowest(x)[l] = 0}
<1>1. x.len \in Nat /\ m \in Nat /\ m <= x.len
  BY WordLemma
<1>2. 0 \in P
  BY LowestLemma
<1>3. ASSUME NEW l \in Nat, l \in P, l < m PROVE l + 1 \in P
  <2>1. l \in 0 .. x.len - 1 /\ l \in 0 .. m - 1
    BY <1>1, <1>3
  <2>2. Lowest(x)[l + 1] = Lowest(x)[l] + x.a[l] * Weight[l] /\ x.a[l] = 0 /\ Weight[l] \in Nat
    BY <2>1, LowestLemma, WeightLemma
  <2>3. Lowest(x)[l] = 0
    BY <1>3
  <2>4. Lowest(x)[l + 1] = 0
    BY <2>2, <2>3
  <2> QED
    BY <2>4
<1> HIDE DEF P
<1>4. \A l \in 0 .. m : l \in P
  BY <1>1, <1>2, <1>3, BoundedInduction
<1>5. m \in P
  BY <1>1, <1>4
<1> QED
  BY <1>5 DEF P

LEMMA ShiftWordsLemma ==
  ASSUME NEW x \in Bigint, Canonical(x)
  PROVE  /\ ShiftWords(x) \in Bigint /\ Canonical(ShiftWords(x)) /\ ShiftWords(x).a[0] # 0
         /\ \E k \in Nat : Value(x) = Weight[k] * Value(ShiftWords(x))
<1> DEFINE S == {i \in 0 .. x.len-1 : x.a[i] # 0}
           k == Min(S)
           y == ShiftWords(x)
           L == Lowest(x)
           M == Lowest(y)
<1>1. /\ x.len \in Nat \ {0} /\ x.len <= INT_LEN /\ INT_LEN \in Nat /\ x.a[x.len - 1] # 0
      /\ x.len - 1 \in 0 .. x.len - 1
  BY CanonicalLemma, WordLemma DEF Canonical
<1>2. S \in SUBSET Nat /\ S # {}
  BY <1>1
<1>3. k \in S /\ k \in Nat /\ \A j \in S : k <= j
  <2> HIDE DEF S
  <2> QED
    BY <1>2, MinLemma
<1>4. k \in 0 .. x.len - 1 /\ x.a[k] # 0 /\ \A j \in 0 .. k - 1 : x.a[j] = 0
  <2>1. k \in 0 .. x.len - 1 /\ x.a[k] # 0
    BY <1>3
  <2>2. ASSUME NEW j \in 0 .. k - 1 PROVE x.a[j] = 0
    <3> HIDE DEF k
    <3>1. j \in 0 .. x.len - 1 /\ ~ (k <= j)
      BY <1>1, <2>1
    <3>2. ~ (j \in S)
      <4> HIDE DEF S
      <4> QED
        BY <1>3, <3>1
    <3> QED
      BY <3>1, <3>2
  <2> QED
    BY <2>1, <2>2
<1>5. y.len = x.len - k /\ y.a = [i \in Index |-> IF i + k < x.len THEN x.a[i+k] ELSE x.a[i]]
  BY DEF ShiftWords
<1> HIDE DEF S, k, y
<1>6. k \in Nat /\ k < x.len /\ k <= x.len /\ k \in 0 .. x.len
  BY <1>1, <1>4
<1>7. y \in Bigint
  <2>1. x.a \in [Index -> 0 .. Base - 1]
    BY DEF Bigint
  <2>2. \A i \in Index : i + k < x.len => i + k \in Index
    BY <1>1, <1>6 DEF Index
  <2>3. [i \in Index |-> IF i + k < x.len THEN x.a[i+k] ELSE x.a[i]] \in [Index -> 0 .. Base - 1]
    BY <2>1, <2>2
  <2>4. x.len - k \in 0 .. INT_LEN
    BY <1>1, <1>6
  <2> QED
    BY <2>3, <2>4 DEF Bigint, y, ShiftWords, k, S
<1>8. y.len \in Nat \ {0} /\ y.len <= INT_LEN /\ \A l \in 0 .. y.len - 1 : y.a[l] = x.a[l + k]
  <2>1. \A l \in 0 .. y.len - 1 : l \in Index /\ l + k < x.len
    BY <1>1, <1>5, <1>6 DEF Index
  <2> QED
    BY <1>1, <1>5, <1>6, <2>1
<1>9. y.a[0] # 0
  <2>1. 0 \in 0 .. y.len - 1 /\ 0 + k = k
    BY <1>6, <1>8
  <2> QED
    BY <1>4, <1>8, <2>1
<1>10. Canonical(y)
  <2>1. y.len - 1 \in 0 .. y.len - 1 /\ (y.len - 1) + k = x.len - 1
    BY <1>1, <1>5, <1>6, <1>8
  <2>2. y.a[y.len - 1] # 0
    BY <1>1, <1>8, <2>1
  <2>3. \A l \in 0 .. y.len - 1 : y.a[l] < Base
    <3>1. \A l \in 0 .. y.len - 1 : l \in 0 .. INT_LEN - 1
      BY <1>1, <1>8
    <3> QED
      BY <1>7, <3>1, WordLemma
  <2>4. y.len \in 1 .. INT_LEN
    BY <1>1, <1>8
  <2> QED
    BY <2>2, <2>3, <2>4 DEF Canonical
<1> DEFINE P == {l \in Nat : L[k + l] = Weight[k] * M[l]}
<1>11. 0 \in P
  <2>1. L[k] = 0
    BY <1>4, <1>6, ZeroWords
  <2>2. M[0] = 0 /\ Weight[k] \in Nat
    BY <1>6, <1>7, LowestLemma, WeightLemma
  <2>3. k + 0 = k
    BY <1>6
  <2> HIDE DEF L, M
  <2> QED
    BY <2>1, <2>2, <2>3
<1>12. ASSUME NEW l \in Nat, l \in P, l < y.len PROVE l + 1 \in P
  <2>1. /\ l \in 0 .. y.len - 1 /\ k + l \in 0 .. x.len - 1 /\ k + (l + 1) = (k + l) + 1
        /\ l \in 0 .. y.len /\ k + l \in 0 .. x.len /\ l + k = k + l /\ l \in 0 .. INT_LEN - 1
    BY <1>1, <1>5, <1>6, <1>8, <1>12
  <2> DEFINE w == Weight[l]
             u == Weight[k]
             b == y.a[l]
             s == M[l]
  <2>2. L[(k + l) + 1] = L[k + l] + x.a[k + l] * Weight[k + l] /\ M[l + 1] = s + b * w
    BY <1>7, <2>1, LowestLemma
  <2>3. x.a[k + l] = b /\ Weight[k + l] = u * w /\ L[k + l] = u * s
    BY <1>6, <1>8, <1>12, <2>1, WeightSum
  <2>4. w \in Nat /\ u \in Nat /\ b \in Nat /\ s \in Nat
    BY <1>6, <1>7, <2>1, WeightLemma, LowestBelow, WordLemma
  <2> HIDE DEF w, u, b, s
  <2>5. u * s + b * (u * w) = u * (s + b * w)
    BY <2>4
  <2>6. L[k + (l + 1)] = u * M[l + 1]
    BY <2>1, <2>2, <2>3, <2>5
  <2> QED
    BY <2>6 DEF u
<1> HIDE DEF P
<1>13. y.len \in P
  <2>1. y.len \in Nat /\ y.len \in 0 .. y.len
    BY <1>8
  <2>2. \A l \in 0 .. y.len : l \in P
    BY <1>11, <1>12, <2>1, BoundedInduction
  <2> QED
    BY <2>1, <2>2
<1>14. k + y.len = x.len
  BY <1>1, <1>5, <1>6
<1>15. Value(x) = Weight[k] * Value(y)
  BY <1>13, <1>14 DEF P, Value
<1> QED
  BY <1>6, <1>7, <1>9, <1>10, <1>15 DEF y

\* The position of the lowest bit that is set.
LEMMA TrailingZerosLemma ==
  ASSUME NEW w \in 1 .. Base - 1
  PROVE  /\ TrailingZeros(w) \in 0 .. BLEN - 1
         /\ w = Two[TrailingZeros(w)] * (w \div Two[TrailingZeros(w)])
         /\ (w \div Two[TrailingZeros(w)]) % 2 = 1
<1> DEFINE S == {k \in 0 .. BLEN+1 : (w \div Two[k]) % 2 = 1}
           Exact == {k \in Nat : w = Two[k] * (w \div Two[k])}
<1>1. BLEN \in Nat /\ BLEN >= 2 /\ Base \in Nat /\ w \in Nat /\ w >= 1 /\ w < Base
  BY WidthAssumption, BaseLemma
<1>2. 0 \in Exact
  <2>1. Two[0] = 1 /\ w \div 1 = w
    BY <1>1, TwoLemma
  <2> QED
    BY <1>1, <2>1
<1>3. ASSUME NEW k \in Nat, k \in Exact, (w \div Two[k]) % 2 # 1 PROVE k + 1 \in Exact
  <2> DEFINE t == Two[k]
             q == w \div t
             p == q \div 2
  <2>1. t \in Nat \ {0} /\ Two[k + 1] = 2 * t
    BY TwoLemma
  <2>2. q \in Nat /\ w = t * q /\ q % 2 # 1
    BY <1>1, <1>3, <2>1
  <2> HIDE DEF t, q
  <2>3. p \in Nat /\ q = 2 * p
    BY <2>2
  <2>4. w \div (2 * t) = p
    BY <1>1, <2>1, NestedDivision DEF q
  <2>5. w = (2 * t) * p
    BY <2>1, <2>2, <2>3
  <2>6. w = Two[k + 1] * (w \div Two[k + 1])
    BY <2>1, <2>4, <2>5
  <2> QED
    BY <2>6
<1>4. BLEN \notin Exact
  <2> SUFFICES ASSUME BLEN \in Exact PROVE FALSE
    OBVIOUS
  <2> DEFINE q == w \div Base
  <2>1. w = Base * q /\ q \in Nat
    BY <1>1, BaseLemma DEF Base
  <2>2. q = 0
    BY <1>1, SmallRemainder
  <2> HIDE DEF q
  <2> QED
    BY <1>1, <2>1, <2>2
<1> HIDE DEF Exact
<1>5. ASSUME NEW m \in Nat, \A j \in 0 .. m - 1 : (w \div Two[j]) % 2 # 1
      PROVE  m \in Exact
  <2>1. ASSUME NEW k \in Nat, k \in Exact, k < m PROVE k + 1 \in Exact
    <3>1. k \in 0 .. m - 1
      BY <2>1
    <3> QED
      BY <1>3, <1>5, <2>1, <3>1
  <2>2. \A k \in 0 .. m : k \in Exact
    BY <1>2, <2>1, BoundedInduction
  <2>3. m \in 0 .. m
    OBVIOUS
  <2> QED
    BY <2>2, <2>3
<1>6. S \in SUBSET Nat /\ S # {}
  <2>1. S = {} => \A j \in 0 .. BLEN - 1 : (w \div Two[j]) % 2 # 1
    BY <1>1
  <2>2. S # {}
    BY <1>1, <1>4, <1>5, <2>1
  <2> QED
    BY <2>2
<1> DEFINE k == Min(S)
<1>7. k \in S /\ k \in Nat /\ \A j \in S : k <= j
  <2> HIDE DEF S
  <2> QED
    BY <1>6, MinLemma
<1>8. k \in 0 .. BLEN + 1 /\ (w \div Two[k]) % 2 = 1
  BY <1>7
<1>9. \A j \in 0 .. k - 1 : (w \div Two[j]) % 2 # 1
  <2> SUFFICES ASSUME NEW j \in 0 .. k - 1, (w \div Two[j]) % 2 = 1 PROVE FALSE
    OBVIOUS
  <2>1. \A l \in S : k <= l
    BY <1>7
  <2>2. k \in Nat /\ k <= BLEN + 1
    BY <1>8, <1>1
  <2> HIDE DEF k
  <2>3. j \in 0 .. BLEN + 1 /\ ~ (k <= j)
    BY <1>1, <2>2
  <2>4. j \in S
    BY <2>3
  <2> QED
    BY <2>1, <2>3, <2>4
<1> HIDE DEF S
<1>10. k \in Exact
  <2> HIDE DEF k
  <2> QED
    BY <1>5, <1>7, <1>9
<1>11. k < BLEN
  <2> SUFFICES ASSUME ~ (k < BLEN) PROVE FALSE
    OBVIOUS
  <2>1. \A j \in 0 .. BLEN - 1 : j \in 0 .. k - 1
    <3> HIDE DEF k
    <3> QED
      BY <1>1, <1>7
  <2>2. BLEN \in Exact
    BY <1>1, <1>5, <1>9, <2>1
  <2> QED
    BY <1>4, <2>2
<1>12. k = TrailingZeros(w)
  BY DEF TrailingZeros, S
<1> HIDE DEF k
<1>13. w = Two[k] * (w \div Two[k]) /\ k \in 0 .. BLEN - 1
  BY <1>1, <1>7, <1>10, <1>11 DEF Exact
<1> QED
  BY <1>8, <1>12, <1>13

LEMMA TrimLemma ==
  ASSUME NEW x \in Bigint, Value(x) # 0
  PROVE  /\ Trim(x) \in Bigint /\ Canonical(Trim(x)) /\ Value(Trim(x)) = Value(x)
         /\ Trim(x).a = x.a
<1> DEFINE S == {l \in 0 .. x.len : \A i \in l .. x.len-1 : x.a[i] = 0}
           m == Min(S)
           y == Trim(x)
           L == Lowest(x)
<1>1. x.len \in Nat /\ x.len <= INT_LEN /\ INT_LEN \in Nat
  BY WordLemma
<1>2. S \in SUBSET Nat /\ x.len \in S
  BY <1>1
<1>3. m \in S /\ m \in Nat /\ \A j \in S : m <= j
  <2> HIDE DEF S
  <2> QED
    BY <1>2, MinLemma
<1>4. m \in 0 .. x.len /\ \A i \in m .. x.len-1 : x.a[i] = 0
  BY <1>3
<1>5. y.len = m /\ y.a = x.a
  BY DEF Trim, Bigint
<1>6. y \in Bigint
  <2>1. x.a \in [Index -> 0 .. Base - 1] /\ m \in 0 .. INT_LEN
    <3> HIDE DEF m
    <3> QED
      BY <1>1, <1>4 DEF Bigint
  <2>2. y = [len |-> m, a |-> x.a]
    BY DEF Trim, Bigint
  <2> HIDE DEF m, y
  <2> QED
    BY <2>1, <2>2 DEF Bigint
<1>7. ASSUME m # 0 PROVE x.a[m - 1] # 0
  <2> SUFFICES ASSUME x.a[m - 1] = 0 PROVE FALSE
    OBVIOUS
  <2>1. \A l \in S : m <= l
    BY <1>3
  <2>2. m \in Nat /\ m \in 0 .. x.len /\ \A i \in m .. x.len-1 : x.a[i] = 0
    BY <1>3, <1>4
  <2> HIDE DEF m
  <2>3. m - 1 \in 0 .. x.len /\ ~ (m <= m - 1)
    BY <1>1, <1>7, <2>2
  <2>4. \A i \in m - 1 .. x.len-1 : i = m - 1 \/ i \in m .. x.len-1
    BY <1>1, <2>2
  <2>5. m - 1 \in S
    BY <2>2, <2>3, <2>4
  <2> QED
    BY <2>1, <2>3, <2>5
<1> HIDE DEF S, m, y
<1> DEFINE P == {l \in Nat : L[m + l] = L[m]}
<1>8. 0 \in P
  BY <1>3
<1>9. ASSUME NEW l \in Nat, l \in P, l < x.len - m PROVE l + 1 \in P
  <2>1. m + l \in 0 .. x.len - 1 /\ m + l \in m .. x.len - 1 /\ m + (l + 1) = (m + l) + 1 /\ m \in 0 .. x.len
    BY <1>1, <1>3, <1>4, <1>9
  <2>2. L[(m + l) + 1] = L[m + l] + x.a[m + l] * Weight[m + l] /\ L[m] \in Nat
    BY <2>1, LowestLemma, LowestBelow
  <2>3. x.a[m + l] = 0 /\ Weight[m + l] \in Nat
    BY <1>3, <1>4, <2>1, WeightLemma
  <2>4. L[m + l] = L[m]
    BY <1>9
  <2>5. L[m + (l + 1)] = L[m]
    BY <2>1, <2>2, <2>3, <2>4
  <2> QED
    BY <2>5
<1> HIDE DEF P
<1>10. L[m] = Value(x)
  <2>1. x.len - m \in Nat /\ x.len - m \in 0 .. x.len - m /\ m + (x.len - m) = x.len
    BY <1>1, <1>3, <1>4
  <2>2. \A l \in 0 .. x.len - m : l \in P
    BY <1>8, <1>9, <2>1, BoundedInduction
  <2> QED
    BY <2>1, <2>2 DEF P, Value
<1>11. Value(y) = Value(x)
  <2>1. m <= x.len /\ m <= y.len /\ m \in 0 .. m /\ \A j \in 0 .. m - 1 : x.a[j] = y.a[j]
    BY <1>1, <1>3, <1>4, <1>5
  <2>2. L[m] = Lowest(y)[m]
    BY <1>3, <1>6, <2>1, SameWords
  <2> QED
    BY <1>5, <1>10, <2>2 DEF Value
<1>12. m # 0
  <2>1. L[0] = 0
    BY LowestLemma
  <2> QED
    BY <1>10, <2>1
<1>13. Canonical(y)
  <2>1. y.len \in 1 .. INT_LEN
    BY <1>1, <1>3, <1>4, <1>5, <1>12
  <2>2. \A l \in 0 .. y.len - 1 : y.a[l] < Base
    <3>1. \A l \in 0 .. y.len - 1 : l \in 0 .. INT_LEN - 1
      BY <1>1, <2>1
    <3> QED
      BY <1>6, <3>1, WordLemma
  <2> QED
    BY <1>5, <1>7, <1>12, <2>1, <2>2 DEF Canonical
<1> QED
  BY <1>5, <1>6, <1>11, <1>13 DEF y

\* A number is odd if its lowest word is.
LEMMA LowestBit ==
  ASSUME NEW x \in Bigint, x.len # 0
  PROVE  Value(x) % 2 = x.a[0] % 2
<1> DEFINE L == Lowest(x)
           P == {l \in Nat : L[l + 1] % 2 = x.a[0] % 2}
<1>1. x.len \in Nat \ {0} /\ x.len <= INT_LEN /\ INT_LEN \in Nat
  BY WordLemma
<1>2. x.a[0] \in Nat
  BY <1>1, WordLemma
<1>3. 0 \in P
  <2>1. L[0 + 1] = L[0] + x.a[0] * Weight[0] /\ L[0] = 0 /\ Weight[0] = 1
    <3>1. 0 \in 0 .. x.len - 1
      BY <1>1
    <3> QED
      BY <3>1, LowestLemma, WeightLemma
  <2> HIDE DEF L
  <2>2. L[0 + 1] = x.a[0]
    BY <1>2, <2>1
  <2> QED
    BY <2>2
<1>4. ASSUME NEW l \in Nat, l \in P, l < x.len - 1 PROVE l + 1 \in P
  <2>1. l + 1 \in 0 .. x.len - 1 /\ l + 1 \in Nat /\ l + 1 \in 0 .. x.len /\ l + 1 \in 0 .. INT_LEN - 1
    BY <1>1, <1>4
  <2>2. L[(l + 1) + 1] = L[l + 1] + x.a[l + 1] * Weight[l + 1] /\ Weight[l + 1] = Base * Weight[l]
    BY <2>1, LowestLemma, WeightLemma
  <2> DEFINE s == L[l + 1]
             a == x.a[l + 1]
             w == Weight[l]
             h == Two[BLEN - 1]
  <2>3. s \in Nat /\ a \in Nat /\ w \in Nat /\ h \in Nat /\ Base = 2 * h
    BY <2>1, LowestBelow, WordLemma, WeightLemma, BaseLemma
  <2>4. s % 2 = x.a[0] % 2
    BY <1>4
  <2> HIDE DEF s, a, w, h
  <2>5. a * (Base * w) = 2 * (a * (h * w)) /\ a * (h * w) \in Nat
    BY <2>3
  <2>6. (s + a * (Base * w)) % 2 = s % 2
    <3> DEFINE b == a * (h * w)
    <3>1. b \in Nat /\ a * (Base * w) = 2 * b
      BY <2>5
    <3> HIDE DEF b
    <3> QED
      BY <2>3, <3>1
  <2>7. L[(l + 1) + 1] % 2 = x.a[0] % 2
    BY <2>2, <2>4, <2>6 DEF s, a, w
  <2> QED
    BY <2>7
<1> HIDE DEF P
<1>5. x.len - 1 \in P
  <2>1. x.len - 1 \in Nat /\ x.len - 1 \in 0 .. x.len - 1
    BY <1>1
  <2>2. \A l \in 0 .. x.len - 1 : l \in P
    BY <1>3, <1>4, <2>1, BoundedInduction
  <2> QED
    BY <2>1, <2>2
<1>6. (x.len - 1) + 1 = x.len
  BY <1>1
<1> QED
  BY <1>5, <1>6 DEF P, Value

LEMMA ShiftBitsLemma ==
  ASSUME NEW x \in Bigint, Canonical(x), x.a[0] # 0
  PROVE  /\ ShiftBits(x) \in Bigint /\ Canonical(ShiftBits(x)) /\ Value(ShiftBits(x)) % 2 = 1
         /\ \E k \in Nat : Value(x) = Two[k] * Value(ShiftBits(x))
<1> DEFINE k == TrailingZeros(x.a[0])
           p == BLEN - k
           T == Two[k]
           U == Two[p]
           m == x.len - 1
           y == [x EXCEPT !.a = [i \in Index |->
                  IF i >= x.len THEN x.a[i]
                  ELSE IF i = x.len-1 THEN x.a[i] \div T
                  ELSE ((x.a[i+1] * U) % Base) + (x.a[i] \div T)]]
           L == Lowest(x)
           M == Lowest(y)
           H(i) == x.a[i] \div T
           R(i) == x.a[i] % T
<1>1. /\ x.len \in Nat \ {0} /\ x.len <= INT_LEN /\ INT_LEN \in Nat
      /\ Base \in Nat /\ Base >= 4 /\ Value(x) \in Nat /\ Weight[x.len - 1] <= Value(x)
  BY CanonicalLemma, WordLemma, BaseLemma
<1>2. x.a \in [Index -> 0 .. Base - 1] /\ 0 \in Index /\ x.a[0] \in 1 .. Base - 1
  <2>1. x.a \in [Index -> 0 .. Base - 1] /\ 0 \in Index
    BY <1>1 DEF Bigint, Index
  <2>2. x.a[0] \in 0 .. Base - 1
    BY <2>1
  <2> QED
    BY <1>1, <2>1, <2>2
<1>3. /\ k \in 0 .. BLEN - 1 /\ x.a[0] = T * H(0) /\ H(0) % 2 = 1
  BY <1>2, TrailingZerosLemma
<1>4. ShiftBits(x) = IF k = 0 THEN x ELSE Trim(y)
  BY DEF ShiftBits
<1> HIDE DEF k
<1>5. CASE k = 0
  <2>1. ShiftBits(x) = x
    BY <1>4, <1>5
  <2>2. T = 1
    BY <1>5, TwoLemma
  <2>3. x.a[0] % 2 = 1
    <3> HIDE DEF T
    <3>1. H(0) = x.a[0]
      BY <1>1, <1>2, <2>2
    <3> QED
      BY <1>3, <3>1
  <2>4. Value(x) % 2 = 1
    BY <1>1, <2>3, LowestBit
  <2>5. Value(x) = Two[0] * Value(x)
    BY <1>1, TwoLemma
  <2> QED
    BY <2>1, <2>4, <2>5
<1>6. CASE k # 0
  <2>1. k \in Nat \ {0} /\ p \in Nat \ {0} /\ k + p = BLEN /\ BLEN \in Nat
    BY <1>3, <1>6, WidthAssumption
  <2>2. T \in Nat \ {0} /\ U \in Nat \ {0} /\ T * U = Base
    <3> HIDE DEF p
    <3>1. Two[k + p] = Two[k] * Two[p]
      BY <2>1, TwoSum
    <3>2. Two[k] \in Nat \ {0} /\ Two[p] \in Nat \ {0}
      BY <2>1, TwoLemma
    <3> QED
      BY <2>1, <3>1, <3>2 DEF Base
  <2>3. U % 2 = 0
    <3>1. p - 1 \in Nat /\ (p - 1) + 1 = p
      BY <2>1
    <3>2. Two[p] = 2 * Two[p - 1] /\ Two[p - 1] \in Nat
      BY <3>1, TwoLemma
    <3> QED
      BY <3>2
  <2> HIDE DEF p, T, U
  <2>4. ASSUME NEW i \in 0 .. INT_LEN - 1
        PROVE  /\ x.a[i] \in Nat /\ H(i) \in Nat /\ H(i) < U /\ R(i) \in Nat /\ R(i) < T
               /\ x.a[i] = T * H(i) + R(i) /\ (x.a[i] * U) % Base = R(i) * U
    <3> DEFINE a == x.a[i]
               h == a \div T
               r == a % T
    <3>1. a \in Nat /\ a < Base
      BY WordLemma
    <3> HIDE DEF a
    <3>2. h \in Nat /\ r \in Nat /\ r < T /\ a = T * h + r
      BY <2>2, <3>1, Division
    <3>3. h < U
      <4>1. U * T = Base
        BY <2>2
      <4> QED
        BY <2>2, <3>1, <4>1, SmallQuotient
    <3> HIDE DEF h, r
    <3>4. a * U = Base * h + r * U
      <4>1. (T * h + r) * U = (T * U) * h + r * U
        BY <2>2, <3>2
      <4> QED
        BY <2>2, <3>2, <4>1
    <3>5. r * U \in Nat /\ r * U < Base
      <4>1. (r + 1) * U <= T * U
        BY <2>2, <3>2
      <4>2. (r + 1) * U = r * U + U /\ r * U \in Nat
        BY <2>2, <3>2
      <4> QED
        BY <2>2, <4>1, <4>2
    <3>6. (a * U) % Base = r * U
      <4> DEFINE s == r * U
      <4>1. s \in Nat /\ s < Base /\ a * U = Base * h + s
        BY <3>4, <3>5
      <4> HIDE DEF s
      <4>2. (Base * h + s) % Base = s
        <5>1. Base \in Nat \ {0} /\ h \in Nat
          BY <1>1, <3>2
        <5> QED
          BY <4>1, <5>1, Quotient
      <4> QED
        BY <4>1, <4>2 DEF s
    <3> QED
      BY <3>1, <3>2, <3>3, <3>6 DEF a, h, r
  <2>5. m \in Nat /\ m + 1 = x.len /\ m \in Index /\ m \in 0 .. INT_LEN - 1
    BY <1>1 DEF Index
  <2> DEFINE Z == [i \in Index |->
                     IF i >= x.len THEN x.a[i]
                     ELSE IF i = x.len-1 THEN x.a[i] \div T
                     ELSE ((x.a[i+1] * U) % Base) + (x.a[i] \div T)]
  <2>6. y.len = x.len /\ y.a = Z
    BY DEF Bigint
  <2>7. Z[m] = H(m)
    BY <1>1, <2>5
  <2>8. ASSUME NEW i \in 0 .. m - 1
        PROVE  Z[i] = R(i + 1) * U + H(i)
    <3>1. i \in Index /\ i + 1 \in 0 .. INT_LEN - 1 /\ ~ (i >= x.len) /\ i # x.len - 1
      BY <1>1, <2>5 DEF Index
    <3>2. Z[i] = ((x.a[i+1] * U) % Base) + H(i)
      BY <3>1
    <3> QED
      BY <2>4, <3>1, <3>2
  <2>9. Z \in [Index -> 0 .. Base - 1]
    <3>1. ASSUME NEW i \in Index PROVE Z[i] \in 0 .. Base - 1
      <4>1. CASE i >= x.len
        <5>1. Z[i] = x.a[i]
          BY <4>1
        <5> QED
          BY <1>2, <5>1
      <4>2. CASE i = m
        <5>1. H(m) < U /\ H(m) \in Nat
          BY <2>4, <2>5
        <5>2. U <= Base
          BY <2>2
        <5> QED
          BY <1>1, <2>2, <2>7, <4>2, <5>1, <5>2
      <4>3. CASE ~ (i >= x.len) /\ i # m
        <5>1. i \in 0 .. m - 1 /\ i + 1 \in 0 .. INT_LEN - 1 /\ i \in 0 .. INT_LEN - 1
          BY <1>1, <2>5, <4>3 DEF Index
        <5> DEFINE r == R(i + 1)
                   h == H(i)
        <5>2. r \in Nat /\ r < T /\ h \in Nat /\ h < U
          BY <2>4, <5>1
        <5>3. Z[i] = r * U + h
          BY <2>8, <5>1
        <5> HIDE DEF r, h, Z
        <5>4. (r + 1) * U <= T * U
          BY <2>2, <5>2
        <5>5. (r + 1) * U = r * U + U /\ r * U \in Nat
          BY <2>2, <5>2
        <5>6. r * U + h \in Nat /\ r * U + h < Base
          BY <2>2, <5>2, <5>4, <5>5
        <5> QED
          BY <1>1, <5>3, <5>6
      <4> QED
        BY <4>1, <4>2, <4>3
    <3> QED
      BY <3>1
  <2>10. y \in Bigint
    <3>1. y = [len |-> x.len, a |-> Z]
      BY DEF Bigint
    <3> HIDE DEF y, Z
    <3>2. x.len \in 0 .. INT_LEN
      BY <1>1
    <3> QED
      BY <2>9, <3>1, <3>2 DEF Bigint
  <2> HIDE DEF y, Z
  <2> DEFINE P == {l \in Nat : T * M[l] = L[l] + R(l) * Weight[l]}
  <2>11. 0 \in P
    <3>1. M[0] = 0 /\ L[0] = 0 /\ Weight[0] = 1
      BY <2>10, LowestLemma, WeightLemma
    <3>2. R(0) = 0
      <4>1. 0 \in 0 .. INT_LEN - 1
        BY <1>1
      <4>2. x.a[0] = T * H(0) + R(0) /\ x.a[0] \in Nat /\ R(0) \in Nat
        BY <2>4, <4>1
      <4> QED
        BY <1>3, <4>2
    <3> HIDE DEF M, L, R
    <3> QED
      BY <2>2, <3>1, <3>2
  <2>12. ASSUME NEW l \in Nat, l \in P, l < m PROVE l + 1 \in P
    <3>1. /\ l \in 0 .. m - 1 /\ l \in 0 .. x.len - 1 /\ l \in 0 .. y.len - 1 /\ l \in 0 .. INT_LEN - 1
          /\ l + 1 \in 0 .. INT_LEN - 1 /\ l \in 0 .. x.len /\ l \in 0 .. y.len
      BY <1>1, <2>5, <2>6, <2>12
    <3> DEFINE a == x.a[l]
               r == R(l)
               q == R(l + 1)
               h == H(l)
               w == Weight[l]
               s == L[l]
               t == M[l]
    <3>2. /\ L[l + 1] = s + a * w /\ Weight[l + 1] = Base * w
          /\ M[l + 1] = t + y.a[l] * w
      BY <2>10, <3>1, LowestLemma, WeightLemma
    <3>3. y.a[l] = q * U + h
      BY <2>6, <2>8, <3>1
    <3>4. a = T * h + r /\ a \in Nat /\ h \in Nat /\ r \in Nat /\ q \in Nat
      BY <2>4, <3>1
    <3>5. w \in Nat /\ s \in Nat /\ t \in Nat
      BY <2>10, <3>1, WeightLemma, LowestBelow
    <3>6. T * t = s + r * w
      BY <2>12
    <3> HIDE DEF a, r, q, h, w, s, t
    <3>7. T * (t + (q * U + h) * w) = (s + a * w) + q * (Base * w)
      <4> DEFINE rw == r * w
                 qw == q * (Base * w)
                 hw == T * (h * w)
      <4>1. T * (t + (q * U + h) * w) = T * t + (q * ((T * U) * w) + T * (h * w))
        BY <2>2, <3>4, <3>5
      <4>2. (T * h + r) * w = T * (h * w) + r * w
        BY <2>2, <3>4, <3>5
      <4>3. rw \in Nat /\ qw \in Nat /\ hw \in Nat
        BY <1>1, <2>2, <3>4, <3>5
      <4>4. T * (t + (q * U + h) * w) = (s + rw) + (qw + hw) /\ a * w = hw + rw
        BY <2>2, <3>4, <3>6, <4>1, <4>2
      <4> HIDE DEF rw, qw, hw
      <4>5. T * (t + (q * U + h) * w) = (s + a * w) + qw
        BY <3>5, <4>3, <4>4
      <4> QED
        BY <4>5 DEF qw
    <3>8. T * M[l + 1] = L[l + 1] + q * Weight[l + 1]
      BY <3>2, <3>3, <3>7
    <3> QED
      BY <3>8 DEF q
  <2> HIDE DEF P
  <2>13. m \in P
    <3>1. \A l \in 0 .. m : l \in P
      BY <2>5, <2>11, <2>12, BoundedInduction
    <3> QED
      BY <2>5, <3>1
  <2>14. T * Value(y) = Value(x)
    <3>1. m \in 0 .. x.len - 1 /\ m \in 0 .. y.len - 1 /\ m \in 0 .. x.len /\ m \in 0 .. y.len
      BY <1>1, <2>5, <2>6
    <3> DEFINE a == x.a[m]
               r == R(m)
               h == H(m)
               w == Weight[m]
               s == L[m]
               t == M[m]
    <3>2. L[m + 1] = s + a * w /\ M[m + 1] = t + y.a[m] * w
      BY <2>10, <3>1, LowestLemma
    <3>3. y.a[m] = h
      BY <2>6, <2>7
    <3>4. a = T * h + r /\ a \in Nat /\ h \in Nat /\ r \in Nat
      BY <2>4, <2>5
    <3>5. w \in Nat /\ s \in Nat /\ t \in Nat
      BY <2>5, <2>10, <3>1, WeightLemma, LowestBelow
    <3>6. T * t = s + r * w
      BY <2>13 DEF P
    <3> HIDE DEF a, r, h, w, s, t
    <3>7. T * (t + h * w) = s + a * w
      <4>1. T * (t + h * w) = T * t + T * (h * w)
        BY <2>2, <3>4, <3>5
      <4>2. (T * h + r) * w = T * (h * w) + r * w
        BY <2>2, <3>4, <3>5
      <4>3. r * w \in Nat /\ T * (h * w) \in Nat
        BY <2>2, <3>4, <3>5
      <4> QED
        BY <3>4, <3>5, <3>6, <4>1, <4>2, <4>3
    <3>8. T * M[m + 1] = L[m + 1]
      BY <3>2, <3>3, <3>7
    <3> QED
      BY <2>5, <2>6, <3>8 DEF Value
  <2>15. Value(y) # 0 /\ Value(y) \in Nat
    <3>1. Value(x) >= 1
      <4>1. Weight[x.len - 1] \in Nat \ {0}
        BY <2>5, WeightLemma DEF m
      <4> QED
        BY <1>1, <4>1
    <3>2. Value(y) \in Nat
      <4>1. y.len \in 0 .. y.len
        BY <1>1, <2>6
      <4> QED
        BY <2>10, <4>1, LowestBelow DEF Value
    <3> QED
      BY <2>2, <2>14, <3>1, <3>2
  <2>16. Trim(y) \in Bigint /\ Canonical(Trim(y)) /\ Value(Trim(y)) = Value(y)
    BY <2>10, <2>15, TrimLemma
  <2>17. Value(y) % 2 = 1
    <3>1. Value(y) % 2 = y.a[0] % 2
      BY <1>1, <2>6, <2>10, LowestBit
    <3>2. y.a[0] % 2 = H(0) % 2
      <4>1. CASE m = 0
        BY <2>6, <2>7, <4>1
      <4>2. CASE m # 0
        <5> DEFINE q == R(0 + 1)
                   h == H(0)
        <5>1. 0 \in 0 .. m - 1 /\ 0 + 1 \in 0 .. INT_LEN - 1 /\ 0 \in 0 .. INT_LEN - 1
          BY <1>1, <2>5, <4>2
        <5>2. y.a[0] = q * U + h /\ q \in Nat /\ h \in Nat
          BY <2>4, <2>6, <2>8, <5>1
        <5> HIDE DEF q, h
        <5>3. PICK g \in Nat : U = 2 * g
          BY <2>2, <2>3
        <5>4. q * U = 2 * (q * g) /\ q * g \in Nat
          BY <5>2, <5>3
        <5> DEFINE b == q * g
        <5>5. b \in Nat /\ y.a[0] = 2 * b + h
          BY <5>2, <5>4
        <5> HIDE DEF b
        <5>6. y.a[0] % 2 = h % 2
          BY <5>2, <5>5
        <5> QED
          BY <5>6 DEF h
      <4> QED
        BY <4>1, <4>2
    <3> QED
      BY <1>3, <3>1, <3>2
  <2>18. ShiftBits(x) = Trim(y)
    BY <1>4, <1>6
  <2>19. Value(x) = Two[k] * Value(Trim(y))
    BY <2>14, <2>16 DEF T
  <2> QED
    BY <2>1, <2>16, <2>17, <2>18, <2>19
<1> QED
  BY <1>5, <1>6

LEMMA WeightIsPower ==
  ASSUME NEW k \in Nat
  PROVE  \E j \in Nat : Weight[k] = Two[j]
<1> DEFINE P == {l \in Nat : \E j \in Nat : Weight[l] = Two[j]}
<1>1. P \in SUBSET Nat /\ 0 \in P
  BY WeightLemma, TwoLemma
<1>2. ASSUME NEW l \in P PROVE l + 1 \in P
  <2>1. PICK j \in Nat : Weight[l] = Two[j]
    BY <1>2
  <2>2. Weight[l + 1] = Two[BLEN] * Two[j]
    BY <2>1, WeightLemma DEF Base
  <2>3. BLEN + j \in Nat /\ Two[BLEN + j] = Two[BLEN] * Two[j]
    BY WidthAssumption, TwoSum
  <2> QED
    BY <2>2, <2>3
<1>3. \A l \in Nat : l \in P
  <2> HIDE DEF P
  <2> QED
    BY <1>1, <1>2, Induction
<1> QED
  BY <1>3

\* rl_fdiv2 divides a number in normal form by a power of two, and what it
\* leaves is odd and in normal form again.
LEMMA HalvingLemma ==
  ASSUME NEW x \in Bigint, Canonical(x)
  PROVE  /\ rl_fdiv2(x) \in Bigint /\ Canonical(rl_fdiv2(x)) /\ Value(rl_fdiv2(x)) % 2 = 1
         /\ \E k \in Nat : Value(x) = Two[k] * Value(rl_fdiv2(x))
<1> DEFINE y == ShiftWords(x)
           z == ShiftBits(y)
<1>1. /\ y \in Bigint /\ Canonical(y) /\ y.a[0] # 0
      /\ \E k \in Nat : Value(x) = Weight[k] * Value(y)
  BY ShiftWordsLemma
<1> HIDE DEF y
<1>2. /\ z \in Bigint /\ Canonical(z) /\ Value(z) % 2 = 1
      /\ \E k \in Nat : Value(y) = Two[k] * Value(z)
  BY <1>1, ShiftBitsLemma
<1> HIDE DEF z
<1>3. PICK k \in Nat : Value(x) = Weight[k] * Value(y)
  BY <1>1
<1>4. PICK j \in Nat : Weight[k] = Two[j]
  BY WeightIsPower
<1>5. PICK l \in Nat : Value(y) = Two[l] * Value(z)
  BY <1>2
<1>6. Value(x) = Two[j + l] * Value(z)
  <2>1. Value(z) \in Nat /\ Two[j] \in Nat /\ Two[l] \in Nat
    BY <1>2, CanonicalLemma, TwoLemma
  <2>2. Two[j] * (Two[l] * Value(z)) = (Two[j] * Two[l]) * Value(z)
    BY <2>1, Associative
  <2> QED
    BY <1>3, <1>4, <1>5, <2>2, TwoSum
<1>7. j + l \in Nat
  OBVIOUS
<1>8. rl_fdiv2(x) = z
  BY DEF rl_fdiv2, y, z
<1> QED
  BY <1>2, <1>6, <1>7, <1>8

\* A number in normal form has a word that is not zero.
LEMMA CanonicalDivisible ==
  ASSUME NEW x \in Bigint, Canonical(x)
  PROVE  Divisible(x)
<1>1. x.len - 1 \in 0 .. x.len - 1 /\ x.a[x.len - 1] # 0
  BY CanonicalLemma DEF Canonical
<1> QED
  BY <1>1 DEF Divisible
=============================================================================
