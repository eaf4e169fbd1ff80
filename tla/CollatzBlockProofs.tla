------------------------- MODULE CollatzBlockProofs -------------------------
(***************************************************************************)
(* CollatzBlock computes what it should, for every number and width of     *)
(* words, every block and frame size and every odd first base.             *)
(*                                                                         *)
(* RlIntProofs says what one operation on words does to the number they    *)
(* stand for.  IInv follows the sequence of operations: as long as nothing *)
(* overflowed the words are the exact numbers in normal form, and the loop *)
(* has seen every odd number of the block up to the water level fall below *)
(* itself.  The parity of base, block size and i is why no odd number is   *)
(* skipped; the length of the numbers in use is why an operation after an  *)
(* overflow of the other task still leaves words of BLEN bits.             *)
(***************************************************************************)
EXTENDS CollatzBlock, RlIntProofs

-----------------------------------------------------------------------------
(***************************************************************************)
(* The invariant.                                                          *)
(***************************************************************************)

\* The numbers in use have a word.
HaveWords == /\ base.len # 0
             /\ Running => waterlevel.len # 0
             /\ pc = "step" => n.len # 0

\* The water level follows i through the odd numbers of the block.
LevelFollows ==
  /\ Running => exact.level = exact.start + i /\ exact.start % 2 = 1
  /\ pc = "step" => i < BLOCKSIZE
  /\ i % 2 = 0
  /\ exact.base % 2 = 1

ClearedSoFar ==
  Running => \A m \in exact.start+1 .. exact.start+i : m % 2 = 1 => m \in cleared

\* WordsAreExact, number by number.
ExactWords ==
  ~ rl_overflow =>
    /\ Canonical(base) /\ Value(base) = exact.base
    /\ Running => Canonical(waterlevel) /\ Value(waterlevel) = exact.level
    /\ pc = "step" => Canonical(n) /\ Value(n) = exact.n

IInv == TypeOK /\ HaveWords /\ LevelFollows /\ ClearedSoFar /\ ExactWords /\ OverflowIsExact

-----------------------------------------------------------------------------
(***************************************************************************)
(* The odd part of a number.                                               *)
(***************************************************************************)
OddPart(v, u) == u \in Nat /\ u % 2 = 1 /\ \E k \in Nat : v = Two[k] * u

LEMMA OddPartOfOdd ==
  ASSUME NEW v \in Nat, v % 2 = 1, NEW u
  PROVE  OddPart(v, u) <=> u = v
<1>1. ASSUME OddPart(v, u) PROVE u = v
  <2>1. PICK k \in Nat : v = Two[k] * u /\ u \in Nat
    BY <1>1 DEF OddPart
  <2>2. CASE k = 0
    BY <2>1, <2>2, TwoLemma
  <2>3. CASE k # 0
    <3>1. k - 1 \in Nat /\ (k - 1) + 1 = k
      BY <2>3
    <3>2. Two[k] = 2 * Two[k - 1] /\ Two[k - 1] \in Nat
      BY <3>1, TwoLemma
    <3> DEFINE b == Two[k - 1] * u
    <3>3. b \in Nat /\ v = 2 * b
      BY <2>1, <3>2
    <3> HIDE DEF b
    <3>4. v % 2 = 0
      BY <3>3
    <3> QED
      BY <3>4
  <2> QED
    BY <2>2, <2>3
<1>2. OddPart(v, v)
  <2>1. v = Two[0] * v
    BY TwoLemma
  <2> QED
    BY <2>1 DEF OddPart
<1> QED
  BY <1>1, <1>2

LEMMA OddPartOfEven ==
  ASSUME NEW w \in Nat, NEW u
  PROVE  OddPart(2 * w, u) <=> OddPart(w, u)
<1>1. ASSUME OddPart(w, u) PROVE OddPart(2 * w, u)
  <2>1. PICK k \in Nat : w = Two[k] * u /\ u \in Nat
    BY <1>1 DEF OddPart
  <2>2. Two[k] \in Nat /\ Two[k + 1] = 2 * Two[k] /\ k + 1 \in Nat
    BY TwoLemma
  <2>3. 2 * (Two[k] * u) = (2 * Two[k]) * u
    BY <2>1, <2>2
  <2>4. 2 * w = Two[k + 1] * u
    BY <2>1, <2>2, <2>3
  <2> QED
    BY <1>1, <2>2, <2>4 DEF OddPart
<1>2. ASSUME OddPart(2 * w, u) PROVE OddPart(w, u)
  <2>1. PICK k \in Nat : 2 * w = Two[k] * u /\ u \in Nat /\ u % 2 = 1
    BY <1>2 DEF OddPart
  <2>2. k # 0
    <3> SUFFICES ASSUME k = 0 PROVE FALSE
      OBVIOUS
    <3>1. u = 2 * w
      BY <2>1, TwoLemma
    <3> QED
      BY <2>1, <3>1
  <2>3. k - 1 \in Nat /\ (k - 1) + 1 = k
    BY <2>2
  <2>4. Two[k] = 2 * Two[k - 1] /\ Two[k - 1] \in Nat
    BY <2>3, TwoLemma
  <2> DEFINE b == Two[k - 1] * u
  <2>5. b \in Nat /\ 2 * w = 2 * b
    BY <2>1, <2>4
  <2> HIDE DEF b
  <2>6. w = b
    BY <2>5
  <2> QED
    BY <2>1, <2>3, <2>6 DEF OddPart, b
<1> QED
  BY <1>1, <1>2

LEMMA OddEquation ==
  Odd = [v \in Nat |-> IF v = 0 \/ v % 2 = 1 THEN v ELSE Odd[v \div 2]]
<1> DEFINE Part(v) == CHOOSE u : OddPart(v, u)
           f == [v \in Nat |-> IF v = 0 THEN 0 ELSE Part(v)]
<1>1. ASSUME NEW v \in Nat, v % 2 = 1 PROVE Part(v) = v
  <2>1. \A u : OddPart(v, u) <=> u = v
    BY <1>1, OddPartOfOdd
  <2>2. Part(v) = CHOOSE u : u = v
    BY <2>1
  <2> QED
    BY <2>2
<1>2. ASSUME NEW w \in Nat PROVE Part(2 * w) = Part(w)
  <2>1. \A u : OddPart(2 * w, u) <=> OddPart(w, u)
    BY OddPartOfEven
  <2> QED
    BY <2>1
<1> HIDE DEF Part
<1>3. ASSUME NEW v \in Nat
      PROVE  f[v] = IF v = 0 \/ v % 2 = 1 THEN v ELSE f[v \div 2]
  <2>1. CASE v = 0
    BY <2>1
  <2>2. CASE v % 2 = 1
    BY <1>1, <2>2
  <2>3. CASE v # 0 /\ v % 2 # 1
    <3>1. v \div 2 \in Nat /\ v = 2 * (v \div 2) /\ v \div 2 # 0
      BY <2>3
    <3>2. Part(2 * (v \div 2)) = Part(v \div 2)
      BY <1>2, <3>1
    <3> QED
      BY <2>3, <3>1, <3>2
  <2> QED
    BY <2>1, <2>2, <2>3
<1>4. f = [v \in Nat |-> f[v]]
  OBVIOUS
<1> HIDE DEF f
<1>5. f = [v \in Nat |-> IF v = 0 \/ v % 2 = 1 THEN v ELSE f[v \div 2]]
  BY <1>3, <1>4
<1> QED
  BY <1>5 DEF Odd

\* Odd removes the factors of two.
LEMMA OddLemma ==
  ASSUME NEW u \in Nat, u % 2 = 1, NEW k \in Nat
  PROVE  Odd[Two[k] * u] = u
<1> DEFINE P == {l \in Nat : Odd[Two[l] * u] = u}
<1>1. P \in SUBSET Nat /\ 0 \in P
  <2>1. Two[0] * u = u
    BY TwoLemma
  <2>2. Odd[u] = u
    BY OddEquation
  <2> QED
    BY <2>1, <2>2
<1>2. ASSUME NEW l \in P PROVE l + 1 \in P
  <2> DEFINE b == Two[l] * u
  <2>1. Two[l] \in Nat \ {0} /\ Two[l + 1] = 2 * Two[l] /\ u # 0
    BY TwoLemma
  <2>2. b \in Nat \ {0}
    BY <2>1
  <2>3. Two[l + 1] * u = 2 * b
    BY <2>1
  <2>4. Odd[b] = u
    BY <1>2
  <2> HIDE DEF b
  <2>5. 2 * b \in Nat /\ 2 * b # 0 /\ (2 * b) % 2 # 1 /\ (2 * b) \div 2 = b
    BY <2>2
  <2>6. Odd[2 * b] = Odd[b]
    BY <2>5, OddEquation
  <2>7. Odd[Two[l + 1] * u] = u
    BY <2>3, <2>4, <2>6
  <2> QED
    BY <2>7
<1> HIDE DEF P
<1>3. \A l \in Nat : l \in P
  BY <1>1, <1>2, Induction
<1> QED
  BY <1>3 DEF P

LEMMA FDivLemma ==
  ASSUME NEW x \in Bigint, Canonical(x)
  PROVE  /\ rl_fdiv2(x) \in Bigint /\ Canonical(rl_fdiv2(x))
         /\ Value(rl_fdiv2(x)) = Odd[Value(x)]
<1> DEFINE y == rl_fdiv2(x)
<1>1. y \in Bigint /\ Canonical(y) /\ Value(y) % 2 = 1 /\ \E k \in Nat : Value(x) = Two[k] * Value(y)
  BY HalvingLemma
<1> HIDE DEF y
<1>2. Value(y) \in Nat
  BY <1>1, CanonicalLemma
<1>3. PICK k \in Nat : Value(x) = Two[k] * Value(y)
  BY <1>1
<1>4. Odd[Two[k] * Value(y)] = Value(y)
  BY <1>1, <1>2, OddLemma
<1> QED
  BY <1>1, <1>3, <1>4 DEF y

-----------------------------------------------------------------------------
(***************************************************************************)
(* The operations of the loop.                                             *)
(***************************************************************************)
LEMMA ConstantsLemma ==
  /\ BLOCKS \in Nat \ {0} /\ BLOCKSIZE \in Nat /\ BLOCKSIZE >= 2 /\ BLOCKSIZE % 2 = 0
  /\ BLOCKSIZE \in 0 .. Base /\ 2 \in 0 .. Base /\ 1 \in 0 .. Base
  /\ Limit \in Nat /\ Limit = Weight[INT_LEN]
<1>1. Base \in Nat /\ Base >= 4
  BY BaseLemma
<1>2. INT_LEN \in Nat
  BY LengthAssumption
<1> QED
  BY <1>1, <1>2, BlockAssumption, WeightLemma DEF Limit

\* What an operation leaves, and when it is right if the exact result is v.
WellFormed(r) ==
  /\ r.num \in Bigint /\ r.num.len # 0 /\ r.over \in BOOLEAN

Exactly(r, v) ==
  /\ r.over <=> v >= Limit
  /\ ~ r.over => Canonical(r.num) /\ Value(r.num) = v

LEMMA AddLemma ==
  ASSUME NEW x \in Bigint, x.len # 0, NEW c \in 0 .. Base
  PROVE  /\ WellFormed(rl_add(x, c))
         /\ Canonical(x) => Exactly(rl_add(x, c), Value(x) + c)
<1>1. 1 \in 1 .. 3
  OBVIOUS
<1>2. Canonical(x) => 1 * Value(x) = Value(x)
  BY CanonicalLemma
<1> QED
  BY <1>1, <1>2, MulAddLemma, ConstantsLemma DEF WellFormed, Exactly, rl_add

LEMMA StepLemma ==
  ASSUME NEW x \in Bigint, x.len # 0
  PROVE  /\ WellFormed(rl_f3n1(x))
         /\ Canonical(x) => Exactly(rl_f3n1(x), 3 * Value(x) + 1)
<1>1. 3 \in 1 .. 3 /\ 1 \in 0 .. Base
  BY ConstantsLemma
<1> QED
  BY <1>1, MulAddLemma, ConstantsLemma DEF WellFormed, Exactly, rl_f3n1

LEMMA RaiseLemma ==
  ASSUME NEW x \in Bigint, x.len # 0, Canonical(x), NEW bi \in Nat
  PROVE  /\ WellFormed(Raise(x, bi))
         /\ Exactly(Raise(x, bi), Value(x) + bi * BLOCKSIZE)
<1> DEFINE S == {r \in [num : Bigint, over : BOOLEAN] : r.num.len # 0}
           D == 0 .. bi
           G == [p \in S \X D |->
                   Result(rl_add(p[1].num, BLOCKSIZE).num,
                          rl_add(p[1].num, BLOCKSIZE).over \/ p[1].over)]
<1>1. ASSUME NEW l \in D, NEW s \in S
      PROVE  /\ G[<<s, l>>] = Result(rl_add(s.num, BLOCKSIZE).num,
                                     rl_add(s.num, BLOCKSIZE).over \/ s.over)
             /\ G[<<s, l>>] \in S
  <2> DEFINE y == rl_add(s.num, BLOCKSIZE)
  <2>1. s.num \in Bigint /\ s.num.len # 0 /\ s.over \in BOOLEAN
    OBVIOUS
  <2>2. y.num \in Bigint /\ y.num.len # 0 /\ y.over \in BOOLEAN
    BY <2>1, AddLemma, ConstantsLemma DEF WellFormed
  <2> HIDE DEF y
  <2>3. Result(y.num, y.over \/ s.over) \in S
    BY <2>1, <2>2 DEF Result
  <2> QED
    BY <2>3 DEF y
<1>2. Result(x, FALSE) \in S
  BY DEF Result
<1> HIDE DEF G, S
<1>3. Inductive(D, S, Result(x, FALSE), G)
  BY <1>1, <1>2 DEF Inductive
<1>4. Defined(D, S, Result(x, FALSE), G)
  BY <1>3, Recursion
<1>5. PICK f \in [D -> S] : f = [l \in D |-> IF l = 0 THEN Result(x, FALSE) ELSE G[<<f[l-1], l>>]]
  BY <1>4 DEF Defined
<1> DEFINE Level(h) == [k \in 0 .. bi |->
                          IF k = 0 THEN Result(x, FALSE)
                          ELSE LET y == rl_add(h[k-1].num, BLOCKSIZE)
                               IN  Result(y.num, y.over \/ h[k-1].over)]
           g == CHOOSE h : h = Level(h)
<1>6. f = Level(f)
  <2>1. ASSUME NEW l \in D, l # 0
        PROVE  G[<<f[l-1], l>>] = Result(rl_add(f[l-1].num, BLOCKSIZE).num,
                                         rl_add(f[l-1].num, BLOCKSIZE).over \/ f[l-1].over)
    <3>1. l - 1 \in D
      BY <2>1
    <3> QED
      BY <1>1, <1>5, <2>1, <3>1
  <2> QED
    BY <1>5, <2>1
<1>7. g = Level(g)
  <2> HIDE DEF Level
  <2> QED
    BY <1>6
<1>8. Raise(x, bi) = g[bi]
  BY DEF Raise
<1> HIDE DEF g
<1>9. g[0] = Result(x, FALSE) /\ \A l \in 0 .. bi - 1 : l \in D /\ l + 1 \in D
  BY <1>7
<1>10. ASSUME NEW l \in 0 .. bi - 1
       PROVE  g[l+1] = Result(rl_add(g[l].num, BLOCKSIZE).num,
                              rl_add(g[l].num, BLOCKSIZE).over \/ g[l].over)
  <2>1. l + 1 \in D /\ l + 1 # 0 /\ (l + 1) - 1 = l
    BY <1>9
  <2> QED
    BY <1>7, <2>1
<1> DEFINE v(l) == Value(x) + l * BLOCKSIZE
           P == {l \in Nat : WellFormed(g[l]) /\ Exactly(g[l], v(l))}
<1>11. Value(x) \in Nat /\ Value(x) < Limit
  <2>1. x.len \in Nat /\ x.len <= INT_LEN /\ Value(x) \in Nat /\ Value(x) < Weight[x.len]
    BY CanonicalLemma
  <2>2. INT_LEN \in Nat /\ Weight[x.len] <= Limit /\ Weight[x.len] \in Nat
    BY <2>1, LengthAssumption, WeightMonotone, WeightLemma DEF Limit
  <2> QED
    BY <2>1, <2>2, ConstantsLemma
<1>12. 0 \in P
  <2>1. v(0) = Value(x)
    BY <1>11, ConstantsLemma
  <2>2. g[0].num = x /\ g[0].over = FALSE
    BY <1>9 DEF Result
  <2>3. ~ (v(0) >= Limit)
    BY <1>11, <2>1, ConstantsLemma
  <2> QED
    BY <2>1, <2>2, <2>3 DEF WellFormed, Exactly
<1>13. ASSUME NEW l \in Nat, l \in P, l < bi PROVE l + 1 \in P
  <2> DEFINE s == g[l]
             y == rl_add(s.num, BLOCKSIZE)
  <2>1. l \in 0 .. bi - 1
    BY <1>13
  <2>2. g[l+1] = Result(y.num, y.over \/ s.over)
    BY <1>10, <2>1
  <2>3. WellFormed(s) /\ Exactly(s, v(l))
    BY <1>13
  <2>4. v(l) \in Nat /\ v(l + 1) = v(l) + BLOCKSIZE /\ BLOCKSIZE \in Nat /\ v(l + 1) \in Nat
    <3>1. l * BLOCKSIZE \in Nat /\ (l + 1) * BLOCKSIZE = l * BLOCKSIZE + BLOCKSIZE
      BY ConstantsLemma
    <3> QED
      BY <1>11, <3>1, ConstantsLemma
  <2> HIDE DEF s, v
  <2>5. WellFormed(y)
    BY <2>3, AddLemma, ConstantsLemma DEF WellFormed
  <2>6. WellFormed(g[l+1])
    BY <2>2, <2>3, <2>5 DEF WellFormed, Result
  <2>7. CASE s.over
    <3>1. v(l) >= Limit
      BY <2>3, <2>7 DEF Exactly
    <3>2. v(l + 1) >= Limit
      BY <2>4, <3>1, ConstantsLemma
    <3>3. g[l+1].over
      <4>1. (y.over \/ s.over) = TRUE
        BY <2>7
      <4>2. g[l+1] = Result(y.num, TRUE)
        BY <2>2, <4>1
      <4> HIDE DEF g, y
      <4> QED
        BY <4>2 DEF Result
    <3> QED
      BY <2>6, <3>2, <3>3 DEF Exactly
  <2>8. CASE ~ s.over
    <3>1. s.num \in Bigint /\ s.num.len # 0 /\ Canonical(s.num) /\ Value(s.num) = v(l)
      BY <2>3, <2>8 DEF WellFormed, Exactly
    <3>2. Exactly(y, v(l) + BLOCKSIZE)
      BY <3>1, AddLemma, ConstantsLemma
    <3>3. y.over \in BOOLEAN
      BY <2>5 DEF WellFormed
    <3> HIDE DEF y
    <3>4. g[l+1].num = y.num /\ (g[l+1].over <=> y.over)
      <4>1. (y.over \/ s.over) = y.over
        BY <2>8, <3>3
      <4>2. g[l+1] = Result(y.num, y.over)
        BY <2>2, <4>1
      <4> QED
        BY <4>2 DEF Result
    <3>5. Exactly(g[l+1], v(l + 1))
      BY <2>4, <3>2, <3>4 DEF Exactly
    <3> QED
      BY <2>6, <3>5
  <2> QED
    BY <2>7, <2>8
<1> HIDE DEF P
<1>14. bi \in P
  <2>1. \A l \in 0 .. bi : l \in P
    BY <1>12, <1>13, BoundedInduction
  <2>2. bi \in 0 .. bi
    OBVIOUS
  <2> QED
    BY <2>1, <2>2
<1> QED
  BY <1>8, <1>14 DEF P

LEMMA MaxOfTwo ==
  ASSUME NEW a \in Nat, NEW b \in Nat
  PROVE  /\ Max({a, b}) \in Nat /\ Max({a, b}) >= a /\ Max({a, b}) >= b
         /\ Max({a, b}) = a \/ Max({a, b}) = b
<1> DEFINE S == {a, b}
<1>1. S \in SUBSET (0 .. a + b) /\ S # {} /\ a + b \in Nat /\ a \in S /\ b \in S
  OBVIOUS
<1>2. \A k \in S : k = a \/ k = b
  OBVIOUS
<1> HIDE DEF S
<1>3. Max(S) \in S /\ Max(S) \in Nat /\ \A k \in S : k <= Max(S)
  BY <1>1, MaxLemma
<1> QED
  BY <1>1, <1>2, <1>3 DEF S

LEMMA MaxOfThree ==
  ASSUME NEW a \in Nat, NEW b \in Nat, NEW c \in Nat
  PROVE  /\ Max({a, b, c}) \in Nat /\ Max({a, b, c}) >= a /\ Max({a, b, c}) >= b /\ Max({a, b, c}) >= c
         /\ Max({a, b, c}) = a \/ Max({a, b, c}) = b \/ Max({a, b, c}) = c
<1> DEFINE S == {a, b, c}
<1>1. S \in SUBSET (0 .. a + b + c) /\ S # {} /\ a + b + c \in Nat /\ a \in S /\ b \in S /\ c \in S
  OBVIOUS
<1>2. \A k \in S : k = a \/ k = b \/ k = c
  OBVIOUS
<1> HIDE DEF S
<1>3. Max(S) \in S /\ Max(S) \in Nat /\ \A k \in S : k <= Max(S)
  BY <1>1, MaxLemma
<1> QED
  BY <1>1, <1>2, <1>3 DEF S

\* The overflow stays exact when an operation adds its flag and its result.
LEMMA PeakLemma ==
  ASSUME NEW p \in Nat, NEW v \in Nat, NEW before, NEW over, before <=> p >= Limit,
         ~ before => (over <=> v >= Limit)
  PROVE  (before \/ over) <=> Max({p, v}) >= Limit
<1> DEFINE m == Max({p, v})
<1>1. m \in Nat /\ m >= p /\ m >= v /\ (m = p \/ m = v)
  BY MaxOfTwo
<1> HIDE DEF m
<1>2. Limit \in Nat
  BY ConstantsLemma
<1>3. p >= Limit => m >= Limit
  BY <1>1, <1>2
<1>4. ~ (p >= Limit) => (m >= Limit <=> v >= Limit)
  BY <1>1, <1>2
<1>5. (before \/ over) <=> m >= Limit
  BY <1>3, <1>4
<1> QED
  BY <1>5 DEF m

-----------------------------------------------------------------------------
(***************************************************************************)
(* The invariant holds at first and every step keeps it.                   *)
(***************************************************************************)
LEMMA StateLemma ==
  ASSUME TypeOK
  PROVE  /\ base \in Bigint /\ waterlevel \in Bigint /\ n \in Bigint /\ i \in Nat /\ i <= BLOCKSIZE
         /\ exact.base \in Nat /\ exact.start \in Nat /\ exact.level \in Nat
         /\ exact.n \in Nat /\ exact.peak \in Nat
         /\ rl_overflow \in BOOLEAN /\ cleared \subseteq Nat
         /\ exact = [base |-> exact.base, start |-> exact.start, level |-> exact.level,
                     n |-> exact.n, peak |-> exact.peak]
<1>1. exact \in [base : Nat, start : Nat, level : Nat, n : Nat, peak : Nat]
  BY DEF TypeOK
<1>2. i \in Nat /\ i <= BLOCKSIZE
  BY ConstantsLemma DEF TypeOK
<1> QED
  BY <1>1, <1>2 DEF TypeOK

LEMMA ZeroLemma == Zero \in Bigint
<1>1. INT_LEN \in Nat /\ Base \in Nat /\ Base >= 4
  BY LengthAssumption, BaseLemma
<1> QED
  BY <1>1 DEF Zero, Bigint

LEMMA InitHolds == Init => IInv
<1> SUFFICES ASSUME Init PROVE IInv
  OBVIOUS
<1>1. PICK v \in Bases :
        /\ base = Encode(v) /\ waterlevel = Zero /\ n = Zero /\ i = 0 /\ pc = "idle"
        /\ rl_overflow = FALSE
        /\ exact = [base |-> v, start |-> 0, level |-> 0, n |-> 0, peak |-> v]
        /\ cleared = {}
  BY DEF Init
<1>2. v \in 1 .. Limit - 1 /\ v % 2 = 1 /\ v \in Nat /\ v < Limit
  BY BasesAssumption, ConstantsLemma
<1>3. base \in Bigint /\ Canonical(base) /\ Value(base) = v
  BY <1>1, <1>2, EncodeLemma, ConstantsLemma
<1>4. base.len # 0
  BY <1>3, CanonicalLemma
<1>5. TypeOK
  <2>1. i \in 0 .. BLOCKSIZE
    BY <1>1, ConstantsLemma
  <2> QED
    BY <1>1, <1>2, <1>3, <2>1, ZeroLemma DEF TypeOK
<1>6. ~ Running
  BY <1>1 DEF Running
<1>7. HaveWords /\ LevelFollows /\ ClearedSoFar /\ ExactWords
  BY <1>1, <1>2, <1>3, <1>4, <1>6 DEF HaveWords, LevelFollows, ClearedSoFar, ExactWords
<1>8. OverflowIsExact
  <2>1. ~ (v >= Limit)
    BY <1>2, ConstantsLemma
  <2> QED
    BY <1>1, <2>1 DEF OverflowIsExact
<1> QED
  BY <1>5, <1>7, <1>8 DEF IInv

\* The steps that only move the program counter.
LEMMA PcKeeps ==
  ASSUME IInv, Refuse \/ Finish
  PROVE  IInv'
<1>1. /\ pc' \in {"idle", "dead"}
      /\ UNCHANGED <<base, waterlevel, n, i, rl_overflow, exact, cleared>>
  BY DEF Refuse, Finish
<1>2. TypeOK'
  BY <1>1 DEF IInv, TypeOK
<1>3. HaveWords' /\ LevelFollows' /\ ClearedSoFar' /\ ExactWords' /\ OverflowIsExact'
  BY <1>1 DEF IInv, HaveWords, LevelFollows, ClearedSoFar, ExactWords, OverflowIsExact, Running
<1> QED
  BY <1>2, <1>3 DEF IInv

LEMMA StartKeeps ==
  ASSUME IInv, NEW bi \in 0 .. BLOCKS-1, Start(bi)
  PROVE  IInv'
<1> DEFINE s == rl_set(waterlevel, base)
           w == Raise(s, bi)
           v == exact.base + bi * BLOCKSIZE
           p == Max({exact.peak, v})
<1>1. TypeOK /\ pc = "idle" /\ ~ rl_overflow
  BY DEF IInv, Start
<1>2. /\ waterlevel' = w.num /\ rl_overflow' = w.over
      /\ exact' = [exact EXCEPT !.start = v, !.level = v, !.peak = p]
      /\ i' = 0 /\ cleared' = {} /\ pc' = "next" /\ base' = base /\ n' = n
  BY DEF Start
<1>3. Canonical(base) /\ Value(base) = exact.base /\ base.len # 0
  BY <1>1 DEF IInv, ExactWords, HaveWords
<1>4. bi \in Nat /\ bi * BLOCKSIZE \in Nat
  BY ConstantsLemma
<1>5. v \in Nat /\ p \in Nat
  <2>1. v \in Nat /\ exact.peak \in Nat
    BY <1>1, <1>4, StateLemma
  <2> HIDE DEF v
  <2> QED
    BY <2>1, MaxOfTwo
<1>6. s \in Bigint /\ s.len # 0 /\ Canonical(s) /\ Value(s) = exact.base
  BY <1>1, <1>3, StateLemma, SetLemma
<1> HIDE DEF s
<1>7. WellFormed(w) /\ Exactly(w, v)
  BY <1>4, <1>6, RaiseLemma
<1>8. (rl_overflow \/ w.over) <=> p >= Limit
  <2>1. rl_overflow <=> exact.peak >= Limit
    BY DEF IInv, OverflowIsExact
  <2>2. w.over <=> v >= Limit
    BY <1>7 DEF Exactly
  <2> QED
    BY <1>1, <1>5, <2>1, <2>2, StateLemma, PeakLemma
<1> HIDE DEF w, p
<1>9. /\ exact'.base = exact.base /\ exact'.start = v /\ exact'.level = v
      /\ exact'.n = exact.n /\ exact'.peak = p
  BY <1>1, <1>2, StateLemma
<1>10. v % 2 = 1
  <2>1. PICK h \in Nat : BLOCKSIZE = 2 * h
    BY ConstantsLemma
  <2>2. exact.base % 2 = 1 /\ exact.base \in Nat
    BY <1>1, StateLemma DEF IInv, LevelFollows
  <2>3. bi * BLOCKSIZE = 2 * (bi * h) /\ bi * h \in Nat
    BY <1>4, <2>1
  <2> DEFINE b == bi * h
  <2>4. b \in Nat /\ v = exact.base + 2 * b
    BY <2>3
  <2> HIDE DEF b, v
  <2> QED
    BY <2>2, <2>4
<1> HIDE DEF v
<1>11. TypeOK'
  <2>1. exact' \in [base : Nat, start : Nat, level : Nat, n : Nat, peak : Nat]
    BY <1>1, <1>2, <1>5, StateLemma
  <2>2. i' \in 0 .. BLOCKSIZE
    BY <1>2, ConstantsLemma
  <2>3. waterlevel' \in Bigint /\ rl_overflow' \in BOOLEAN
    BY <1>2, <1>7 DEF WellFormed
  <2> QED
    BY <1>1, <1>2, <2>1, <2>2, <2>3 DEF TypeOK
<1>12. Running' /\ pc' # "step"
  BY <1>2 DEF Running
<1>13. HaveWords'
  BY <1>2, <1>3, <1>7, <1>12 DEF HaveWords, WellFormed
<1>14. LevelFollows'
  <2>1. exact'.level = exact'.start + i'
    BY <1>2, <1>5, <1>9
  <2>2. exact.base % 2 = 1
    BY DEF IInv, LevelFollows
  <2>3. i' % 2 = 0
    BY <1>2
  <2> QED
    BY <1>9, <1>10, <1>12, <2>1, <2>2, <2>3 DEF LevelFollows
<1>15. ClearedSoFar'
  <2>1. exact'.start + 1 .. exact'.start + i' = {}
    BY <1>2, <1>5, <1>9
  <2> QED
    BY <2>1 DEF ClearedSoFar
<1>16. ExactWords'
  BY <1>2, <1>3, <1>7, <1>9, <1>12 DEF ExactWords, Exactly
<1>17. OverflowIsExact'
  BY <1>1, <1>2, <1>8, <1>9 DEF OverflowIsExact
<1> QED
  BY <1>11, <1>13, <1>14, <1>15, <1>16, <1>17 DEF IInv

LEMMA NextNumberKeeps ==
  ASSUME IInv, NextNumber
  PROVE  IInv'
<1> DEFINE s == rl_set(n, waterlevel)
           x == rl_add(s, 2)
           v == exact.level + 2
           p == Max({exact.peak, v})
<1>1. TypeOK /\ pc = "next" /\ Running /\ i < BLOCKSIZE
  BY DEF IInv, NextNumber, Running
<1>2. /\ n' = x.num /\ rl_overflow' = (rl_overflow \/ x.over)
      /\ exact' = [exact EXCEPT !.n = v, !.peak = p]
      /\ pc' = "step" /\ base' = base /\ waterlevel' = waterlevel /\ i' = i /\ cleared' = cleared
  BY DEF NextNumber
<1>3. /\ base.len # 0 /\ waterlevel.len # 0
      /\ ~ rl_overflow => /\ Canonical(base) /\ Value(base) = exact.base
                          /\ Canonical(waterlevel) /\ Value(waterlevel) = exact.level
  BY <1>1 DEF IInv, ExactWords, HaveWords
<1>4. v \in Nat /\ p \in Nat
  <2>1. v \in Nat /\ exact.peak \in Nat
    BY <1>1, StateLemma
  <2> HIDE DEF v
  <2> QED
    BY <2>1, MaxOfTwo
<1>5. /\ s \in Bigint /\ s.len # 0
      /\ ~ rl_overflow => Canonical(s) /\ Value(s) = exact.level
  BY <1>1, <1>3, StateLemma, SetLemma
<1> HIDE DEF s
<1>6. WellFormed(x) /\ (~ rl_overflow => Exactly(x, v))
  BY <1>5, AddLemma, ConstantsLemma
<1>7. (rl_overflow \/ x.over) <=> p >= Limit
  <2>1. rl_overflow <=> exact.peak >= Limit
    BY DEF IInv, OverflowIsExact
  <2>2. ~ rl_overflow => (x.over <=> v >= Limit)
    BY <1>6 DEF Exactly
  <2> QED
    BY <1>1, <1>4, <2>1, <2>2, StateLemma, PeakLemma
<1> HIDE DEF x, p
<1>8. /\ exact'.base = exact.base /\ exact'.start = exact.start /\ exact'.level = exact.level
      /\ exact'.n = v /\ exact'.peak = p
  BY <1>1, <1>2, StateLemma
<1> HIDE DEF v
<1>9. TypeOK'
  <2>1. exact' \in [base : Nat, start : Nat, level : Nat, n : Nat, peak : Nat]
    BY <1>1, <1>2, <1>4, StateLemma
  <2>2. n' \in Bigint
    BY <1>2, <1>6 DEF WellFormed
  <2>3. rl_overflow' \in BOOLEAN
    BY <1>2
  <2> QED
    BY <1>1, <1>2, <2>1, <2>2, <2>3 DEF TypeOK
<1>10. Running'
  BY <1>2 DEF Running
<1>11. HaveWords'
  BY <1>2, <1>3, <1>6 DEF HaveWords, WellFormed
<1>12. LevelFollows' /\ ClearedSoFar'
  BY <1>1, <1>2, <1>8 DEF IInv, LevelFollows, ClearedSoFar
<1>13. ExactWords'
  <2>1. ~ rl_overflow' => ~ rl_overflow /\ ~ x.over
    BY <1>2
  <2> QED
    BY <1>2, <1>3, <1>6, <1>8, <2>1 DEF ExactWords, Exactly
<1>14. OverflowIsExact'
  BY <1>2, <1>7, <1>8 DEF OverflowIsExact
<1> QED
  BY <1>9, <1>11, <1>12, <1>13, <1>14 DEF IInv

\* What Continue and Clear share: one more turn of the do-while loop.
LEMMA TurnLemma ==
  ASSUME IInv, pc = "step", ~ Overflowed(rl_f3n1(n).over)
  PROVE  /\ ~ rl_overflow /\ 3 * exact.n + 1 \in Nat /\ 3 * exact.n + 1 < Limit
         /\ rl_fdiv2(rl_f3n1(n).num) \in Bigint /\ Canonical(rl_fdiv2(rl_f3n1(n).num))
         /\ Value(rl_fdiv2(rl_f3n1(n).num)) = Odd[3 * exact.n + 1]
         /\ Odd[3 * exact.n + 1] \in Nat
         /\ rl_fdiv2(rl_f3n1(n).num).len # 0
         /\ Canonical(waterlevel) /\ Value(waterlevel) = exact.level
         /\ rl_greater(rl_fdiv2(rl_f3n1(n).num), waterlevel) <=> Odd[3 * exact.n + 1] > exact.level
<1> DEFINE x == rl_f3n1(n)
           v == 3 * exact.n + 1
           y == rl_fdiv2(x.num)
<1>1. TypeOK /\ Running /\ ~ rl_overflow /\ ~ x.over
  BY DEF IInv, Overflowed, Running
<1>2. Canonical(n) /\ Value(n) = exact.n /\ Canonical(waterlevel) /\ Value(waterlevel) = exact.level
  BY <1>1 DEF IInv, ExactWords
<1>3. n \in Bigint /\ n.len # 0 /\ waterlevel \in Bigint /\ exact.n \in Nat
  BY <1>1, <1>2, StateLemma, CanonicalLemma
<1>4. WellFormed(x) /\ Exactly(x, v)
  BY <1>2, <1>3, StepLemma
<1>5. x.num \in Bigint /\ Canonical(x.num) /\ Value(x.num) = v /\ ~ (v >= Limit)
  BY <1>1, <1>4 DEF WellFormed, Exactly
<1> HIDE DEF x
<1>6. v \in Nat /\ v < Limit
  BY <1>3, <1>5, ConstantsLemma
<1> HIDE DEF v
<1>7. y \in Bigint /\ Canonical(y) /\ Value(y) = Odd[v]
  BY <1>5, FDivLemma
<1> HIDE DEF y
<1>8. Odd[v] \in Nat /\ y.len # 0
  BY <1>7, CanonicalLemma
<1>9. rl_greater(y, waterlevel) <=> Odd[v] > exact.level
  BY <1>2, <1>3, <1>7, CompareLemma
<1> QED
  BY <1>1, <1>2, <1>6, <1>7, <1>8, <1>9 DEF x, v, y

LEMMA ContinueKeeps ==
  ASSUME IInv, Continue
  PROVE  IInv'
<1> DEFINE x == rl_f3n1(n)
           v == 3 * exact.n + 1
           y == rl_fdiv2(x.num)
           p == Max({exact.peak, v})
<1>1. TypeOK /\ pc = "step" /\ ~ Overflowed(x.over)
  BY DEF IInv, Continue
<1>2. /\ n' = y /\ rl_overflow' = (rl_overflow \/ x.over)
      /\ exact' = [exact EXCEPT !.n = Odd[v], !.peak = p]
      /\ pc' = pc /\ base' = base /\ waterlevel' = waterlevel /\ i' = i /\ cleared' = cleared
  BY DEF Continue
<1>3. /\ ~ rl_overflow /\ v \in Nat /\ v < Limit /\ y \in Bigint /\ Canonical(y) /\ y.len # 0
      /\ Value(y) = Odd[v] /\ Odd[v] \in Nat /\ Canonical(waterlevel) /\ Value(waterlevel) = exact.level
  BY <1>1, TurnLemma
<1>4. ~ rl_overflow'
  BY <1>1, <1>2 DEF Overflowed
<1> HIDE DEF v, y, x
<1>5. p \in Nat /\ p < Limit
  <2>1. ~ (exact.peak >= Limit) /\ exact.peak \in Nat
    BY <1>1, <1>3, StateLemma DEF IInv, OverflowIsExact
  <2>2. p \in Nat /\ (p = exact.peak \/ p = v)
    BY <1>3, <2>1, MaxOfTwo
  <2> QED
    BY <1>3, <2>1, <2>2, ConstantsLemma
<1> HIDE DEF p
<1>6. /\ exact'.base = exact.base /\ exact'.start = exact.start /\ exact'.level = exact.level
      /\ exact'.n = Odd[v] /\ exact'.peak = p
  BY <1>1, <1>2, StateLemma
<1>7. TypeOK'
  <2>1. exact' \in [base : Nat, start : Nat, level : Nat, n : Nat, peak : Nat]
    BY <1>1, <1>2, <1>3, <1>5, StateLemma
  <2>2. rl_overflow' \in BOOLEAN
    BY <1>2
  <2> QED
    BY <1>1, <1>2, <1>3, <2>1, <2>2 DEF TypeOK
<1>8. Running /\ Running'
  BY <1>1, <1>2 DEF Running
<1>9. HaveWords'
  BY <1>2, <1>3, <1>8 DEF IInv, HaveWords
<1>10. LevelFollows' /\ ClearedSoFar'
  BY <1>2, <1>6, <1>8 DEF IInv, LevelFollows, ClearedSoFar
<1>11. ExactWords'
  BY <1>2, <1>3, <1>6, <1>8 DEF IInv, ExactWords
<1>12. OverflowIsExact'
  <2>1. ~ (p >= Limit)
    BY <1>5, ConstantsLemma
  <2> QED
    BY <1>4, <1>6, <2>1 DEF OverflowIsExact
<1> QED
  BY <1>7, <1>9, <1>10, <1>11, <1>12 DEF IInv

LEMMA ClearKeeps ==
  ASSUME IInv, Clear
  PROVE  IInv'
<1> DEFINE x == rl_f3n1(n)
           v == 3 * exact.n + 1
           w == rl_add(waterlevel, 2)
           m == exact.level + 2
           y == rl_fdiv2(x.num)
           p == Max({exact.peak, v, m})
<1>1. TypeOK /\ pc = "step" /\ Running /\ ~ Overflowed(x.over) /\ ~ rl_greater(y, waterlevel)
  BY DEF IInv, Clear, Running
<1>2. /\ n' = y /\ waterlevel' = w.num /\ rl_overflow' = (rl_overflow \/ x.over \/ w.over)
      /\ exact' = [exact EXCEPT !.n = Odd[v], !.level = m, !.peak = p]
      /\ cleared' = IF Odd[v] < m THEN cleared \cup {m} ELSE cleared
      /\ pc' = "next" /\ i' = i + 2 /\ base' = base
  BY DEF Clear
<1>3. /\ ~ rl_overflow /\ v \in Nat /\ v < Limit /\ y \in Bigint /\ Canonical(y) /\ y.len # 0
      /\ Value(y) = Odd[v] /\ Odd[v] \in Nat /\ Canonical(waterlevel) /\ Value(waterlevel) = exact.level
      /\ (rl_greater(y, waterlevel) <=> Odd[v] > exact.level)
  BY <1>1, TurnLemma
<1>4. ~ x.over
  BY <1>1 DEF Overflowed
<1> HIDE DEF v, y, x
<1>5. waterlevel \in Bigint /\ waterlevel.len # 0 /\ exact.level \in Nat /\ m \in Nat /\ exact.level < m
  BY <1>1, <1>3, StateLemma, CanonicalLemma
<1>6. WellFormed(w) /\ Exactly(w, m)
  BY <1>3, <1>5, AddLemma, ConstantsLemma
<1> HIDE DEF w
<1>7. rl_overflow' = w.over
  <2>1. w.over \in BOOLEAN
    BY <1>6 DEF WellFormed
  <2> QED
    BY <1>2, <1>3, <1>4, <2>1
<1>8. p \in Nat /\ (p >= Limit <=> m >= Limit)
  <2>1. ~ (exact.peak >= Limit) /\ exact.peak \in Nat
    BY <1>1, <1>3, StateLemma DEF IInv, OverflowIsExact
  <2>2. p \in Nat /\ p >= m /\ (p = exact.peak \/ p = v \/ p = m)
    BY <1>3, <1>5, <2>1, MaxOfThree
  <2> HIDE DEF p
  <2> QED
    BY <1>3, <1>5, <2>1, <2>2, ConstantsLemma
<1> HIDE DEF p
<1>9. /\ exact'.base = exact.base /\ exact'.start = exact.start /\ exact'.level = m
      /\ exact'.n = Odd[v] /\ exact'.peak = p
  BY <1>1, <1>2, StateLemma
<1>10. Odd[v] < m /\ cleared' = cleared \cup {m}
  BY <1>1, <1>2, <1>3, <1>5
<1>11. /\ exact.level = exact.start + i /\ exact.start % 2 = 1 /\ exact.start \in Nat
       /\ i \in Nat /\ i % 2 = 0 /\ i < BLOCKSIZE /\ exact.base % 2 = 1
  BY <1>1, StateLemma DEF IInv, LevelFollows
<1>12. i + 2 <= BLOCKSIZE /\ (i + 2) % 2 = 0 /\ m = exact.start + (i + 2)
  BY <1>11, ConstantsLemma
<1>13. TypeOK'
  <2>1. exact' \in [base : Nat, start : Nat, level : Nat, n : Nat, peak : Nat]
    BY <1>1, <1>2, <1>3, <1>5, <1>8, StateLemma
  <2>2. i' \in 0 .. BLOCKSIZE
    BY <1>2, <1>11, <1>12, ConstantsLemma
  <2>3. waterlevel' \in Bigint /\ rl_overflow' \in BOOLEAN
    BY <1>2, <1>6, <1>7 DEF WellFormed
  <2>4. cleared' \subseteq Nat
    BY <1>1, <1>5, <1>10, StateLemma
  <2> QED
    BY <1>1, <1>2, <1>3, <2>1, <2>2, <2>3, <2>4 DEF TypeOK
<1>14. Running' /\ pc' # "step"
  BY <1>2 DEF Running
<1>15. HaveWords'
  BY <1>2, <1>6, <1>14 DEF IInv, HaveWords, WellFormed
<1>16. LevelFollows'
  BY <1>2, <1>9, <1>11, <1>12, <1>14 DEF LevelFollows
<1>17. ClearedSoFar'
  <2> SUFFICES ASSUME NEW j \in exact.start + 1 .. exact.start + (i + 2), j % 2 = 1
               PROVE  j \in cleared'
    BY <1>2, <1>9 DEF ClearedSoFar
  <2>1. j \in exact.start + 1 .. exact.start + i \/ j = m
    <3>1. j # exact.start + (i + 1)
      <4> SUFFICES ASSUME j = exact.start + (i + 1) PROVE FALSE
        OBVIOUS
      <4> QED
        BY <1>11
    <3> QED
      BY <1>11, <1>12, <3>1
  <2>2. j \in exact.start + 1 .. exact.start + i => j \in cleared
    BY <1>1 DEF IInv, ClearedSoFar
  <2> QED
    BY <1>10, <2>1, <2>2
<1>18. ExactWords'
  BY <1>2, <1>3, <1>6, <1>7, <1>9, <1>14 DEF IInv, ExactWords, Exactly
<1>19. OverflowIsExact'
  BY <1>6, <1>7, <1>8, <1>9 DEF OverflowIsExact, Exactly
<1> QED
  BY <1>13, <1>15, <1>16, <1>17, <1>18, <1>19 DEF IInv

LEMMA AbandonKeeps ==
  ASSUME IInv, Abandon
  PROVE  IInv'
<1> DEFINE x == rl_f3n1(n)
           v == 3 * exact.n + 1
           p == Max({exact.peak, v})
<1>1. TypeOK /\ pc = "step" /\ n.len # 0
  BY DEF IInv, HaveWords, Abandon
<1>2. /\ rl_overflow' = (rl_overflow \/ x.over) /\ exact' = [exact EXCEPT !.peak = p]
      /\ pc' = "dead" /\ base' = base /\ waterlevel' = waterlevel /\ n' = n /\ i' = i
      /\ cleared' = cleared
  BY DEF Abandon
<1>3. v \in Nat /\ p \in Nat
  <2>1. v \in Nat /\ exact.peak \in Nat
    BY <1>1, StateLemma
  <2> HIDE DEF v
  <2> QED
    BY <2>1, MaxOfTwo
<1>4. ~ rl_overflow => Exactly(x, v)
  <2>1. ~ rl_overflow => Canonical(n) /\ Value(n) = exact.n
    BY <1>1 DEF IInv, ExactWords
  <2> QED
    BY <1>1, <2>1, StateLemma, StepLemma
<1>5. (rl_overflow \/ x.over) <=> p >= Limit
  <2>1. rl_overflow <=> exact.peak >= Limit
    BY DEF IInv, OverflowIsExact
  <2>2. ~ rl_overflow => (x.over <=> v >= Limit)
    BY <1>4 DEF Exactly
  <2> QED
    BY <1>1, <1>3, <2>1, <2>2, StateLemma, PeakLemma
<1> HIDE DEF x, p, v
<1>6. exact'.base = exact.base /\ exact'.peak = p
  BY <1>1, <1>2, StateLemma
<1>7. TypeOK'
  <2>1. exact' \in [base : Nat, start : Nat, level : Nat, n : Nat, peak : Nat]
    BY <1>1, <1>2, <1>3, StateLemma
  <2>2. rl_overflow' \in BOOLEAN
    BY <1>2
  <2> QED
    BY <1>1, <1>2, <2>1, <2>2 DEF TypeOK
<1>8. ~ Running' /\ pc' # "step"
  BY <1>2 DEF Running
<1>9. HaveWords' /\ LevelFollows' /\ ClearedSoFar'
  BY <1>2, <1>6, <1>8 DEF IInv, HaveWords, LevelFollows, ClearedSoFar
<1>10. ExactWords'
  BY <1>2, <1>6, <1>8 DEF IInv, ExactWords
<1>11. OverflowIsExact'
  BY <1>2, <1>5, <1>6 DEF OverflowIsExact
<1> QED
  BY <1>7, <1>9, <1>10, <1>11 DEF IInv

LEMMA MoveBaseKeeps ==
  ASSUME IInv, MoveBase
  PROVE  IInv'
<1> DEFINE x == rl_add(base, BLOCKSIZE)
           v == exact.base + BLOCKSIZE
           p == Max({exact.peak, v})
<1>1. TypeOK /\ ~ rl_overflow
  BY DEF IInv, MoveBase
<1>2. /\ base' = x.num /\ rl_overflow' = x.over
      /\ exact' = [exact EXCEPT !.base = v, !.peak = p]
      /\ waterlevel' = waterlevel /\ n' = n /\ i' = i /\ pc' = pc /\ cleared' = cleared
  BY DEF MoveBase
<1>3. v \in Nat /\ p \in Nat
  <2>1. v \in Nat /\ exact.peak \in Nat
    BY <1>1, StateLemma, ConstantsLemma
  <2> HIDE DEF v
  <2> QED
    BY <2>1, MaxOfTwo
<1>4. WellFormed(x) /\ Exactly(x, v)
  <2>1. Canonical(base) /\ Value(base) = exact.base /\ base.len # 0 /\ base \in Bigint
    BY <1>1, StateLemma DEF IInv, ExactWords, HaveWords
  <2> QED
    BY <2>1, AddLemma, ConstantsLemma
<1>5. (rl_overflow \/ x.over) <=> p >= Limit
  <2>1. rl_overflow <=> exact.peak >= Limit
    BY DEF IInv, OverflowIsExact
  <2>2. x.over <=> v >= Limit
    BY <1>4 DEF Exactly
  <2> QED
    BY <1>1, <1>3, <2>1, <2>2, StateLemma, PeakLemma
<1> HIDE DEF x, p
<1>6. v % 2 = 1
  <2>1. exact.base % 2 = 1 /\ exact.base \in Nat
    BY <1>1, StateLemma DEF IInv, LevelFollows
  <2> QED
    BY <2>1, ConstantsLemma
<1> HIDE DEF v
<1>7. /\ exact'.base = v /\ exact'.start = exact.start /\ exact'.level = exact.level
      /\ exact'.n = exact.n /\ exact'.peak = p
  BY <1>1, <1>2, StateLemma
<1>8. TypeOK'
  <2>1. exact' \in [base : Nat, start : Nat, level : Nat, n : Nat, peak : Nat]
    BY <1>1, <1>2, <1>3, StateLemma
  <2>2. base' \in Bigint /\ rl_overflow' \in BOOLEAN
    BY <1>2, <1>4 DEF WellFormed
  <2> QED
    BY <1>1, <1>2, <2>1, <2>2 DEF TypeOK
<1>9. Running' <=> Running
  BY <1>2 DEF Running
<1>10. HaveWords'
  BY <1>2, <1>4, <1>9 DEF IInv, HaveWords, WellFormed
<1>11. LevelFollows' /\ ClearedSoFar'
  BY <1>2, <1>6, <1>7, <1>9 DEF IInv, LevelFollows, ClearedSoFar
<1>12. ExactWords'
  BY <1>1, <1>2, <1>4, <1>7, <1>9 DEF IInv, ExactWords, Exactly
<1>13. OverflowIsExact'
  BY <1>1, <1>2, <1>5, <1>7 DEF OverflowIsExact
<1> QED
  BY <1>8, <1>10, <1>11, <1>12, <1>13 DEF IInv

LEMMA StepKeeps ==
  ASSUME IInv, [Next]_vars
  PROVE  IInv'
<1>1. CASE UNCHANGED vars
  <2>1. /\ base' = base /\ waterlevel' = waterlevel /\ n' = n /\ i' = i /\ pc' = pc
        /\ rl_overflow' = rl_overflow /\ exact' = exact /\ cleared' = cleared
    BY <1>1 DEF vars
  <2>2. TypeOK'
    BY <2>1 DEF IInv, TypeOK
  <2>3. HaveWords' /\ LevelFollows' /\ ClearedSoFar' /\ ExactWords' /\ OverflowIsExact'
    BY <2>1 DEF IInv, HaveWords, LevelFollows, ClearedSoFar, ExactWords, OverflowIsExact, Running
  <2> QED
    BY <2>2, <2>3 DEF IInv
<1>2. CASE Refuse \/ Finish
  BY <1>2, PcKeeps
<1>3. CASE NextNumber
  BY <1>3, NextNumberKeeps
<1>4. CASE Continue
  BY <1>4, ContinueKeeps
<1>5. CASE Clear
  BY <1>5, ClearKeeps
<1>6. CASE Abandon
  BY <1>6, AbandonKeeps
<1>7. CASE MoveBase
  BY <1>7, MoveBaseKeeps
<1>8. CASE \E bi \in 0 .. BLOCKS-1 : Start(bi)
  BY <1>8, StartKeeps
<1> QED
  BY <1>1, <1>2, <1>3, <1>4, <1>5, <1>6, <1>7, <1>8 DEF Next

LEMMA Invariant == Spec => []IInv
<1>1. Init => IInv
  BY InitHolds
<1>2. IInv /\ [Next]_vars => IInv'
  BY StepKeeps
<1> QED
  BY <1>1, <1>2, PTL DEF Spec

-----------------------------------------------------------------------------
(***************************************************************************)
(* Theorems.                                                               *)
(***************************************************************************)

\* Every word keeps to its BLEN bits and every length to INT_LEN, whatever the
\* carries and shifts of the loop, and also after an overflow of the other task.
THEOREM WordsFit == Spec => []TypeOK
<1>1. IInv => TypeOK
  BY DEF IInv
<1> QED
  BY <1>1, Invariant, PTL

\* Without overflow the words in use are the exact numbers, in normal form:
\* rl_add, rl_f3n1, rl_fdiv2 and rl_set compute what compute_block means.
THEOREM ExactArithmetic == Spec => []WordsAreExact
<1>1. IInv => WordsAreExact
  <2> SUFFICES ASSUME IInv, ~ rl_overflow PROVE
           /\ \A x \in InUse : Canonical(x)
           /\ Value(base) = exact.base
           /\ Running => Value(waterlevel) = exact.level
           /\ pc = "step" => Value(n) = exact.n
    BY DEF WordsAreExact
  <2>1. /\ Canonical(base) /\ Value(base) = exact.base
        /\ Running => Canonical(waterlevel) /\ Value(waterlevel) = exact.level
        /\ pc = "step" => Canonical(n) /\ Value(n) = exact.n
    BY DEF IInv, ExactWords
  <2>2. ASSUME NEW x \in InUse
        PROVE  x = base \/ (Running /\ x = waterlevel) \/ (pc = "step" /\ x = n)
    BY <2>2 DEF InUse
  <2> QED
    BY <2>1, <2>2
<1> QED
  BY <1>1, Invariant, PTL

\* rl_overflow is set exactly when a result did not fit, whichever of rl_add
\* and rl_f3n1 was to produce it, and in whichever task.
THEOREM ExactOverflow == Spec => []OverflowIsExact
<1>1. IInv => OverflowIsExact
  BY DEF IInv
<1> QED
  BY <1>1, Invariant, PTL

\* rl_greater, rl_equal and rl_cmp agree with the order of the numbers they are
\* given, although they look at lengths and at one word only.
THEOREM ExactComparisons == Spec => []ComparesNumbers
<1>1. IInv => ComparesNumbers
  <2> SUFFICES ASSUME IInv, ~ rl_overflow, NEW x \in InUse, NEW y \in InUse PROVE
           /\ rl_cmp(x, y) = (IF Value(x) > Value(y) THEN 1 ELSE IF Value(x) = Value(y) THEN 0 ELSE -1)
           /\ rl_equal(x, y) = 0 <=> Value(x) = Value(y)
    BY DEF ComparesNumbers
  <2>1. /\ Canonical(base) /\ base \in Bigint
        /\ Running => Canonical(waterlevel) /\ waterlevel \in Bigint
        /\ pc = "step" => Canonical(n) /\ n \in Bigint
    BY DEF IInv, ExactWords, TypeOK
  <2>2. \A z \in InUse : z = base \/ (Running /\ z = waterlevel) \/ (pc = "step" /\ z = n)
    BY DEF InUse
  <2>3. Canonical(x) /\ x \in Bigint /\ Canonical(y) /\ y \in Bigint
    BY <2>1, <2>2
  <2> QED
    BY <2>3, CompareLemma
<1> QED
  BY <1>1, Invariant, PTL

\* compute_block finishes a block only with every odd number of it cleared: no
\* odd number is skipped, and no overflow, of either task, passes for success.
THEOREM BlocksAreCleared == Spec => FinishedMeansCleared
<1>1. ASSUME IInv, [Next]_vars
      PROVE  pc = "next" /\ pc' = "idle" =>
               \A m \in exact.start+1 .. exact.start+BLOCKSIZE : m % 2 = 1 => m \in cleared
  <2> SUFFICES ASSUME pc = "next", pc' = "idle",
                      NEW m \in exact.start+1 .. exact.start+BLOCKSIZE, m % 2 = 1
               PROVE  m \in cleared
    OBVIOUS
  <2>1. i >= BLOCKSIZE
    BY <1>1 DEF Next, vars, Refuse, NextNumber, Continue, Clear, Abandon, Finish, MoveBase, Start
  <2>2. i = BLOCKSIZE
    BY <1>1, <2>1, StateLemma, ConstantsLemma DEF IInv
  <2> QED
    BY <1>1, <2>2 DEF IInv, ClearedSoFar, Running
<1>2. IInv /\ [Next]_vars =>
        [pc = "next" /\ pc' = "idle" =>
           \A m \in exact.start+1 .. exact.start+BLOCKSIZE : m % 2 = 1 => m \in cleared]_vars
  BY <1>1
<1> QED
  BY <1>2, Invariant, PTL DEF Spec, FinishedMeansCleared
=============================================================================
