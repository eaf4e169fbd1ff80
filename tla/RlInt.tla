------------------------------- MODULE RlInt -------------------------------
(***************************************************************************)
(* The "rather long" integers of main/rl_int.c: INT_LEN words of BLEN bits *)
(* in unsigned words of BLEN+2 bits.  Each operation is modelled on the    *)
(* words it reads and writes, the ones beyond len included, because a      *)
(* later carry or shift may meet what an earlier operation left there.     *)
(***************************************************************************)
EXTENDS Integers, FiniteSetsExt

CONSTANTS
  INT_LEN,  \* words of a bigint_t (10 in the code)
  BLEN      \* payload bits of a word (30 in the code)

ASSUME LengthAssumption == INT_LEN \in Nat \ {0}
ASSUME WidthAssumption  == BLEN \in Nat \ {0, 1}

\* The powers of two.
Two[k \in Nat] == IF k = 0 THEN 1 ELSE 2 * Two[k-1]

Base   == Two[BLEN]
UINT   == 4 * Base             \* range of the C type a word is kept in
Index  == 0 .. INT_LEN-1
Bigint == [len : 0 .. INT_LEN, a : [Index -> 0 .. Base-1]]

\* What an arithmetic operation leaves: the number and rl_overflow.
Result(num, over) == [num |-> num, over |-> over]

-----------------------------------------------------------------------------
(***************************************************************************)
(* Multiply by k and add c, the loop that rl_add (k = 1) and rl_f3n1       *)
(* (k = 3) have in common.                                                 *)
(***************************************************************************)

\* r for word i when the carry into it is c.
Raw(x, k, i, c) == (k * x.a[i] + c) % UINT

\* The carry into each word, and out of the last one.
Carries(x, k, c) ==
  LET carry[i \in 0 .. x.len] ==
        IF i = 0 THEN c ELSE Raw(x, k, i-1, carry[i-1]) \div Base
  IN  carry

\* the words without & MASK
WordsUnmasked(x, k, c) ==
  [i \in Index |-> IF i < x.len THEN Raw(x, k, i, Carries(x, k, c)[i]) ELSE x.a[i]]

\* The words after the loop.
Words(x, k, c) ==
  [i \in Index |-> IF i < x.len THEN Raw(x, k, i, Carries(x, k, c)[i]) % Base
                                ELSE x.a[i]]

\* the last word of the array counts as missing
FullTooEarly(x) == x.len >= INT_LEN-1

\* All INT_LEN words are in use.
Full(x) == x.len >= INT_LEN

\* A carry out of the last word adds a word, or does not fit.
MulAdd(x, k, c) ==
  LET out == Carries(x, k, c)[x.len]
      y   == [x EXCEPT !.a = Words(x, k, c)]
  IN  IF out = 0 THEN Result(y, FALSE)
      ELSE IF Full(x) THEN Result(y, TRUE)
      ELSE Result([y EXCEPT !.a[x.len] = out, !.len = x.len + 1], FALSE)

rl_add(x, c) == MulAdd(x, 1, c)
rl_f3n1(x)   == MulAdd(x, 3, 1)

-----------------------------------------------------------------------------
(***************************************************************************)
(* rl_fdiv2: divide by two until the number is odd.                        *)
(***************************************************************************)

\* Without a nonzero word the loop while( n[k]==0 ) k++ runs out of the number
\* and __builtin_ctzl( 0 ) follows: the result is undefined.
Divisible(x) == \E i \in 0 .. x.len-1 : x.a[i] # 0

\* "shift whole integers"; the words above the new length are left as they were.
ShiftWords(x) ==
  LET k == Min({i \in 0 .. x.len-1 : x.a[i] # 0}) IN
  [len |-> x.len - k,
   a   |-> [i \in Index |-> IF i + k < x.len THEN x.a[i+k] ELSE x.a[i]]]

\* __builtin_ctzl
TrailingZeros(w) == Min({k \in 0 .. BLEN+1 : (w \div Two[k]) % 2 = 1})

\* the top words are kept even when they become zero
NoTrim(x) == x

\* while( !n[ x->len-1 ] ) x->len--;
Trim(x) == [x EXCEPT !.len = Min({l \in 0 .. x.len : \A i \in l .. x.len-1 : x.a[i] = 0})]

\* "shift the remaining bits"
ShiftBits(x) ==
  LET k == TrailingZeros(x.a[0])
      p == BLEN - k
  IN  IF k = 0 THEN x
      ELSE Trim([x EXCEPT !.a = [i \in Index |->
             IF i >= x.len THEN x.a[i]
             ELSE IF i = x.len-1 THEN x.a[i] \div Two[k]
             ELSE ((x.a[i+1] * Two[p]) % Base) + (x.a[i] \div Two[k])]])

rl_fdiv2(x) == ShiftBits(ShiftWords(x))

-----------------------------------------------------------------------------
(***************************************************************************)
(* Comparisons look for the highest word in which the numbers differ.      *)
(***************************************************************************)
Differing(x, y) == {i \in 0 .. x.len-1 : x.a[i] # y.a[i]}

\* the lowest differing word decides
LowestDecides(x, y) ==
  IF x.len # y.len THEN x.len > y.len
  ELSE LET D == Differing(x, y) IN D # {} /\ x.a[Min(D)] > y.a[Min(D)]

rl_greater(x, y) ==
  IF x.len # y.len THEN x.len > y.len
  ELSE LET D == Differing(x, y) IN D # {} /\ x.a[Max(D)] > y.a[Max(D)]

rl_equal(x, y) == IF x.len = y.len /\ Differing(x, y) = {} THEN 0 ELSE 1

rl_cmp(x, y) ==
  IF rl_greater(x, y) THEN 1 ELSE IF rl_equal(x, y) = 0 THEN 0 ELSE -1

\* rl_set(x, y): only the len words of y are copied.
rl_set(x, y) == [len |-> y.len, a |-> [i \in Index |-> IF i < y.len THEN y.a[i] ELSE x.a[i]]]

-----------------------------------------------------------------------------
(***************************************************************************)
(* The number a bigint_t stands for, and its normal form.                  *)
(***************************************************************************)
Weight[i \in Nat] == IF i = 0 THEN 1 ELSE Base * Weight[i-1]

\* The value of the lowest words, of none up to all of them.
Lowest(x) ==
  LET sum[l \in 0 .. x.len] ==
        IF l = 0 THEN 0 ELSE sum[l-1] + x.a[l-1] * Weight[l-1]
  IN  sum

Value(x) == Lowest(x)[x.len]

Canonical(x) == /\ x.len \in 1 .. INT_LEN
                /\ \A i \in 0 .. x.len-1 : x.a[i] < Base
                /\ x.a[x.len-1] # 0

Zero == [len |-> 0, a |-> [i \in Index |-> 0]]

\* v as a bigint_t
Encode(v) ==
  [len |-> Min({l \in 1 .. INT_LEN : v < Weight[l]}),
   a   |-> [i \in Index |-> (v \div Weight[i]) % Base]]
=============================================================================
