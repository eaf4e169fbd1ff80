--------------------------- MODULE MCCollatzBlock ---------------------------
(***************************************************************************)
(* CollatzBlock for TLC: numbers of four words of two bits, blocks of four *)
(* numbers, every odd number as a first base.  As in the code the number   *)
(* of bits is even, so that 3n+1 can be exactly the first number that does *)
(* not fit (n = 85).                                                       *)
(***************************************************************************)
EXTENDS CollatzBlock

OddBases == {v \in 1 .. Limit - 1 : v % 2 = 1}
=============================================================================
