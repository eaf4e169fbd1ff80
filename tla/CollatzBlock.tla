---------------------------- MODULE CollatzBlock ----------------------------
(***************************************************************************)
(* The computation inside compute_block() of main/collatz.c on the numbers *)
(* of RlInt: every odd number of a block is followed with (3n+1)/2^k until *)
(* it is not above the water level.  Collatz treats this loop as one step; *)
(* here it runs word by word, next to the exact numbers it should compute. *)
(***************************************************************************)
EXTENDS RlInt

CONSTANTS
  BLOCKS,     \* blocks in a frame (32 in the code)
  BLOCKSIZE,  \* numbers in a block (2^22 in the code, and EVEN)
  Bases       \* the first bases, odd numbers (2^68-1 in the code)

\* The first number that does not fit.
Limit == Weight[INT_LEN]

ASSUME BlockAssumption == BLOCKS \in Nat \ {0} /\ BLOCKSIZE \in 2 .. Base /\ BLOCKSIZE % 2 = 0
ASSUME BasesAssumption == \A v \in Bases : v \in 1 .. Limit - 1 /\ v % 2 = 1

VARIABLES
  base,         \* job.base
  waterlevel,   \* every n <= waterlevel is (conditionally) cleared
  n,            \* the variable that runs through the sequence
  i,            \* the numbers of the block dealt with
  pc,           \* where the loop stands; "dead" once the task has ended
  rl_overflow,  \* set if rl_add or rl_f3n1 overflows
  exact,        \* history: the same values without limit; the start of the
                \* block; the largest value any operation was to produce
  cleared       \* history: numbers of the block seen to fall below themselves

vars == <<base, waterlevel, n, i, pc, rl_overflow, exact, cleared>>

\* v divided by two until it is odd
Odd[v \in Nat] == IF v = 0 \/ v % 2 = 1 THEN v ELSE Odd[v \div 2]

Init ==
  \E v \in Bases :
    /\ base = Encode(v)
    /\ waterlevel = Zero
    /\ n = Zero
    /\ i = 0
    /\ pc = "idle"
    /\ rl_overflow = FALSE
    /\ exact = [base |-> v, start |-> 0, level |-> 0, n |-> 0, peak |-> v]
    /\ cleared = {}

\* rl_add( &waterlevel, BLOCKSIZE ), bi times
Raise(x, bi) ==
  LET level[k \in 0 .. bi] ==
        IF k = 0 THEN Result(x, FALSE)
        ELSE LET y == rl_add(level[k-1].num, BLOCKSIZE)
             IN  Result(y.num, y.over \/ level[k-1].over)
  IN  level[bi]

\* compute_block returns at once after an overflow.
Refuse ==
  /\ pc = "idle"
  /\ rl_overflow
  /\ pc' = "dead"
  /\ UNCHANGED <<base, waterlevel, n, i, rl_overflow, exact, cleared>>

\* compute_block(bi): set the water level to base + bi*BLOCKSIZE.
Start(bi) ==
  /\ pc = "idle"
  /\ ~ rl_overflow
  /\ LET w == Raise(rl_set(waterlevel, base), bi)
         v == exact.base + bi * BLOCKSIZE
     IN  /\ waterlevel' = w.num
         /\ rl_overflow' = w.over
         /\ exact' = [exact EXCEPT !.start = v, !.level = v, !.peak = Max({@, v})]
  /\ i' = 0
  /\ cleared' = {}
  /\ pc' = "next"
  /\ UNCHANGED <<base, n>>

\* The next odd number of the block.
NextNumber ==
  /\ pc = "next"
  /\ i < BLOCKSIZE
  /\ LET x == rl_add(rl_set(n, waterlevel), 2)
         v == exact.level + 2
     IN  /\ n' = x.num
         /\ rl_overflow' = (rl_overflow \/ x.over)
         /\ exact' = [exact EXCEPT !.n = v, !.peak = Max({@, v})]
  /\ pc' = "step"
  /\ UNCHANGED <<base, waterlevel, i, cleared>>

\* the loop does not look at rl_overflow
OverflowIgnored(over) == FALSE

\* if ( rl_overflow ) return -1;
Overflowed(over) == rl_overflow \/ over

\* One turn of the do-while loop that does not end it: n is still above.
Continue ==
  /\ pc = "step"
  /\ LET x == rl_f3n1(n)
         v == 3 * exact.n + 1
     IN  /\ Divisible(x.num)
         /\ ~ Overflowed(x.over)
         /\ rl_greater(rl_fdiv2(x.num), waterlevel)
         /\ n' = rl_fdiv2(x.num)
         /\ rl_overflow' = (rl_overflow \/ x.over)
         /\ exact' = [exact EXCEPT !.n = Odd[v], !.peak = Max({@, v})]
  /\ UNCHANGED <<base, waterlevel, i, pc, cleared>>

\* The turn after which n is not above the water level: the number is cleared.
Clear ==
  /\ pc = "step"
  /\ LET x == rl_f3n1(n)
         v == 3 * exact.n + 1
         w == rl_add(waterlevel, 2)
         m == exact.level + 2
     IN  /\ Divisible(x.num)
         /\ ~ Overflowed(x.over)
         /\ ~ rl_greater(rl_fdiv2(x.num), waterlevel)
         /\ n' = rl_fdiv2(x.num)
         /\ waterlevel' = w.num
         /\ rl_overflow' = (rl_overflow \/ x.over \/ w.over)
         /\ exact' = [exact EXCEPT !.n = Odd[v], !.level = m, !.peak = Max({@, v, m})]
         /\ cleared' = IF Odd[v] < m THEN cleared \cup {m} ELSE cleared
  /\ i' = i + 2
  /\ pc' = "next"
  /\ UNCHANGED base

\* The turn that overflows.  It returns -1; when the carry has left only zeros
\* behind, rl_fdiv2 comes first and its result is undefined: whatever it does,
\* the task does not go on.
Abandon ==
  /\ pc = "step"
  /\ LET x == rl_f3n1(n)
         v == 3 * exact.n + 1
     IN  /\ Overflowed(x.over) \/ ~ Divisible(x.num)
         /\ rl_overflow' = (rl_overflow \/ x.over)
         /\ exact' = [exact EXCEPT !.peak = Max({@, v})]
  /\ pc' = "dead"
  /\ UNCHANGED <<base, waterlevel, n, i, cleared>>

\* The whole block is done; Collatz models what is reported.
Finish ==
  /\ pc = "next"
  /\ i >= BLOCKSIZE
  /\ pc' = "idle"
  /\ UNCHANGED <<base, waterlevel, n, i, rl_overflow, exact, cleared>>

\* The base moves up by a block, in either task (report_my_progress,
\* process_report), until the first overflow.
MoveBase ==
  /\ ~ rl_overflow
  /\ LET x == rl_add(base, BLOCKSIZE)
         v == exact.base + BLOCKSIZE
     IN  /\ base' = x.num
         /\ rl_overflow' = x.over
         /\ exact' = [exact EXCEPT !.base = v, !.peak = Max({@, v})]
  /\ UNCHANGED <<waterlevel, n, i, pc, cleared>>

Next ==
  \/ Refuse \/ NextNumber \/ Continue \/ Clear \/ Abandon \/ Finish \/ MoveBase
  \/ \E bi \in 0 .. BLOCKS-1 : Start(bi)

Spec == Init /\ [][Next]_vars

-----------------------------------------------------------------------------
(***************************************************************************)
(* Properties.                                                             *)
(***************************************************************************)

TypeOK ==
  /\ base \in Bigint /\ waterlevel \in Bigint /\ n \in Bigint
  /\ i \in 0 .. BLOCKSIZE
  /\ pc \in {"idle", "next", "step", "dead"}
  /\ rl_overflow \in BOOLEAN
  /\ exact \in [base : Nat, start : Nat, level : Nat, n : Nat, peak : Nat]
  /\ cleared \subseteq Nat

\* The numbers in use; n and the water level are not set yet at first.
Running == pc \in {"next", "step"}
InUse == {base} \cup (IF Running THEN {waterlevel} ELSE {})
                \cup (IF pc = "step" THEN {n} ELSE {})

\* Without overflow the words in use are the exact numbers, in normal form (no
\* leading zero word, no word wider than BLEN), whatever earlier and longer
\* numbers left in the words above.
WordsAreExact ==
  ~ rl_overflow =>
    /\ \A x \in InUse : Canonical(x)
    /\ Value(base) = exact.base
    /\ Running => Value(waterlevel) = exact.level
    /\ pc = "step" => Value(n) = exact.n

\* rl_overflow is set exactly when some result did not fit: neither early nor
\* late by a carry.
OverflowIsExact == rl_overflow <=> exact.peak >= Limit

\* The comparisons agree with the order of the numbers.
ComparesNumbers ==
  ~ rl_overflow =>
    \A x, y \in InUse :
      /\ rl_cmp(x, y) = (IF Value(x) > Value(y) THEN 1 ELSE IF Value(x) = Value(y) THEN 0 ELSE -1)
      /\ rl_equal(x, y) = 0 <=> Value(x) = Value(y)

\* compute_block ends with success only if every odd number of its block was
\* cleared; an overflow anywhere on the way never passes for a finished block.
FinishedMeansCleared ==
  [][pc = "next" /\ pc' = "idle" =>
       \A m \in exact.start+1 .. exact.start+BLOCKSIZE : m % 2 = 1 => m \in cleared]_vars
=============================================================================
