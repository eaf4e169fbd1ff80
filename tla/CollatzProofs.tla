--------------------------- MODULE CollatzProofs ---------------------------
(***************************************************************************)
(* Proofs about Collatz, for every tree, frame size, queue size, horizon   *)
(* and number of restarts.                                                 *)
(*                                                                         *)
(* The argument: every operation on a frame makes the new frame Continue   *)
(* the old one (statuses grow, the job stays the same absolute block or    *)
(* its block is done), and keeps it Sound (everything it counts as done    *)
(* was started).  Reports carry only sound claims, so folding one into a   *)
(* sound frame gives a sound frame.  Inv puts the two together.            *)
(***************************************************************************)
EXTENDS Collatz, TLAPS, WellFoundedInduction

USE DEF FREE, TAKEN, DONE

\* A frame whose done blocks, and whose job, were started; S is the set of
\* started blocks.  Before the first pick the job is block 0 of base 0.
Sound(f, S) ==
  /\ \A k \in Nat : k < f.base => k \in S
  /\ \A i \in Index : f.block[i] = DONE => f.base + i \in S
  /\ f.id >= 0 => f.base + f.id \in S \/ (f.base = 0 /\ f.id = 0)
  
\* A report that declares only started blocks done.
SoundReport(r, S) ==
  /\ \A k \in Nat : k < r.base => k \in S
  /\ r.rt = DONE /\ r.id >= 0 => r.base + r.id \in S

SoundInbox(q, S) ==
  /\ q \in [Node -> Seq(Report)]
  /\ \A n \in Node : \A k \in 1 .. Len(q[n]) : SoundReport(q[n][k], S)

\* The job of a frame f, seen from a compute task at p that works on w.
Doing(f, p, w) ==
  p = "work" =>
    /\ f.id >= 0 => f.base + f.id = w /\ f.block[f.id] = TAKEN
    /\ f.id < 0  => \/ w < f.base
                    \/ w - f.base \in Index /\ f.block[w - f.base] = DONE

\* The inductive invariant.
Inv ==
  /\ TypeOK
  /\ HeadNotDone
  /\ \A n \in Node : Sound(frame[n], started) /\ Doing(frame[n], pc[n], work[n])
  /\ \A n \in Node : pc[n] = "work" => work[n] \in started
  /\ SoundInbox(inbox, started)
  /\ \A n \in Node : SoundReport(comm[n], started)

\* Frame g comes after frame f.
Continues(f, g) ==
  /\ f.base <= g.base
  /\ \A k \in Nat : k >= f.base => StatusOf(f, k) <= StatusOf(g, k)
  /\ g.id >= 0 => /\ f.id >= 0
                  /\ g.base + g.id = f.base + f.id
                  /\ f.block[f.id] # DONE => g.block[g.id] # DONE
  /\ f.id >= 0 /\ g.id < 0 => StatusOf(g, f.base + f.id) = DONE

-----------------------------------------------------------------------------
(***************************************************************************)
(* The operations on frames.                                               *)
(***************************************************************************)

\* The scan of report_my_progress stops at a first block that is not done.
LEMMA DonePrefixIsPrefix ==
  ASSUME NEW b \in [Index -> Status]
  PROVE  /\ DonePrefix(b) \in 0 .. BLOCKS
         /\ \A i \in Index : i < DonePrefix(b) => b[i] = DONE
         /\ DonePrefix(b) < BLOCKS => b[DonePrefix(b)] # DONE
<1> DEFINE P(k) == /\ \A i \in Index : i < k => b[i] = DONE
                   /\ k < BLOCKS => b[k] # DONE
           T == {i \in Index : b[i] # DONE}
<1>1. \E k \in 0 .. BLOCKS : P(k)
  <2>1. CASE T = {}
    <3>1. \A i \in Index : b[i] = DONE
      BY <2>1
    <3>2. BLOCKS \in 0 .. BLOCKS /\ P(BLOCKS)
      BY <3>1, BlocksAssumption
    <3> QED BY <3>2
  <2>2. CASE T # {}
    <3>1. T \subseteq Nat
      BY DEF Index
    <3>2. PICK k \in T : \A y \in T : ~ (<<y, k>> \in OpToRel(<, Nat))
      <4> HIDE DEF T
      <4> QED BY <2>2, <3>1, NatLessThanWellFounded, WFMin
    <3>3. \A y \in T : ~ (y < k)
      BY <3>1, <3>2 DEF OpToRel
    <3>4. k \in Index /\ b[k] # DONE
      OBVIOUS
    <3>5. P(k)
      BY <3>3, <3>4 DEF Index
    <3> QED BY <3>4, <3>5, BlocksAssumption DEF Index
  <2> QED BY <2>1, <2>2
<1>2. DonePrefix(b) \in 0 .. BLOCKS /\ P(DonePrefix(b))
  BY <1>1 DEF DonePrefix
<1> QED BY <1>2

\* What StatusOf says below, in and above a frame.
LEMMA StatusLemma ==
  ASSUME NEW f \in Frame, NEW k \in Nat
  PROVE  /\ StatusOf(f, k) \in Status
         /\ k < f.base => StatusOf(f, k) = DONE
         /\ k >= f.base + BLOCKS => StatusOf(f, k) = FREE
         /\ k >= f.base /\ k < f.base + BLOCKS =>
              k - f.base \in Index /\ StatusOf(f, k) = f.block[k - f.base]
<1>1. f.base \in Nat /\ f.block \in [Index -> Status]
  BY DEF Frame
<1>2. CASE k < f.base
  BY <1>1, <1>2, BlocksAssumption DEF StatusOf, Status
<1>3. CASE k >= f.base + BLOCKS
  BY <1>1, <1>3, BlocksAssumption DEF StatusOf, Status
<1>4. CASE k >= f.base /\ k < f.base + BLOCKS
  <2>1. k - f.base \in Index
    BY <1>1, <1>4, BlocksAssumption DEF Index
  <2>2. StatusOf(f, k) = f.block[k - f.base]
    BY <1>1, <1>4 DEF StatusOf
  <2>3. ~ (k < f.base) /\ ~ (k >= f.base + BLOCKS)
    BY <1>1, <1>4, BlocksAssumption
  <2>4. StatusOf(f, k) \in Status
    BY <1>1, <2>1, <2>2
  <2> QED BY <2>1, <2>2, <2>3, <2>4
<1> QED BY <1>1, <1>2, <1>3, <1>4, BlocksAssumption

\* Moving the base over done blocks, or to the base of a sound report.
LEMMA ShiftLemma ==
  ASSUME NEW S, NEW f \in Frame, NEW s \in Nat, Sound(f, S),
         \A k \in Nat : k < f.base + s => k \in S
  PROVE  /\ Shift(f, s) \in Frame
         /\ Sound(Shift(f, s), S)
         /\ Continues(f, Shift(f, s))
<1> DEFINE g == Shift(f, s)
<1>1. /\ f.base \in Nat /\ f.id \in Index \cup {-1}
      /\ f.block \in [Index -> Status]
  BY DEF Frame
<1>2. /\ g.base = f.base + s
      /\ g.id = IF f.id >= s THEN f.id - s ELSE -1
      /\ g.block = [i \in Index |-> IF i + s < BLOCKS THEN f.block[i + s] ELSE FREE]
  BY DEF Shift
<1>3. g \in Frame
  <2>1. g.base \in Nat /\ g.id \in Index \cup {-1}
    <3> HIDE DEF g
    <3> QED BY <1>1, <1>2, BlocksAssumption DEF Index
  <2>2. g.block \in [Index -> Status]
    <3> HIDE DEF g
    <3>1. \A i \in Index : i + s < BLOCKS => f.block[i + s] \in Status
      BY <1>1, BlocksAssumption DEF Index
    <3>2. FREE \in Status
      BY DEF Status
    <3> QED BY <1>2, <3>1, <3>2
  <2> QED BY <2>1, <2>2 DEF Shift, Frame
<1>4. \A i \in Index : g.block[i] = DONE => f.block[i + s] = DONE /\ i + s \in Index
  BY <1>1, <1>2, BlocksAssumption DEF Index
<1>5. Sound(g, S)
  <2> HIDE DEF g
  <2>1. ASSUME NEW i \in Index, g.block[i] = DONE
        PROVE  g.base + i \in S
    <3>1. i + s \in Index /\ f.base + (i + s) \in S
      BY <1>4, <2>1 DEF Sound
    <3> QED BY <1>1, <1>2, <3>1 DEF Index
  <2>2. g.id >= 0 => g.base + g.id \in S \/ (g.base = 0 /\ g.id = 0)
    <3>1. CASE f.id >= s
      <4>1. f.id >= 0 /\ g.id = f.id - s /\ g.base + g.id = f.base + f.id
        BY <1>1, <1>2, <3>1 DEF Index
      <4>2. f.base = 0 /\ f.id = 0 => g.base = 0 /\ g.id = 0
        BY <1>2, <3>1, <4>1
      <4> QED BY <4>1, <4>2 DEF Sound
    <3>2. CASE ~ (f.id >= s)
      BY <1>2, <3>2
    <3> QED BY <3>1, <3>2
  <2> QED BY <1>1, <1>2, <2>1, <2>2 DEF Sound
<1>6. Continues(f, g)
  <2> HIDE DEF g
  <2>1. ASSUME NEW k \in Nat, k >= f.base
        PROVE  StatusOf(f, k) <= StatusOf(g, k)
    <3>1. CASE k < g.base
      BY <1>3, <2>1, <3>1, StatusLemma DEF Status
    <3>2. CASE k >= g.base /\ k < f.base + BLOCKS
      <4>1. k - g.base \in Index /\ g.block[k - g.base] = f.block[k - f.base]
        BY <1>1, <1>2, <3>2, BlocksAssumption DEF Index
      <4>2. k < g.base + BLOCKS
        BY <1>1, <1>2, <3>2, BlocksAssumption
      <4>3. StatusOf(f, k) = f.block[k - f.base] /\ StatusOf(g, k) = g.block[k - g.base]
        BY <1>3, <2>1, <3>2, <4>2, StatusLemma
      <4>4. StatusOf(f, k) \in Status
        BY StatusLemma
      <4> QED BY <4>1, <4>3, <4>4 DEF Status
    <3>3. CASE k >= f.base + BLOCKS
      BY <1>3, <2>1, <3>3, StatusLemma DEF Status
    <3> QED BY <1>1, <1>2, <3>1, <3>2, <3>3, BlocksAssumption
  <2>2. ASSUME g.id >= 0
        PROVE  /\ f.id >= 0 /\ g.base + g.id = f.base + f.id
               /\ f.block[f.id] # DONE => g.block[g.id] # DONE
    <3>1. f.id \in Int /\ f.id < BLOCKS /\ f.base \in Nat
      BY <1>1, BlocksAssumption DEF Index
    <3>2. f.id >= s /\ g.id = f.id - s
      BY <1>2, <2>2, <3>1
    <3>3. f.id >= 0 /\ g.id + s = f.id /\ g.id \in Index
      BY <2>2, <3>1, <3>2, BlocksAssumption DEF Index
    <3>4. g.base + g.id = f.base + f.id
      BY <1>2, <3>1, <3>2
    <3>5. g.block[g.id] = f.block[f.id]
      BY <1>2, <3>1, <3>3
    <3> QED BY <3>3, <3>4, <3>5
  <2>3. ASSUME f.id >= 0, g.id < 0
        PROVE  StatusOf(g, f.base + f.id) = DONE
    <3>1. f.id \in Nat /\ f.base \in Nat
      BY <1>1, <2>3, BlocksAssumption DEF Index
    <3>2. f.id < s
      BY <1>2, <2>3, <3>1
    <3>3. f.base + f.id \in Nat /\ f.base + f.id < g.base
      BY <1>2, <3>1, <3>2
    <3> QED BY <1>3, <3>3, StatusLemma
  <2> QED BY <1>1, <1>2, <2>1, <2>2, <2>3 DEF Continues
<1> QED BY <1>3, <1>5, <1>6

\* After report_my_progress the first block is not done, and if the base
\* moved the job the report names was started.
LEMMA AdvanceLemma ==
  ASSUME NEW S, NEW f \in Frame, Sound(f, S)
  PROVE  /\ Advance(f) \in Frame
         /\ Sound(Advance(f), S)
         /\ Continues(f, Advance(f))
         /\ Advance(f).block[0] # DONE
         /\ f.block[0] = DONE => Advance(f).base > f.base
<1> DEFINE s == DonePrefix(f.block)
<1>1. /\ f.base \in Nat /\ f.id \in Index \cup {-1}
      /\ f.block \in [Index -> Status]
  BY DEF Frame
<1>2. /\ s \in 0 .. BLOCKS
      /\ \A i \in Index : i < s => f.block[i] = DONE
      /\ s < BLOCKS => f.block[s] # DONE
  BY <1>1, DonePrefixIsPrefix
<1> HIDE DEF s
<1>3. s \in Nat
  BY <1>2, BlocksAssumption
<1>4. \A k \in Nat : k < f.base + s => k \in S
  <2> SUFFICES ASSUME NEW k \in Nat, k < f.base + s, k >= f.base
               PROVE  k \in S
    BY <1>1 DEF Sound
  <2>1. k - f.base \in Index /\ k - f.base < s
    BY <1>1, <1>2, BlocksAssumption DEF Index
  <2>2. f.base + (k - f.base) \in S
    BY <1>2, <2>1 DEF Sound
  <2> QED BY <1>1, <2>2
<1>5. Advance(f) = Shift(f, s)
  BY DEF Advance, s
<1>6. Advance(f).block[0] # DONE
  BY <1>2, <1>3, <1>5, BlocksAssumption DEF Shift, Index
<1>7. f.block[0] = DONE => s > 0
  BY <1>2, BlocksAssumption
<1>8. Advance(f).base = f.base + s
  BY <1>5 DEF Shift
<1>9. f.block[0] = DONE => Advance(f).base > f.base
  BY <1>1, <1>3, <1>7, <1>8
<1> QED BY <1>3, <1>4, <1>5, <1>6, <1>9, ShiftLemma

\* Recording a sound status.
LEMMA MarkLemma ==
  ASSUME NEW S, NEW f \in Frame, Sound(f, S),
         NEW i \in Int, i < BLOCKS, NEW rt \in {TAKEN, DONE},
         i >= 0 /\ rt = DONE => f.base + i \in S
  PROVE  /\ Mark(f, i, rt) \in Frame
         /\ Sound(Mark(f, i, rt), S)
         /\ Continues(f, Mark(f, i, rt))
<1> DEFINE g == Mark(f, i, rt)
<1>1. /\ f.base \in Nat /\ f.id \in Index \cup {-1}
      /\ f.block \in [Index -> Status]
  BY DEF Frame
<1>2. CASE i < 0
  <2>1. g = f
    BY <1>2 DEF Mark
  <2>2. Continues(f, f)
    <3>1. \A k \in Nat : StatusOf(f, k) \in Status
      BY StatusLemma
    <3>2. \A k \in Nat : StatusOf(f, k) <= StatusOf(f, k)
      BY <3>1 DEF Status
    <3> QED BY <1>1, <3>2 DEF Continues, Index
  <2> QED BY <2>1, <2>2
<1>3. CASE i >= 0
  <2>1. i \in Index
    BY <1>3, BlocksAssumption DEF Index
  <2>2. /\ g.base = f.base
        /\ g.id = IF rt = DONE /\ i = f.id THEN -1 ELSE f.id
        /\ g.block = [f.block EXCEPT ![i] = IF f.block[i] > rt THEN f.block[i] ELSE rt]
    BY <1>1, <1>3, <2>1 DEF Mark, Frame
  <2>3. g \in Frame
    <3>1. g.base \in Nat /\ g.id \in Index \cup {-1} /\ g.block \in [Index -> Status]
      BY <1>1, <2>1, <2>2 DEF Status
    <3> QED BY <1>3, <3>1 DEF Mark, Frame
  <2>4. \A j \in Index : /\ f.block[j] <= g.block[j]
                         /\ g.block[j] = DONE => f.block[j] = DONE \/ (j = i /\ rt = DONE)
    BY <1>1, <2>1, <2>2 DEF Status
  <2> HIDE DEF g
  <2>5. Sound(g, S)
    <3>1. \A j \in Index : g.block[j] = DONE => g.base + j \in S
      BY <1>3, <2>2, <2>4 DEF Sound
    <3> QED BY <2>2, <3>1 DEF Sound
  <2>6. \A k \in Nat : StatusOf(f, k) <= StatusOf(g, k)
    <3> SUFFICES ASSUME NEW k \in Nat PROVE StatusOf(f, k) <= StatusOf(g, k)
      OBVIOUS
    <3>1. CASE f.base <= k /\ k < f.base + BLOCKS
      <4>1. /\ k - f.base \in Index /\ StatusOf(f, k) = f.block[k - f.base]
            /\ StatusOf(g, k) = g.block[k - f.base]
        BY <2>2, <2>3, <3>1, StatusLemma
      <4> QED BY <2>4, <4>1
    <3>2. CASE k < f.base \/ k >= f.base + BLOCKS
      BY <2>2, <2>3, <3>2, StatusLemma DEF Status
    <3> QED BY <1>1, <3>1, <3>2, BlocksAssumption
  <2>7. ASSUME g.id >= 0
        PROVE  /\ f.id >= 0 /\ g.base + g.id = f.base + f.id
               /\ f.block[f.id] # DONE => g.block[g.id] # DONE
    BY <1>1, <2>2, <2>4, <2>7 DEF Index
  <2>8. ASSUME f.id >= 0, g.id < 0
        PROVE  StatusOf(g, f.base + f.id) = DONE
    <3>1. rt = DONE /\ f.id = i
      BY <1>1, <2>2, <2>8 DEF Index
    <3>2. g.block[i] = DONE
      BY <1>1, <2>1, <2>2, <3>1 DEF Status
    <3>3. /\ f.base + i \in Nat
          /\ f.base + i >= g.base /\ f.base + i < g.base + BLOCKS
          /\ (f.base + i) - g.base = i
      BY <1>1, <2>1, <2>2, BlocksAssumption DEF Index
    <3>4. StatusOf(g, f.base + i) = g.block[i]
      BY <2>3, <3>3, StatusLemma
    <3> QED BY <3>1, <3>2, <3>4
  <2>9. f.base <= g.base
    BY <1>1, <2>2
  <2> QED BY <2>3, <2>5, <2>6, <2>7, <2>8, <2>9 DEF Continues, g
<1> QED BY <1>2, <1>3

LEMMA ContinuesTransitive ==
  ASSUME NEW f \in Frame, NEW g \in Frame, NEW h \in Frame,
         Continues(f, g), Continues(g, h)
  PROVE  Continues(f, h)
<1>1. /\ f.base \in Nat /\ g.base \in Nat /\ h.base \in Nat
      /\ f.id \in Index \cup {-1} /\ g.id \in Index \cup {-1} /\ h.id \in Index \cup {-1}
      /\ f.block \in [Index -> Status] /\ g.block \in [Index -> Status]
      /\ h.block \in [Index -> Status]
  BY DEF Frame
<1>2. ASSUME NEW k \in Nat
      PROVE  StatusOf(f, k) \in Status /\ StatusOf(g, k) \in Status /\ StatusOf(h, k) \in Status
  BY StatusLemma
<1>3. ASSUME NEW k \in Nat, k >= f.base
      PROVE  StatusOf(f, k) <= StatusOf(h, k)
  <2>1. StatusOf(f, k) <= StatusOf(g, k)
    BY <1>3 DEF Continues
  <2>2. StatusOf(g, k) <= StatusOf(h, k)
    <3>1. CASE k >= g.base
      BY <3>1 DEF Continues
    <3>2. CASE k < g.base
      <4>1. k < h.base
        BY <1>1, <3>2 DEF Continues
      <4> QED BY <1>1, <3>2, <4>1 DEF StatusOf
    <3> QED BY <1>1, <3>1, <3>2
  <2> QED BY <1>2, <2>1, <2>2 DEF Status
<1>4. ASSUME h.id >= 0
      PROVE  /\ f.id >= 0 /\ h.base + h.id = f.base + f.id
             /\ f.block[f.id] # DONE => h.block[h.id] # DONE
  BY <1>4 DEF Continues
<1>5. ASSUME f.id >= 0, h.id < 0
      PROVE  StatusOf(h, f.base + f.id) = DONE
  <2>1. CASE g.id >= 0
    BY <1>5, <2>1 DEF Continues
  <2>2. CASE g.id < 0
    <3> DEFINE k == f.base + f.id
    <3>1. k \in Nat /\ k >= f.base
      BY <1>1, <1>5 DEF Index
    <3>2. StatusOf(g, k) = DONE
      BY <1>5, <2>2 DEF Continues
    <3>3. CASE k >= g.base
      BY <1>2, <3>1, <3>2, <3>3 DEF Continues, Status
    <3>4. CASE k < g.base
      <4>1. k < h.base
        BY <1>1, <3>1, <3>4 DEF Continues
      <4> QED BY <4>1 DEF StatusOf
    <3> QED BY <1>1, <3>1, <3>3, <3>4
  <2> QED BY <1>1, <2>1, <2>2 DEF Index
<1>6. f.base <= h.base
  BY <1>1 DEF Continues
<1> QED BY <1>3, <1>4, <1>5, <1>6 DEF Continues

\* Whatever the comm task does to the frame, the compute task keeps its job or
\* the block of the job is done.
LEMMA ContinuesDoing ==
  ASSUME NEW f \in Frame, NEW g \in Frame, Continues(f, g),
         NEW p, NEW w \in Nat, Doing(f, p, w)
  PROVE  Doing(g, p, w)
<1> SUFFICES ASSUME p = "work" PROVE Doing(g, p, w)
  BY DEF Doing
<1>1. /\ f.base \in Nat /\ g.base \in Nat
      /\ f.id \in Index \cup {-1} /\ g.id \in Index \cup {-1}
      /\ f.block \in [Index -> Status] /\ g.block \in [Index -> Status]
      /\ f.base <= g.base
  BY DEF Frame, Continues
<1>2. ASSUME g.id >= 0
      PROVE  g.base + g.id = w /\ g.block[g.id] = TAKEN
  <2>1. /\ f.id >= 0 /\ g.base + g.id = w /\ f.base + f.id = w
        /\ f.block[f.id] = TAKEN /\ g.block[g.id] # DONE
    BY <1>2 DEF Continues, Doing
  <2>2. StatusOf(f, w) = TAKEN /\ StatusOf(g, w) = g.block[g.id]
    <3>1. /\ w >= f.base /\ w < f.base + BLOCKS /\ w - f.base = f.id
          /\ w >= g.base /\ w < g.base + BLOCKS /\ w - g.base = g.id
      <4>1. f.id \in 0 .. BLOCKS-1 /\ g.id \in 0 .. BLOCKS-1
        BY <1>1, <1>2, <2>1, BlocksAssumption DEF Index
      <4> QED BY <1>1, <2>1, <4>1, BlocksAssumption
    <3> QED BY <2>1, <3>1, StatusLemma
  <2>3. w >= f.base
    BY <1>1, <2>1 DEF Index
  <2>4. TAKEN <= g.block[g.id]
    BY <2>2, <2>3 DEF Continues
  <2>5. g.block[g.id] \in Status
    <3>1. g.id \in Index
      BY <1>1, <1>2
    <3> QED BY <1>1, <3>1
  <2> QED BY <2>1, <2>4, <2>5 DEF Status
<1>3. ASSUME g.id < 0
      PROVE  w < g.base \/ (w - g.base \in Index /\ g.block[w - g.base] = DONE)
  <2>1. StatusOf(g, w) = DONE
    <3>1. CASE f.id >= 0
      BY <1>3, <3>1 DEF Continues, Doing
    <3>2. CASE f.id < 0
      <4>1. CASE w < f.base
        BY <1>1, <4>1 DEF StatusOf
      <4>2. CASE w - f.base \in Index /\ f.block[w - f.base] = DONE
        <5>1. StatusOf(f, w) = DONE /\ w >= f.base
          <6>1. w >= f.base /\ w < f.base + BLOCKS
            BY <1>1, <4>2, BlocksAssumption DEF Index
          <6> QED BY <4>2, <6>1, StatusLemma
        <5>2. StatusOf(g, w) \in Status
          BY StatusLemma
        <5> QED BY <5>1, <5>2 DEF Continues, Status
      <4> QED BY <3>2, <4>1, <4>2 DEF Doing
    <3> QED BY <1>1, <3>1, <3>2 DEF Index
  <2> QED BY <1>1, <2>1, BlocksAssumption DEF StatusOf, Index
<1> QED BY <1>2, <1>3 DEF Doing

\* A report folded into a frame.
LEMMA FoldLemma ==
  ASSUME NEW S, NEW f \in Frame, Sound(f, S), NEW r \in Report, SoundReport(r, S)
  PROVE  /\ Fold(f, r) \in Frame
         /\ Sound(Fold(f, r), S)
         /\ Continues(f, Fold(f, r))
<1>1. /\ f.base \in Nat /\ r.base \in Nat
      /\ r.id \in Int /\ r.id < BLOCKS /\ r.rt \in {TAKEN, DONE}
  BY BlocksAssumption DEF Frame, Report, Index
<1>2. CASE r.base <= f.base
  <2> DEFINE i == Rebase(f, r)
  <2>1. /\ i \in Int /\ i < BLOCKS /\ f.base + i = r.base + r.id
        /\ i >= 0 => r.id >= 0
    BY <1>1, <1>2, BlocksAssumption DEF Rebase
  <2>2. i >= 0 /\ r.rt = DONE => f.base + i \in S
    BY <2>1 DEF SoundReport
  <2>3. Fold(f, r) = Mark(f, i, r.rt)
    BY <1>2 DEF Fold
  <2> HIDE DEF i
  <2> QED BY <1>1, <2>1, <2>2, <2>3, MarkLemma
<1>3. CASE ~ (r.base <= f.base)
  <2> DEFINE g == Shift(f, r.base - f.base)
  <2>1. r.base - f.base \in Nat /\ f.base + (r.base - f.base) = r.base
    BY <1>1, <1>3
  <2>2. \A k \in Nat : k < r.base => k \in S
    BY DEF SoundReport
  <2>3. g \in Frame /\ Sound(g, S) /\ Continues(f, g)
    BY <2>1, <2>2, ShiftLemma
  <2>4. g.base = r.base
    BY <2>1 DEF Shift
  <2>5. Fold(f, r) = Mark(g, r.id, r.rt)
    BY <1>3 DEF Fold
  <2> HIDE DEF g
  <2>6. /\ Mark(g, r.id, r.rt) \in Frame
        /\ Sound(Mark(g, r.id, r.rt), S)
        /\ Continues(g, Mark(g, r.id, r.rt))
    BY <1>1, <2>3, <2>4, MarkLemma DEF SoundReport
  <2> QED BY <2>3, <2>5, <2>6, ContinuesTransitive
<1> QED BY <1>2, <1>3

-----------------------------------------------------------------------------
(***************************************************************************)
(* Reports on their way.                                                   *)
(***************************************************************************)

LEMMA TailLemma ==
  ASSUME NEW S, NEW q, SoundInbox(q, S), NEW n \in Node, q[n] # << >>
  PROVE  /\ SoundInbox([q EXCEPT ![n] = Tail(@)], S)
         /\ Head(q[n]) \in Report
         /\ SoundReport(Head(q[n]), S)
<1>1. q \in [Node -> Seq(Report)]
  BY DEF SoundInbox
<1>2. /\ Head(q[n]) \in Report
      /\ SoundReport(Head(q[n]), S)
      /\ Tail(q[n]) \in Seq(Report)
      /\ \A k \in 1 .. Len(Tail(q[n])) : SoundReport(Tail(q[n])[k], S)
  <2>1. /\ q[n] \in Seq(Report) /\ Len(q[n]) > 0
        /\ \A k \in 1 .. Len(q[n]) : SoundReport(q[n][k], S)
    BY <1>1 DEF SoundInbox
  <2>2. Head(q[n]) = q[n][1] /\ 1 \in 1 .. Len(q[n])
    BY <2>1
  <2>3. \A k \in 1 .. Len(Tail(q[n])) :
          k + 1 \in 1 .. Len(q[n]) /\ Tail(q[n])[k] = q[n][k + 1]
    BY <2>1
  <2> QED BY <2>1, <2>2, <2>3
<1> QED BY <1>1, <1>2 DEF SoundInbox

LEMMA SendLemma ==
  ASSUME NEW S, NEW q, SoundInbox(q, S), NEW R,
         NEW r \in Report, SoundReport(r, S), SendFrom(q, R, r)
  PROVE  SoundInbox(inbox', S)
<1>1. q \in [Node -> Seq(Report)]
  BY DEF SoundInbox
<1>2. PICK got \in SUBSET {m \in R : Len(q[m]) < QueueCap} :
        inbox' = [m \in Node |-> IF m \in got THEN Append(q[m], r) ELSE q[m]]
  BY DEF SendFrom
<1>3. ASSUME NEW m \in Node
      PROVE  /\ Append(q[m], r) \in Seq(Report)
             /\ \A k \in 1 .. Len(Append(q[m], r)) : SoundReport(Append(q[m], r)[k], S)
  <2>1. q[m] \in Seq(Report) /\ \A k \in 1 .. Len(q[m]) : SoundReport(q[m][k], S)
    BY <1>1 DEF SoundInbox
  <2>2. \A k \in 1 .. Len(Append(q[m], r)) :
          \/ k \in 1 .. Len(q[m]) /\ Append(q[m], r)[k] = q[m][k]
          \/ Append(q[m], r)[k] = r
    BY <2>1
  <2> QED BY <2>1, <2>2
<1> QED BY <1>1, <1>2, <1>3 DEF SoundInbox

LEMMA PassOnLemma ==
  ASSUME NEW S, NEW q, SoundInbox(q, S), NEW n \in Node,
         NEW r \in Report, SoundReport(r, S),
         SendDown(q, n, r) \/ SendUp(q, n, r)
  PROVE  SoundInbox(inbox', S)
<1>1. /\ [r EXCEPT !.up = FALSE] \in Report /\ [r EXCEPT !.up = TRUE] \in Report
      /\ SoundReport([r EXCEPT !.up = FALSE], S) /\ SoundReport([r EXCEPT !.up = TRUE], S)
  BY DEF Report, SoundReport
<1> QED BY <1>1, SendLemma DEF SendDown, SendUp

LEMMA BroadcastLemma ==
  ASSUME NEW S, SoundInbox(inbox, S), NEW n \in Node, NEW f \in Frame, Sound(f, S),
         NEW rt \in {TAKEN, DONE}, rt = DONE /\ f.id >= 0 => f.base + f.id \in S,
         Broadcast(n, f, rt)
  PROVE  SoundInbox(inbox', S)
<1> DEFINE r == [rt |-> rt, id |-> f.id, base |-> f.base, up |-> FALSE]
<1>1. r \in Report
  BY DEF Report, Frame
<1>2. SoundReport(r, S)
  BY DEF SoundReport, Sound
<1>3. SendDown(inbox, n, r) \/ SendUp(inbox, n, r)
  BY DEF Broadcast
<1> HIDE DEF r
<1> QED BY <1>1, <1>2, <1>3, PassOnLemma

\* The report of report_my_progress names a block that was started: either the
\* base has moved, so the job is not the initial one, or it has just finished.
LEMMA ReportProgressLemma ==
  ASSUME NEW S, SoundInbox(inbox, S), NEW n \in Node, NEW f \in Frame, Sound(f, S),
         NEW fin, fin => f.id >= 0 /\ f.base + f.id \in S,
         ReportProgress(n, f, fin)
  PROVE  SoundInbox(inbox', S)
<1>1. CASE ~ (f.block[0] = DONE \/ fin)
  BY <1>1 DEF ReportProgress
<1>2. CASE f.block[0] = DONE \/ fin
  <2> DEFINE g == Advance(f)
  <2>1. /\ g \in Frame /\ Sound(g, S) /\ Continues(f, g)
        /\ f.block[0] = DONE => g.base > f.base
    BY AdvanceLemma
  <2>2. Broadcast(n, g, DONE)
    BY <1>2 DEF ReportProgress
  <2> HIDE DEF g
  <2>3. ASSUME g.id >= 0 PROVE g.base + g.id \in S
    <3>1. CASE f.block[0] = DONE
      <4>1. f.base \in Nat /\ g.base \in Nat /\ g.base # 0
        BY <2>1, <3>1 DEF Frame
      <4> QED BY <2>1, <2>3, <4>1 DEF Sound
    <3>2. CASE fin
      BY <2>1, <2>3, <3>2 DEF Continues
    <3> QED BY <1>2, <3>1, <3>2
  <2> QED BY <2>1, <2>2, <2>3, BroadcastLemma
<1> QED BY <1>1, <1>2

-----------------------------------------------------------------------------
(***************************************************************************)
(* Inv is inductive.                                                       *)
(***************************************************************************)

LEMMA InvInit == Init => Inv
<1> SUFFICES ASSUME Init PROVE Inv
  OBVIOUS
<1>1. 0 \in Index
  BY BlocksAssumption DEF Index
<1>2. FirstFrame \in Frame
  BY <1>1 DEF FirstFrame, Frame, Status
<1>3. TypeOK
  BY <1>1, <1>2 DEF Init, TypeOK
<1>4. HeadNotDone
  BY <1>1 DEF Init, HeadNotDone, FirstFrame
<1>5. \A n \in Node : Sound(frame[n], started) /\ Doing(frame[n], pc[n], work[n])
  BY DEF Init, Sound, Doing, FirstFrame
<1>6. SoundInbox(inbox, started)
  BY DEF Init, SoundInbox
<1>7. \A n \in Node : SoundReport(comm[n], started)
  BY DEF Init, SoundReport, NoReport
<1>8. \A n \in Node : pc[n] = "work" => work[n] \in started
  BY DEF Init
<1> QED BY <1>3, <1>4, <1>5, <1>6, <1>7, <1>8 DEF Inv

\* What Inv says of a node.
LEMMA InvNode ==
  ASSUME Inv, NEW n \in Node
  PROVE  /\ frame[n] \in Frame /\ frame[n].base \in Nat
         /\ frame[n].id \in Index \cup {-1} /\ frame[n].block \in [Index -> Status]
         /\ picked[n] \in Index /\ work[n] \in Nat
         /\ comm[n] \in Report \cup {NoReport}
         /\ frame[n].block[0] # DONE
         /\ Sound(frame[n], started)
         /\ Doing(frame[n], pc[n], work[n])
         /\ pc[n] = "work" => work[n] \in started
         /\ SoundReport(comm[n], started)
  BY DEF Inv, TypeOK, HeadNotDone, Frame

\* A step that changes at most node n, leaves every started block started and
\* gives n a good frame and good reports keeps Inv.
LEMMA InvStep ==
  ASSUME Inv, NEW n \in Node,
         NEW f \in Frame, NEW p \in {"pick", "start", "work", "dead"},
         NEW i \in Index, NEW w \in Nat, NEW c \in Report \cup {NoReport},
         frame' = [frame EXCEPT ![n] = f], pc' = [pc EXCEPT ![n] = p],
         picked' = [picked EXCEPT ![n] = i], work' = [work EXCEPT ![n] = w],
         comm' = [comm EXCEPT ![n] = c], SoundInbox(inbox', started'),
         restarts' \in Nat, started \subseteq started', started' \in SUBSET Nat,
         verified' \in SUBSET Nat,
         Sound(f, started'), f.block[0] # DONE, Doing(f, p, w),
         p = "work" => w \in started', SoundReport(c, started')
  PROVE  Inv'
<1>1. /\ frame \in [Node -> Frame] /\ picked \in [Node -> Index]
      /\ work \in [Node -> Nat] /\ comm \in [Node -> Report \cup {NoReport}]
      /\ pc \in [Node -> {"pick", "start", "work", "dead"}]
  BY DEF Inv, TypeOK
<1>2. TypeOK'
  BY <1>1 DEF TypeOK, SoundInbox
<1>3. \A m \in Node : m # n => /\ frame'[m] = frame[m] /\ pc'[m] = pc[m]
                               /\ work'[m] = work[m] /\ comm'[m] = comm[m]
  BY <1>1
<1>4. frame'[n] = f /\ pc'[n] = p /\ work'[n] = w /\ comm'[n] = c
  BY <1>1
<1>5. HeadNotDone'
  BY <1>3, <1>4 DEF HeadNotDone, Inv
<1>6. ASSUME NEW m \in Node PROVE Sound(frame'[m], started')
  <2>1. CASE m = n
    BY <1>4, <2>1
  <2>2. CASE m # n
    <3>1. Sound(frame[m], started)
      BY InvNode
    <3> QED BY <1>3, <2>2, <3>1 DEF Sound
  <2> QED BY <2>1, <2>2
<1>7. \A m \in Node : Doing(frame'[m], pc'[m], work'[m])
  BY <1>3, <1>4, InvNode
<1>8. \A m \in Node : pc'[m] = "work" => work'[m] \in started'
  BY <1>3, <1>4, InvNode
<1>9. ASSUME NEW m \in Node PROVE SoundReport(comm'[m], started')
  <2>1. CASE m = n
    BY <1>4, <2>1
  <2>2. CASE m # n
    BY <1>3, <2>2, InvNode DEF SoundReport
  <2> QED BY <2>1, <2>2
<1> QED BY <1>2, <1>5, <1>6, <1>7, <1>8, <1>9 DEF Inv

\* In a larger set of started blocks sound reports stay sound.
LEMMA SoundInboxGrows ==
  ASSUME NEW S, NEW U, S \subseteq U, NEW q, SoundInbox(q, S)
  PROVE  SoundInbox(q, U)
  BY DEF SoundInbox, SoundReport

LEMMA InvPickBlock == ASSUME Inv, NEW n \in Node, PickBlock(n) PROVE Inv'
<1>1. PICK i \in Index : picked' = [picked EXCEPT ![n] = i]
  <2>1. 0 \in Index
    BY BlocksAssumption DEF Index
  <2> QED BY <2>1 DEF PickBlock
<1>2. /\ pc' = [pc EXCEPT ![n] = "start"]
      /\ frame' = [frame EXCEPT ![n] = frame[n]]
      /\ work' = [work EXCEPT ![n] = work[n]]
      /\ comm' = [comm EXCEPT ![n] = comm[n]]
      /\ SoundInbox(inbox', started')
      /\ restarts' \in Nat /\ started' = started /\ started' \in SUBSET Nat
      /\ verified' \in SUBSET Nat
  BY DEF PickBlock, Inv, TypeOK
<1>3. Doing(frame[n], "start", work[n])
  BY DEF Doing
<1> QED BY <1>1, <1>2, <1>3, InvNode, InvStep

LEMMA InvSkipDone == ASSUME Inv, NEW n \in Node, SkipDone(n) PROVE Inv'
<1> DEFINE f == [frame[n] EXCEPT !.id = picked[n]]
<1>1. /\ pc' = [pc EXCEPT ![n] = "pick"]
      /\ frame' = [frame EXCEPT ![n] = f]
      /\ picked' = [picked EXCEPT ![n] = 0]
      /\ work' = [work EXCEPT ![n] = work[n]]
      /\ comm' = [comm EXCEPT ![n] = comm[n]]
      /\ SoundInbox(inbox', started')
      /\ restarts' \in Nat /\ started' = started /\ started' \in SUBSET Nat
      /\ verified' \in SUBSET Nat
  BY DEF SkipDone, Inv, TypeOK
<1>2. f \in Frame /\ f.base = frame[n].base /\ f.block = frame[n].block /\ f.id = picked[n]
  BY InvNode DEF Frame
<1>3. Doing(f, "pick", work[n])
  BY DEF Doing
<1>4. frame[n].block[picked[n]] = DONE
  BY DEF SkipDone
<1> HIDE DEF f
<1>5. Sound(f, started)
  BY <1>2, <1>4, InvNode DEF Sound
<1>6. 0 \in Index
  BY BlocksAssumption DEF Index
<1> QED BY <1>1, <1>2, <1>3, <1>5, <1>6, InvNode, InvStep

\* The frame of a node that starts its picked block.
LEMMA StartFrame ==
  ASSUME Inv, NEW n \in Node, frame[n].block[picked[n]] # DONE,
         NEW f, f = [frame[n] EXCEPT !.id = picked[n], !.block[picked[n]] = TAKEN]
  PROVE  /\ f \in Frame /\ f.base = frame[n].base /\ f.id = picked[n]
         /\ f.block = [frame[n].block EXCEPT ![picked[n]] = TAKEN]
         /\ f.base + f.id \in Nat
         /\ Sound(f, started \cup {f.base + f.id})
         /\ Doing(f, "work", f.base + f.id)
         /\ f.block[0] # DONE
<1>1. /\ frame[n] \in Frame /\ frame[n].base \in Nat /\ picked[n] \in Index
      /\ frame[n].block \in [Index -> Status] /\ frame[n].block[0] # DONE
      /\ Sound(frame[n], started)
  BY InvNode
<1>2. /\ f.base = frame[n].base /\ f.id = picked[n]
      /\ f.block = [frame[n].block EXCEPT ![picked[n]] = TAKEN]
  BY <1>1 DEF Frame
<1>3. f \in Frame
  <2>1. f.block \in [Index -> Status]
    BY <1>1, <1>2 DEF Status
  <2> QED BY <1>1, <1>2, <2>1 DEF Frame
<1>4. f.base + f.id \in Nat /\ f.id >= 0
  BY <1>1, <1>2 DEF Index
<1>5. \A i \in Index : f.block[i] = DONE => frame[n].block[i] = DONE
  BY <1>1, <1>2
<1>6. Sound(f, started \cup {f.base + f.id})
  BY <1>1, <1>2, <1>5 DEF Sound
<1>7. Doing(f, "work", f.base + f.id)
  <2>1. f.block[f.id] = TAKEN
    BY <1>1, <1>2
  <2>2. f.id \in Int
    BY <1>1, <1>2 DEF Index
  <2> QED BY <1>4, <2>1, <2>2 DEF Doing
<1>8. f.block[0] # DONE
  BY <1>1, <1>5, BlocksAssumption DEF Index
<1> QED BY <1>2, <1>3, <1>4, <1>6, <1>7, <1>8

LEMMA InvStartBlock == ASSUME Inv, NEW n \in Node, StartBlock(n) PROVE Inv'
<1> DEFINE f == [frame[n] EXCEPT !.id = picked[n], !.block[picked[n]] = TAKEN]
           w == f.base + f.id
<1>1. /\ pc' = [pc EXCEPT ![n] = "work"]
      /\ frame' = [frame EXCEPT ![n] = f]
      /\ picked' = [picked EXCEPT ![n] = 0]
      /\ work' = [work EXCEPT ![n] = w]
      /\ comm' = [comm EXCEPT ![n] = comm[n]]
      /\ restarts' \in Nat /\ started' = started \cup {w}
      /\ verified' \in SUBSET Nat
      /\ Broadcast(n, f, TAKEN)
      /\ SoundInbox(inbox, started) /\ started \in SUBSET Nat
  BY DEF StartBlock, Inv, TypeOK
<1>2. frame[n].block[picked[n]] # DONE
  BY DEF StartBlock
<1>3. /\ f \in Frame /\ w \in Nat /\ Sound(f, started \cup {w}) /\ Doing(f, "work", w)
      /\ f.block[0] # DONE
  BY <1>2, StartFrame
<1> HIDE DEF f, w
<1>4. SoundInbox(inbox', started')
  BY <1>1, <1>3, SoundInboxGrows, BroadcastLemma
<1>5. SoundReport(comm[n], started')
  BY <1>1, InvNode DEF SoundReport
<1>6. 0 \in Index
  BY BlocksAssumption DEF Index
<1>7. started' \in SUBSET Nat
  BY <1>1, <1>3
<1> QED BY <1>1, <1>3, <1>4, <1>5, <1>6, <1>7, InvNode, InvStep

\* The frame in which compute_block has marked its block done.
LEMMA FinishFrame ==
  ASSUME Inv, NEW n \in Node, pc[n] = "work", frame[n].id >= 0,
         NEW f, f = [frame[n] EXCEPT !.block[frame[n].id] = DONE]
  PROVE  /\ f \in Frame /\ f.base = frame[n].base /\ f.id = frame[n].id
         /\ f.block = [frame[n].block EXCEPT ![frame[n].id] = DONE]
         /\ f.base + f.id \in started
         /\ Sound(f, started)
<1>1. /\ frame[n] \in Frame /\ frame[n].base \in Nat /\ frame[n].id \in Index
      /\ frame[n].block \in [Index -> Status]
      /\ Sound(frame[n], started)
      /\ frame[n].base + frame[n].id = work[n] /\ work[n] \in started
  BY InvNode DEF Doing
<1>2. /\ f.base = frame[n].base /\ f.id = frame[n].id
      /\ f.block = [frame[n].block EXCEPT ![frame[n].id] = DONE]
  BY <1>1 DEF Frame
<1>3. f \in Frame
  <2>1. f.block \in [Index -> Status]
    BY <1>1, <1>2 DEF Status
  <2> QED BY <1>1, <1>2, <2>1 DEF Frame
<1>4. \A i \in Index : f.block[i] = DONE => frame[n].block[i] = DONE \/ i = f.id
  BY <1>1, <1>2
<1>5. Sound(f, started)
  BY <1>1, <1>2, <1>4 DEF Sound
<1> QED BY <1>1, <1>2, <1>3, <1>5

LEMMA InvFinishBlock == ASSUME Inv, NEW n \in Node, FinishBlock(n) PROVE Inv'
<1>1. /\ pc' = [pc EXCEPT ![n] = "pick"]
      /\ picked' = [picked EXCEPT ![n] = picked[n]]
      /\ work' = [work EXCEPT ![n] = 0]
      /\ comm' = [comm EXCEPT ![n] = comm[n]]
      /\ restarts' \in Nat /\ started' = started /\ started \in SUBSET Nat
      /\ pc[n] = "work" /\ SoundInbox(inbox, started)
  BY DEF FinishBlock, Inv, TypeOK
<1>2. verified' \in SUBSET Nat
  BY InvNode DEF FinishBlock, Inv, TypeOK
<1>3. CASE frame[n].id >= 0
  <2> DEFINE f == [frame[n] EXCEPT !.block[frame[n].id] = DONE]
             h == Advance(f)
             g == [h EXCEPT !.id = -1]
  <2>1. ReportProgress(n, f, TRUE) /\ frame' = [frame EXCEPT ![n] = g]
    BY <1>3 DEF FinishBlock
  <2>2. f \in Frame /\ f.id >= 0 /\ f.base + f.id \in started /\ Sound(f, started)
    BY <1>1, <1>3, FinishFrame
  <2> HIDE DEF f
  <2>3. h \in Frame /\ Sound(h, started) /\ h.block[0] # DONE
    BY <2>2, AdvanceLemma
  <2> HIDE DEF h
  <2>4. g \in Frame /\ g.base = h.base /\ g.block = h.block /\ g.id = -1
    BY <2>3 DEF Frame
  <2>5. Sound(g, started) /\ Doing(g, "pick", 0)
    BY <2>3, <2>4 DEF Sound, Doing
  <2>6. SoundInbox(inbox', started')
    BY <1>1, <2>1, <2>2, ReportProgressLemma
  <2> HIDE DEF g
  <2>7. /\ picked[n] \in Index /\ comm[n] \in Report \cup {NoReport}
        /\ SoundReport(comm[n], started')
    BY <1>1, InvNode
  <2>8. g.block[0] # DONE /\ Sound(g, started')
    BY <1>1, <2>3, <2>4, <2>5
  <2> QED BY <1>1, <1>2, <2>1, <2>4, <2>5, <2>6, <2>7, <2>8, InvStep
<1>4. CASE ~ (frame[n].id >= 0)
  <2>1. frame' = [frame EXCEPT ![n] = frame[n]] /\ inbox' = inbox
    BY <1>4 DEF FinishBlock, Inv, TypeOK
  <2>2. Doing(frame[n], "pick", 0)
    BY DEF Doing
  <2> QED BY <1>1, <1>2, <2>1, <2>2, InvNode, InvStep
<1> QED BY <1>3, <1>4

LEMMA InvOverflow == ASSUME Inv, NEW n \in Node, Overflow(n) PROVE Inv'
<1>1. /\ pc' = [pc EXCEPT ![n] = "dead"]
      /\ frame' = [frame EXCEPT ![n] = frame[n]]
      /\ picked' = [picked EXCEPT ![n] = picked[n]]
      /\ work' = [work EXCEPT ![n] = 0]
      /\ comm' = [comm EXCEPT ![n] = comm[n]]
      /\ SoundInbox(inbox', started')
      /\ restarts' \in Nat /\ started' = started /\ started' \in SUBSET Nat
      /\ verified' \in SUBSET Nat
  BY DEF Overflow, Inv, TypeOK
<1>2. Doing(frame[n], "dead", 0)
  BY DEF Doing
<1> QED BY <1>1, <1>2, InvNode, InvStep

LEMMA InvReceiveReport == ASSUME Inv, NEW n \in Node, ReceiveReport(n) PROVE Inv'
<1> DEFINE r == Head(inbox[n])
           q == [inbox EXCEPT ![n] = Tail(@)]
           c == [r EXCEPT !.up = FALSE]
<1>1. /\ pc' = [pc EXCEPT ![n] = pc[n]]
      /\ frame' = [frame EXCEPT ![n] = frame[n]]
      /\ picked' = [picked EXCEPT ![n] = picked[n]]
      /\ work' = [work EXCEPT ![n] = work[n]]
      /\ comm' = [comm EXCEPT ![n] = c]
      /\ restarts' \in Nat /\ started' = started /\ started' \in SUBSET Nat
      /\ verified' \in SUBSET Nat
      /\ pc[n] \in {"pick", "start", "work", "dead"}
      /\ SendDown(q, n, r) /\ inbox[n] # << >> /\ SoundInbox(inbox, started)
  BY DEF ReceiveReport, Inv, TypeOK
<1>2. r \in Report /\ SoundReport(r, started) /\ SoundInbox(q, started)
  BY <1>1, TailLemma
<1> HIDE DEF r, q
<1>3. c \in Report /\ SoundReport(c, started)
  BY <1>2 DEF Report, SoundReport
<1>4. SoundInbox(inbox', started')
  BY <1>1, <1>2, PassOnLemma
<1>5. /\ frame[n] \in Frame /\ picked[n] \in Index /\ work[n] \in Nat
      /\ frame[n].block[0] # DONE /\ Sound(frame[n], started')
      /\ Doing(frame[n], pc[n], work[n])
      /\ pc[n] = "work" => work[n] \in started'
  BY <1>1, InvNode
<1>6. SoundReport(c, started')
  BY <1>1, <1>3
<1> HIDE DEF c
<1> QED BY <1>1, <1>3, <1>4, <1>5, <1>6, InvStep

LEMMA InvRelayUp == ASSUME Inv, NEW n \in Node, RelayUp(n) PROVE Inv'
<1> DEFINE r == Head(inbox[n])
           q == [inbox EXCEPT ![n] = Tail(@)]
<1>1. /\ pc' = [pc EXCEPT ![n] = pc[n]]
      /\ frame' = [frame EXCEPT ![n] = frame[n]]
      /\ picked' = [picked EXCEPT ![n] = picked[n]]
      /\ work' = [work EXCEPT ![n] = work[n]]
      /\ comm' = [comm EXCEPT ![n] = comm[n]]
      /\ restarts' \in Nat /\ started' = started /\ started' \in SUBSET Nat
      /\ verified' \in SUBSET Nat
      /\ pc[n] \in {"pick", "start", "work", "dead"}
      /\ SendUp(q, n, r) /\ inbox[n] # << >> /\ SoundInbox(inbox, started)
  BY DEF RelayUp, Inv, TypeOK
<1>2. r \in Report /\ SoundReport(r, started) /\ SoundInbox(q, started)
  BY <1>1, TailLemma
<1> HIDE DEF r, q
<1>3. SoundInbox(inbox', started')
  BY <1>1, <1>2, PassOnLemma
<1>4. /\ frame[n] \in Frame /\ picked[n] \in Index /\ work[n] \in Nat
      /\ frame[n].block[0] # DONE /\ Sound(frame[n], started')
      /\ Doing(frame[n], pc[n], work[n])
      /\ pc[n] = "work" => work[n] \in started'
      /\ comm[n] \in Report \cup {NoReport} /\ SoundReport(comm[n], started')
  BY <1>1, InvNode
<1>5. /\ pc' = [pc EXCEPT ![n] = pc[n]]
      /\ frame' = [frame EXCEPT ![n] = frame[n]]
      /\ picked' = [picked EXCEPT ![n] = picked[n]]
      /\ work' = [work EXCEPT ![n] = work[n]]
      /\ comm' = [comm EXCEPT ![n] = comm[n]]
      /\ restarts' \in Nat /\ started \subseteq started' /\ started' \in SUBSET Nat
      /\ verified' \in SUBSET Nat
      /\ pc[n] \in {"pick", "start", "work", "dead"}
  BY <1>1
<1> DEFINE f == frame[n]
           p == pc[n]
           i == picked[n]
           w == work[n]
           c == comm[n]
<1>6. /\ pc' = [pc EXCEPT ![n] = p] /\ frame' = [frame EXCEPT ![n] = f]
      /\ picked' = [picked EXCEPT ![n] = i] /\ work' = [work EXCEPT ![n] = w]
      /\ comm' = [comm EXCEPT ![n] = c]
  BY <1>5
<1>7. /\ f \in Frame /\ i \in Index /\ w \in Nat /\ f.block[0] # DONE /\ Sound(f, started')
      /\ Doing(f, p, w) /\ (p = "work" => w \in started')
      /\ c \in Report \cup {NoReport} /\ SoundReport(c, started')
      /\ p \in {"pick", "start", "work", "dead"}
  BY <1>4, <1>5
<1> HIDE DEF f, p, i, w, c
<1>8. /\ restarts' \in Nat /\ started \subseteq started' /\ started' \in SUBSET Nat
      /\ verified' \in SUBSET Nat
  BY <1>5
<1> QED BY <1>3, <1>6, <1>7, <1>8, InvStep

LEMMA InvProcessReport == ASSUME Inv, NEW n \in Node, ProcessReport(n) PROVE Inv'
<1>1. /\ pc' = [pc EXCEPT ![n] = pc[n]]
      /\ picked' = [picked EXCEPT ![n] = picked[n]]
      /\ work' = [work EXCEPT ![n] = work[n]]
      /\ comm' = [comm EXCEPT ![n] = NoReport]
      /\ restarts' \in Nat /\ started' = started /\ started' \in SUBSET Nat
      /\ verified' \in SUBSET Nat
      /\ pc[n] \in {"pick", "start", "work", "dead"}
      /\ comm[n] # NoReport /\ SoundInbox(inbox, started)
  <2>1. /\ comm[n] # NoReport /\ comm' = [comm EXCEPT ![n] = NoReport]
        /\ UNCHANGED <<pc, picked, work, restarts, started, verified>>
    BY DEF ProcessReport
  <2>2. /\ pc \in [Node -> {"pick", "start", "work", "dead"}]
        /\ picked \in [Node -> Index] /\ work \in [Node -> Nat]
        /\ restarts \in Nat /\ started \in SUBSET Nat /\ verified \in SUBSET Nat
        /\ SoundInbox(inbox, started)
    BY DEF Inv, TypeOK
  <2> QED BY <2>1, <2>2
<1>2. SoundReport(NoReport, started)
  BY DEF SoundReport, NoReport
<1>3. CASE OldNews(frame[n], comm[n])
  <2>1. frame' = [frame EXCEPT ![n] = frame[n]] /\ inbox' = inbox
    BY <1>3 DEF ProcessReport, Inv, TypeOK
  <2>2. /\ frame[n] \in Frame /\ picked[n] \in Index /\ work[n] \in Nat
        /\ frame[n].block[0] # DONE /\ Sound(frame[n], started')
        /\ Doing(frame[n], pc[n], work[n])
        /\ pc[n] = "work" => work[n] \in started'
    BY <1>1, InvNode
  <2>3. NoReport \in Report \cup {NoReport} /\ SoundInbox(inbox', started')
        /\ SoundReport(NoReport, started') /\ started \subseteq started'
    BY <1>1, <1>2, <2>1
  <2> QED BY <1>1, <2>1, <2>2, <2>3, InvStep
<1>4. CASE ~ OldNews(frame[n], comm[n])
  <2> DEFINE f == Fold(frame[n], comm[n])
             g == Advance(f)
  <2>1. ReportProgress(n, f, FALSE) /\ frame' = [frame EXCEPT ![n] = g]
    BY <1>4 DEF ProcessReport
  <2>2. f \in Frame /\ Sound(f, started) /\ Continues(frame[n], f)
    BY <1>1, InvNode, FoldLemma
  <2> HIDE DEF f
  <2>3. g \in Frame /\ Sound(g, started) /\ Continues(f, g) /\ g.block[0] # DONE
    BY <2>2, AdvanceLemma
  <2>4. SoundInbox(inbox', started')
    BY <1>1, <2>1, <2>2, ReportProgressLemma
  <2> HIDE DEF g
  <2>5. Doing(g, pc[n], work[n])
    BY <2>2, <2>3, InvNode, ContinuesTransitive, ContinuesDoing
  <2>6. /\ picked[n] \in Index /\ work[n] \in Nat
        /\ pc[n] = "work" => work[n] \in started'
    BY <1>1, InvNode
  <2>7. /\ NoReport \in Report \cup {NoReport} /\ SoundReport(NoReport, started')
        /\ Sound(g, started') /\ started \subseteq started'
    BY <1>1, <1>2, <2>3
  <2> QED BY <1>1, <2>1, <2>3, <2>4, <2>5, <2>6, <2>7, InvStep
<1> QED BY <1>3, <1>4

LEMMA InvRestart == ASSUME Inv, NEW n \in Node, Restart(n) PROVE Inv'
<1>1. /\ pc' = [pc EXCEPT ![n] = "pick"]
      /\ frame' = [frame EXCEPT ![n] = FirstFrame]
      /\ picked' = [picked EXCEPT ![n] = 0]
      /\ work' = [work EXCEPT ![n] = 0]
      /\ comm' = [comm EXCEPT ![n] = NoReport]
      /\ restarts' \in Nat /\ started' = started /\ started' \in SUBSET Nat
      /\ verified' \in SUBSET Nat
  BY DEF Restart, Inv, TypeOK
<1>2. SoundInbox(inbox', started')
  <2>1. inbox' = [inbox EXCEPT ![n] = << >>] /\ SoundInbox(inbox, started)
    BY DEF Restart, Inv
  <2>2. << >> \in Seq(Report) /\ Len(<< >>) = 0
    OBVIOUS
  <2> QED BY <1>1, <2>1, <2>2 DEF SoundInbox
<1>3. 0 \in Index
  BY BlocksAssumption DEF Index
<1>4. /\ FirstFrame \in Frame /\ Sound(FirstFrame, started)
      /\ Doing(FirstFrame, "pick", 0) /\ FirstFrame.block[0] # DONE
  BY <1>3 DEF FirstFrame, Frame, Status, Sound, Doing
<1>5. SoundReport(NoReport, started)
  BY DEF SoundReport, NoReport
<1> QED BY <1>1, <1>2, <1>3, <1>4, <1>5, InvStep

LEMMA InvNext == Inv /\ [Next]_vars => Inv'
<1> SUFFICES ASSUME Inv, [Next]_vars PROVE Inv'
  OBVIOUS
<1>1. CASE UNCHANGED vars
  BY <1>1 DEF vars, Inv, TypeOK, HeadNotDone
<1>2. ASSUME NEW n \in Node, Compute(n) PROVE Inv'
  BY <1>2, InvPickBlock, InvSkipDone, InvStartBlock, InvFinishBlock, InvOverflow DEF Compute
<1>3. ASSUME NEW n \in Node, Comm(n) PROVE Inv'
  BY <1>3, InvReceiveReport, InvRelayUp, InvProcessReport DEF Comm
<1>4. ASSUME NEW n \in Node, Restart(n) PROVE Inv'
  BY <1>4, InvRestart
<1> QED BY <1>1, <1>2, <1>3, <1>4 DEF Next

\* Inv holds in every reachable state.
THEOREM Invariance == Spec => []Inv
  BY InvInit, InvNext, PTL DEF Spec

-----------------------------------------------------------------------------
(***************************************************************************)
(* The properties.                                                         *)
(***************************************************************************)

\* The C structures keep their types; no index into block[] leaves the array
\* and no block_id of a frame or a report is out of range.
THEOREM TypeCorrect == Spec => []TypeOK
<1>1. Inv => TypeOK
  BY DEF Inv
<1> QED BY <1>1, Invariance, PTL

\* No frame is left with a completed block at its head (report_my_progress).
THEOREM HeadNeverDone == Spec => []HeadNotDone
<1>1. Inv => HeadNotDone
  BY DEF Inv
<1> QED BY <1>1, Invariance, PTL

\* compute_block credits its effort to the block it computed.
THEOREM CreditIsCorrect == Spec => []CreditCorrect
<1>1. Inv => CreditCorrect
  BY DEF Inv, Doing, CreditCorrect
<1> QED BY <1>1, Invariance, PTL

\* compute_block drops its effort only when its block counts as done on its own
\* node, be it by that node's own claim.
THEOREM DroppedIsDoneHere == Spec => []DroppedCountsAsDone
<1>1. Inv => DroppedCountsAsDone
  BY DEF Inv, Doing, DroppedCountsAsDone
<1> QED BY <1>1, Invariance, PTL

\* No node and no report ever counts a block as done that nobody started.
THEOREM NoBlockSkipped == Spec => []DoneWereStarted
<1>1. ASSUME Inv PROVE DoneWereStarted
  <2>1. ASSUME NEW n \in Node PROVE DoneAt(n) \subseteq started
    <3> SUFFICES ASSUME NEW b \in DoneAt(n) PROVE b \in started
      OBVIOUS
    <3>1. frame[n].base \in Nat /\ Sound(frame[n], started)
      BY <1>1, InvNode
    <3>2. /\ b \in Nat /\ b < frame[n].base + BLOCKS
          /\ b < frame[n].base \/ frame[n].block[b - frame[n].base] = DONE
      BY <3>1, BlocksAssumption DEF DoneAt
    <3>3. CASE b < frame[n].base
      BY <3>1, <3>2, <3>3 DEF Sound
    <3>4. CASE ~ (b < frame[n].base)
      <4>1. b - frame[n].base \in Index /\ frame[n].base + (b - frame[n].base) = b
        BY <3>1, <3>2, <3>4, BlocksAssumption DEF Index
      <4>2. frame[n].base + (b - frame[n].base) \in started
        BY <3>1, <3>2, <3>4, <4>1 DEF Sound
      <4> QED BY <4>1, <4>2
    <3> QED BY <3>3, <3>4
  <2>2. ASSUME NEW r \in Report \cup {NoReport}, SoundReport(r, started)
        PROVE  Claims(r) \subseteq started
    <3> SUFFICES ASSUME NEW b \in Claims(r) PROVE b \in started
      OBVIOUS
    <3>1. r.base \in Nat /\ r.id \in Index \cup {-1}
      BY <2>2 DEF Report, NoReport
    <3>2. b \in Nat /\ (b < r.base \/ (r.rt = DONE /\ b = r.base + r.id))
      BY <3>1, BlocksAssumption DEF Claims
    <3>3. CASE b < r.base
      BY <2>2, <3>2, <3>3 DEF SoundReport
    <3>4. CASE ~ (b < r.base)
      BY <2>2, <3>1, <3>2, <3>4 DEF SoundReport, Index
    <3> QED BY <3>3, <3>4
  <2>3. ASSUME NEW r \in InTransit
        PROVE  r \in Report \cup {NoReport} /\ SoundReport(r, started)
    <3> DEFINE A == UNION {{inbox[n][k] : k \in 1 .. Len(inbox[n])} : n \in Node}
               B == {comm[n] : n \in Node}
    <3>1. CASE r \in B
      BY <1>1, <3>1, InvNode
    <3>2. CASE r \in A
      <4>1. PICK n \in Node : r \in {inbox[n][k] : k \in 1 .. Len(inbox[n])}
        BY <3>2
      <4>2. PICK k \in 1 .. Len(inbox[n]) : r = inbox[n][k]
        BY <4>1
      <4>3. inbox[n] \in Seq(Report) /\ SoundReport(inbox[n][k], started)
        BY <1>1, <4>2 DEF Inv, SoundInbox
      <4> QED BY <4>2, <4>3
    <3>3. InTransit = A \cup B
      BY DEF InTransit
    <3> HIDE DEF A, B
    <3> QED BY <2>3, <3>1, <3>2, <3>3
  <2> QED BY <2>1, <2>2, <2>3 DEF DoneWereStarted
<1> QED BY <1>1, Invariance, PTL

\* Until a restart no base moves back and no status regresses.
THEOREM NeverRegresses == Spec => NoRegress
<1>1. ASSUME Inv, [Next]_vars PROVE FrameGrows
  <2> SUFFICES ASSUME restarts' = restarts, NEW m \in Node
               PROVE  /\ frame[m].base <= frame'[m].base
                      /\ \A b \in frame[m].base .. frame[m].base + BLOCKS - 1 :
                           StatusOf(frame[m], b) <= StatusOf(frame'[m], b)
    BY DEF FrameGrows
  <2> DEFINE Grows(f, g) == /\ f.base <= g.base
                            /\ \A k \in Nat : k >= f.base => StatusOf(f, k) <= StatusOf(g, k)
  <2>0. /\ frame \in [Node -> Frame] /\ frame[m] \in Frame /\ frame[m].base \in Nat
        /\ restarts \in Nat
    BY <1>1, InvNode DEF Inv, TypeOK
  <2>1. \A f \in Frame : Grows(f, f)
    <3>1. \A f \in Frame : f.base \in Nat
      BY DEF Frame
    <3>2. \A f \in Frame : \A k \in Nat : StatusOf(f, k) \in Nat
      BY StatusLemma DEF Status
    <3>3. \A i \in Nat : i <= i
      OBVIOUS
    <3> QED BY <3>1, <3>2, <3>3
  <2>2. SUFFICES Grows(frame[m], frame'[m])
    BY <2>0, <2>2, BlocksAssumption
  <2>3. ASSUME NEW f, NEW n \in Node, frame' = [frame EXCEPT ![n] = f],
               Grows(frame[n], f)
        PROVE  Grows(frame[m], frame'[m])
    <3>1. CASE m = n
      BY <2>0, <2>3, <3>1
    <3>2. CASE m # n
      BY <2>0, <2>1, <2>3, <3>2
    <3> QED BY <3>1, <3>2
  <2>4. CASE frame' = frame
    BY <2>0, <2>1, <2>4
  <2>5. ASSUME NEW n \in Node, SkipDone(n) PROVE Grows(frame[m], frame'[m])
    <3> DEFINE f == [frame[n] EXCEPT !.id = picked[n]]
    <3>1. frame' = [frame EXCEPT ![n] = f]
      BY <2>5 DEF SkipDone
    <3>2. f.base = frame[n].base /\ f.block = frame[n].block /\ frame[n] \in Frame
      BY <1>1, InvNode DEF Frame
    <3>3. \A k \in Nat : StatusOf(f, k) = StatusOf(frame[n], k)
      BY <3>2 DEF StatusOf
    <3> HIDE DEF f
    <3>4. Grows(frame[n], f)
      BY <2>1, <3>2, <3>3
    <3> HIDE DEF Grows
    <3> QED BY <2>3, <3>1, <3>4
  <2>6. ASSUME NEW n \in Node, StartBlock(n) PROVE Grows(frame[m], frame'[m])
    <3> DEFINE f == [frame[n] EXCEPT !.id = picked[n], !.block[picked[n]] = TAKEN]
    <3>1. frame' = [frame EXCEPT ![n] = f] /\ frame[n].block[picked[n]] # DONE
      BY <2>6 DEF StartBlock
    <3>2. /\ f \in Frame /\ f.base = frame[n].base
          /\ f.block = [frame[n].block EXCEPT ![picked[n]] = TAKEN]
      BY <1>1, <3>1, StartFrame
    <3>3. /\ frame[n] \in Frame /\ frame[n].block \in [Index -> Status]
          /\ picked[n] \in Index /\ frame[n].base \in Nat
      BY <1>1, InvNode
    <3> HIDE DEF f
    <3>4. \A i \in Index : frame[n].block[i] <= f.block[i]
      BY <3>1, <3>2, <3>3 DEF Status
    <3>5. Grows(frame[n], f)
      <4>1. ASSUME NEW k \in Nat, k >= frame[n].base
            PROVE  StatusOf(frame[n], k) <= StatusOf(f, k)
        <5>1. CASE k < frame[n].base + BLOCKS
          BY <3>2, <3>3, <3>4, <4>1, <5>1, StatusLemma
        <5>2. CASE k >= frame[n].base + BLOCKS
          BY <3>2, <3>3, <4>1, <5>2, StatusLemma
        <5> QED BY <3>3, <5>1, <5>2, BlocksAssumption
      <4> QED BY <3>2, <3>3, <4>1
    <3> HIDE DEF Grows
    <3> QED BY <2>3, <3>1, <3>5
  <2>7. ASSUME NEW n \in Node, FinishBlock(n), ~ (frame' = frame)
        PROVE  Grows(frame[m], frame'[m])
    <3> DEFINE f == [frame[n] EXCEPT !.block[frame[n].id] = DONE]
               h == Advance(f)
               g == [h EXCEPT !.id = -1]
    <3>1. frame[n].id >= 0 /\ frame' = [frame EXCEPT ![n] = g] /\ pc[n] = "work"
      BY <2>7 DEF FinishBlock
    <3>2. /\ f \in Frame /\ f.base = frame[n].base /\ Sound(f, started)
          /\ f.block = [frame[n].block EXCEPT ![frame[n].id] = DONE]
      BY <1>1, <3>1, FinishFrame
    <3>3. /\ frame[n] \in Frame /\ frame[n].block \in [Index -> Status]
          /\ frame[n].id \in Index \cup {-1} /\ frame[n].base \in Nat
      BY <1>1, InvNode
    <3> HIDE DEF f
    <3>4. h \in Frame /\ Continues(f, h)
      BY <3>2, AdvanceLemma
    <3> HIDE DEF h
    <3>5. g.base = h.base /\ g.block = h.block
      BY <3>4 DEF Frame
    <3> HIDE DEF g
    <3>6. \A i \in Index : frame[n].block[i] <= f.block[i]
      BY <3>1, <3>2, <3>3 DEF Status
    <3>7. ASSUME NEW k \in Nat, k >= frame[n].base
          PROVE  StatusOf(frame[n], k) <= StatusOf(g, k)
      <4>1. StatusOf(frame[n], k) <= StatusOf(f, k)
        <5>1. CASE k < frame[n].base + BLOCKS
          BY <3>2, <3>3, <3>6, <3>7, <5>1, StatusLemma
        <5>2. CASE k >= frame[n].base + BLOCKS
          BY <3>2, <3>3, <3>7, <5>2, StatusLemma
        <5> QED BY <3>3, <5>1, <5>2, BlocksAssumption
      <4>2. StatusOf(f, k) <= StatusOf(h, k)
        BY <3>2, <3>4, <3>7 DEF Continues
      <4>3. StatusOf(g, k) = StatusOf(h, k)
        BY <3>5 DEF StatusOf
      <4>4. StatusOf(frame[n], k) \in Status /\ StatusOf(f, k) \in Status /\ StatusOf(h, k) \in Status
        BY <3>2, <3>3, <3>4, StatusLemma
      <4> QED BY <4>1, <4>2, <4>3, <4>4 DEF Status
    <3>8. Grows(frame[n], g)
      BY <3>2, <3>4, <3>5, <3>7 DEF Continues
    <3> HIDE DEF Grows
    <3> QED BY <2>3, <3>1, <3>8
  <2>8. ASSUME NEW n \in Node, ProcessReport(n), ~ (frame' = frame)
        PROVE  Grows(frame[m], frame'[m])
    <3> DEFINE f == Fold(frame[n], comm[n])
               g == Advance(f)
    <3>1. frame' = [frame EXCEPT ![n] = g] /\ comm[n] # NoReport
      BY <2>8 DEF ProcessReport
    <3>2. f \in Frame /\ Sound(f, started) /\ Continues(frame[n], f)
      BY <1>1, <3>1, InvNode, FoldLemma
    <3> HIDE DEF f
    <3>3. g \in Frame /\ Continues(f, g)
      BY <3>2, AdvanceLemma
    <3> HIDE DEF g
    <3>4. Continues(frame[n], g)
      BY <1>1, <3>2, <3>3, InvNode, ContinuesTransitive
    <3>5. Grows(frame[n], g)
      BY <3>4 DEF Continues
    <3> HIDE DEF Grows
    <3> QED BY <2>3, <3>1, <3>5
  <2>9. ASSUME NEW n \in Node, Restart(n) PROVE FALSE
    BY <2>0, <2>9 DEF Restart
  <2>10. ASSUME NEW n \in Node,
                PickBlock(n) \/ Overflow(n) \/ ReceiveReport(n) \/ RelayUp(n)
         PROVE  frame' = frame
    BY <2>10 DEF PickBlock, Overflow, ReceiveReport, RelayUp
  <2>11. CASE UNCHANGED vars
    BY <2>4, <2>11 DEF vars
  <2> HIDE DEF Grows
  <2> QED BY <1>1, <2>4, <2>5, <2>6, <2>7, <2>8, <2>9, <2>10, <2>11
          DEF Next, Compute, Comm
<1> QED BY <1>1, Invariance, PTL DEF Spec, NoRegress

-----------------------------------------------------------------------------
(***************************************************************************)
(* Collatz implements Ledger.  Moving the base over completed blocks       *)
(* changes no entry (AdvanceKeepsDone), so compute_block enters exactly    *)
(* the block of its job, which Inv ties to the block it computed; a report *)
(* adds blocks that Inv knows to be started; and Continues says that       *)
(* nothing is taken back.                                                  *)
(***************************************************************************)

\* The blocks a frame holds for done.
DoneIn(f) == {b \in 0 .. f.base + BLOCKS - 1 :
                b < f.base \/ f.block[b - f.base] = DONE}

LEMMA DoneInStatus ==
  ASSUME NEW f \in Frame, NEW b
  PROVE  b \in DoneIn(f) <=> b \in Nat /\ StatusOf(f, b) = DONE
<1>1. f.base \in Nat
  BY DEF Frame
<1>2. CASE b \in Nat
  <2>1. CASE b < f.base
    BY <1>1, <1>2, <2>1, StatusLemma, BlocksAssumption DEF DoneIn
  <2>2. CASE b >= f.base /\ b < f.base + BLOCKS
    BY <1>1, <1>2, <2>2, StatusLemma, BlocksAssumption DEF DoneIn
  <2>3. CASE b >= f.base + BLOCKS
    <3>1. StatusOf(f, b) # DONE
      BY <1>1, <1>2, <2>3, StatusLemma
    <3> QED BY <1>1, <1>2, <2>3, <3>1, BlocksAssumption DEF DoneIn
  <2> QED BY <1>1, <1>2, <2>1, <2>2, <2>3, BlocksAssumption
<1>3. CASE b \notin Nat
  BY <1>1, <1>3, BlocksAssumption DEF DoneIn
<1> QED BY <1>2, <1>3

\* Frames with the same done blocks.
LEMMA SameDone ==
  ASSUME NEW f \in Frame, NEW g \in Frame,
         \A k \in Nat : StatusOf(f, k) = DONE <=> StatusOf(g, k) = DONE
  PROVE  DoneIn(f) = DoneIn(g)
<1>1. ASSUME NEW b PROVE b \in DoneIn(f) <=> b \in DoneIn(g)
  BY DoneInStatus
<1> QED BY <1>1

\* A frame that continues another one takes no entry back.
LEMMA ContinuesKeepsDone ==
  ASSUME NEW f \in Frame, NEW g \in Frame, Continues(f, g)
  PROVE  DoneIn(f) \subseteq DoneIn(g)
<1> SUFFICES ASSUME NEW b \in DoneIn(f) PROVE b \in DoneIn(g)
  OBVIOUS
<1>1. b \in Nat /\ StatusOf(f, b) = DONE
  BY DoneInStatus
<1>2. f.base \in Nat /\ g.base \in Nat /\ f.base <= g.base
  BY DEF Frame, Continues
<1>3. CASE b < f.base
  <2>1. b < g.base
    BY <1>1, <1>2, <1>3
  <2> QED BY <1>1, <2>1, StatusLemma, DoneInStatus
<1>4. CASE b >= f.base
  <2>1. StatusOf(f, b) <= StatusOf(g, b) /\ StatusOf(g, b) \in Status
    BY <1>1, <1>4, StatusLemma DEF Continues
  <2>2. StatusOf(g, b) = DONE
    BY <1>1, <2>1 DEF Status
  <2> QED BY <1>1, <2>2, DoneInStatus
<1> QED BY <1>1, <1>2, <1>3, <1>4

\* shift_blocks over completed blocks moves the window, not the entries.
LEMMA AdvanceKeepsDone ==
  ASSUME NEW S, NEW f \in Frame, Sound(f, S)
  PROVE  DoneIn(Advance(f)) = DoneIn(f)
<1> DEFINE s == DonePrefix(f.block)
           g == Advance(f)
<1>1. f.base \in Nat /\ f.block \in [Index -> Status]
  BY DEF Frame
<1>2. s \in Nat /\ s <= BLOCKS /\ \A i \in Index : i < s => f.block[i] = DONE
  BY <1>1, DonePrefixIsPrefix, BlocksAssumption
<1>3. g \in Frame
  BY AdvanceLemma
<1>4. /\ g.base = f.base + s
      /\ g.block = [i \in Index |-> IF i + s < BLOCKS THEN f.block[i + s] ELSE FREE]
  BY DEF Advance, Shift
<1> HIDE DEF s, g
<1>5. ASSUME NEW k \in Nat
      PROVE  StatusOf(f, k) = DONE <=> StatusOf(g, k) = DONE
  <2>1. CASE k < f.base
    <3>1. k < g.base
      BY <1>1, <1>2, <1>4, <2>1
    <3> QED BY <1>3, <2>1, <3>1, StatusLemma
  <2>2. CASE k >= f.base /\ k < f.base + s
    <3>1. k < g.base
      BY <1>4, <2>2
    <3>2. k - f.base \in Index /\ k - f.base < s /\ StatusOf(f, k) = f.block[k - f.base]
      BY <1>1, <1>2, <2>2, StatusLemma, BlocksAssumption
    <3> QED BY <1>2, <1>3, <3>1, <3>2, StatusLemma
  <2>3. CASE k >= g.base /\ k < f.base + BLOCKS
    <3>1. /\ k - f.base \in Index /\ StatusOf(f, k) = f.block[k - f.base]
      BY <1>1, <1>2, <1>4, <2>3, StatusLemma, BlocksAssumption
    <3>2. /\ k - g.base \in Index /\ StatusOf(g, k) = g.block[k - g.base]
      BY <1>1, <1>2, <1>3, <1>4, <2>3, StatusLemma, BlocksAssumption
    <3>3. (k - g.base) + s = k - f.base /\ k - f.base < BLOCKS
      BY <1>1, <1>2, <1>4, <2>3, BlocksAssumption
    <3>4. g.block[k - g.base] = f.block[k - f.base]
      BY <1>4, <3>2, <3>3
    <3> QED BY <3>1, <3>2, <3>4
  <2>4. CASE k >= f.base + BLOCKS
    <3>1. StatusOf(f, k) = FREE
      BY <2>4, StatusLemma
    <3>2. CASE k >= g.base + BLOCKS
      BY <1>3, <3>1, <3>2, StatusLemma
    <3>3. CASE k < g.base + BLOCKS
      <4>1. /\ k >= g.base
        BY <1>1, <1>2, <1>4, <2>4, BlocksAssumption
      <4>2. /\ k - g.base \in Index /\ StatusOf(g, k) = g.block[k - g.base]
        BY <1>3, <3>3, <4>1, StatusLemma
      <4>3. ~ ((k - g.base) + s < BLOCKS)
        BY <1>1, <1>2, <1>4, <2>4, BlocksAssumption
      <4> QED BY <1>4, <3>1, <4>2, <4>3
    <3>4. g.base \in Nat
      BY <1>3 DEF Frame
    <3> QED BY <3>2, <3>3, <3>4, BlocksAssumption
  <2> QED BY <1>1, <1>2, <1>4, <2>1, <2>2, <2>3, <2>4, BlocksAssumption
<1>6. DoneIn(f) = DoneIn(g)
  BY <1>3, <1>5, SameDone
<1> QED BY <1>6 DEF g

\* A sound frame holds only started blocks for done.
LEMMA SoundDone ==
  ASSUME NEW S, NEW f \in Frame, Sound(f, S)
  PROVE  DoneIn(f) \subseteq S
<1> SUFFICES ASSUME NEW b \in DoneIn(f) PROVE b \in S
  OBVIOUS
<1>1. f.base \in Nat /\ b \in Nat /\ StatusOf(f, b) = DONE
  BY DoneInStatus DEF Frame
<1>2. CASE b < f.base
  BY <1>1, <1>2 DEF Sound
<1>3. CASE ~ (b < f.base)
  <2>1. b < f.base + BLOCKS
    BY <1>1, StatusLemma, BlocksAssumption
  <2>2. b - f.base \in Index /\ f.block[b - f.base] = DONE
    BY <1>1, <1>3, <2>1, StatusLemma
  <2>3. f.base + (b - f.base) = b
    BY <1>1
  <2>4. f.base + (b - f.base) \in S
    BY <2>2 DEF Sound
  <2> QED BY <2>3, <2>4
<1> QED BY <1>2, <1>3

-----------------------------------------------------------------------------
(***************************************************************************)
(* The steps.                                                              *)
(***************************************************************************)

\* What a node computes, from its pc and work.
JobOf(p, w) == IF p = "work" THEN w ELSE NoBlock

\* A step that changes node n only, seen through the mapping.
LEMMA MappedStep ==
  ASSUME Inv, NEW n \in Node, NEW f, NEW p, NEW w,
         frame' = [frame EXCEPT ![n] = f],
         pc' = [pc EXCEPT ![n] = p], work' = [work EXCEPT ![n] = w]
  PROVE  /\ LedgerDone' = [LedgerDone EXCEPT ![n] = DoneIn(f)]
         /\ LedgerJob' = [LedgerJob EXCEPT ![n] = JobOf(p, w)]
         /\ LedgerDone[n] = DoneIn(frame[n])
         /\ LedgerJob[n] = JobOf(pc[n], work[n])
<1>1. /\ frame \in [Node -> Frame] /\ work \in [Node -> Nat]
      /\ pc \in [Node -> {"pick", "start", "work", "dead"}]
  BY DEF Inv, TypeOK
<1>2. \A m \in Node : DoneAt(m) = DoneIn(frame[m]) /\ DoneAt(m)' = DoneIn(frame'[m])
  BY DEF DoneAt, DoneIn
<1>3. LedgerDone' = [m \in Node |-> DoneIn(frame'[m])]
  BY <1>2 DEF LedgerDone
<1>4. LedgerDone = [m \in Node |-> DoneIn(frame[m])]
  BY <1>2 DEF LedgerDone
<1>5. LedgerDone' = [LedgerDone EXCEPT ![n] = DoneIn(f)]
  BY <1>1, <1>3, <1>4
<1>6. LedgerJob' = [LedgerJob EXCEPT ![n] = JobOf(p, w)]
  BY <1>1 DEF LedgerJob, JobOf
<1> QED BY <1>4, <1>5, <1>6 DEF LedgerJob, JobOf

\* A step of which the ledger sees nothing.
LEMMA Stutter ==
  ASSUME Inv, NEW n \in Node, NEW f, NEW p, NEW w,
         frame' = [frame EXCEPT ![n] = f],
         pc' = [pc EXCEPT ![n] = p], work' = [work EXCEPT ![n] = w],
         DoneIn(f) = DoneIn(frame[n]),
         p = "work" <=> pc[n] = "work", p = "work" => w = work[n],
         started' = started
  PROVE  UNCHANGED Promised!ledgerVars
<1>0. /\ LedgerDone' = [LedgerDone EXCEPT ![n] = DoneIn(f)]
      /\ LedgerJob' = [LedgerJob EXCEPT ![n] = JobOf(p, w)]
      /\ LedgerDone[n] = DoneIn(frame[n])
      /\ LedgerJob[n] = JobOf(pc[n], work[n])
  BY MappedStep, Zenon
<1>1. /\ LedgerDone' = [LedgerDone EXCEPT ![n] = LedgerDone[n]]
      /\ LedgerJob' = [LedgerJob EXCEPT ![n] = LedgerJob[n]]
  BY <1>0 DEF JobOf
<1>2. LedgerDone' = LedgerDone /\ LedgerJob' = LedgerJob
  BY <1>1 DEF LedgerDone, LedgerJob
<1> QED BY <1>2 DEF Promised!ledgerVars

LEMMA StartBegins == ASSUME Inv, NEW n \in Node, StartBlock(n) PROVE Promised!Begin(n)
<1> DEFINE f == [frame[n] EXCEPT !.id = picked[n], !.block[picked[n]] = TAKEN]
           w == f.base + f.id
<1>1. /\ pc' = [pc EXCEPT ![n] = "work"] /\ pc[n] = "start"
      /\ frame' = [frame EXCEPT ![n] = f]
      /\ work' = [work EXCEPT ![n] = w]
      /\ started' = started \cup {w}
      /\ frame[n].block[picked[n]] # DONE
  BY DEF StartBlock
<1>2. /\ f \in Frame /\ f.base = frame[n].base /\ f.id = picked[n]
      /\ f.block = [frame[n].block EXCEPT ![picked[n]] = TAKEN]
  BY <1>1, StartFrame
<1>3. /\ frame[n] \in Frame /\ frame[n].base \in Nat /\ picked[n] \in Index
      /\ frame[n].block \in [Index -> Status]
  BY InvNode
<1> HIDE DEF f
<1>4. DoneIn(f) = DoneIn(frame[n])
  <2>1. ASSUME NEW i \in Index
        PROVE  f.block[i] = DONE <=> frame[n].block[i] = DONE
    BY <1>1, <1>2, <1>3
  <2>2. ASSUME NEW k \in Nat
        PROVE  StatusOf(f, k) = DONE <=> StatusOf(frame[n], k) = DONE
    <3>1. CASE k < frame[n].base \/ k >= frame[n].base + BLOCKS
      BY <1>2, <1>3, <3>1, StatusLemma
    <3>2. CASE k >= frame[n].base /\ k < frame[n].base + BLOCKS
      BY <1>2, <1>3, <2>1, <3>2, StatusLemma
    <3> QED BY <1>3, <3>1, <3>2, BlocksAssumption
  <2> QED BY <1>2, <1>3, <2>2, SameDone
<1>5. w \notin DoneIn(frame[n])
  <2>1. /\ w \in Nat /\ ~ (w < frame[n].base) /\ w - frame[n].base = picked[n]
    BY <1>2, <1>3 DEF Index
  <2> HIDE DEF w
  <2> QED BY <1>1, <2>1 DEF DoneIn
<1> HIDE DEF w
<1>0. /\ LedgerDone' = [LedgerDone EXCEPT ![n] = DoneIn(f)]
      /\ LedgerJob' = [LedgerJob EXCEPT ![n] = JobOf("work", w)]
      /\ LedgerDone[n] = DoneIn(frame[n])
      /\ LedgerJob[n] = JobOf(pc[n], work[n])
  BY <1>1, MappedStep, Zenon
<1>6. /\ LedgerDone' = [LedgerDone EXCEPT ![n] = LedgerDone[n]]
      /\ LedgerJob' = [LedgerJob EXCEPT ![n] = w]
      /\ LedgerJob[n] = NoBlock
  BY <1>0, <1>1, <1>4 DEF JobOf
<1>7. LedgerDone' = LedgerDone
  BY <1>6 DEF LedgerDone
<1> QED BY <1>0, <1>1, <1>5, <1>6, <1>7 DEF Promised!Begin

LEMMA FinishFinishes == ASSUME Inv, NEW n \in Node, FinishBlock(n) PROVE Promised!Finish(n)
<1>1. /\ pc' = [pc EXCEPT ![n] = "pick"] /\ pc[n] = "work"
      /\ work' = [work EXCEPT ![n] = 0]
      /\ started' = started
  BY DEF FinishBlock
<1>2. /\ frame[n] \in Frame /\ frame[n].base \in Nat /\ work[n] \in Nat
      /\ frame[n].block \in [Index -> Status]
      /\ frame[n].id \in Index \cup {-1}
      /\ Doing(frame[n], pc[n], work[n])
  BY InvNode
<1>3. SUFFICES ASSUME NEW g, frame' = [frame EXCEPT ![n] = g],
                      DoneIn(g) = DoneIn(frame[n]) \cup {work[n]}
               PROVE  Promised!Finish(n)
  <2>1. CASE frame[n].id >= 0
    <3> DEFINE f == [frame[n] EXCEPT !.block[frame[n].id] = DONE]
               h == Advance(f)
               g == [h EXCEPT !.id = -1]
    <3>1. frame' = [frame EXCEPT ![n] = g]
      BY <2>1 DEF FinishBlock
    <3>2. /\ f \in Frame /\ f.base = frame[n].base /\ Sound(f, started)
          /\ f.block = [frame[n].block EXCEPT ![frame[n].id] = DONE]
      BY <1>1, <2>1, FinishFrame
    <3> HIDE DEF f
    <3>3. h \in Frame /\ DoneIn(h) = DoneIn(f)
      BY <3>2, AdvanceLemma, AdvanceKeepsDone
    <3> HIDE DEF h
    <3>4. g.base = h.base /\ g.block = h.block
      BY <3>3 DEF Frame
    <3>5. DoneIn(g) = DoneIn(h)
      BY <3>4 DEF DoneIn
    <3>6. /\ frame[n].id \in Index /\ frame[n].base + frame[n].id = work[n]
      BY <1>1, <1>2, <2>1 DEF Doing
    <3>7. DoneIn(f) = DoneIn(frame[n]) \cup {work[n]}
      <4>1. \A i \in Index : f.block[i] = DONE <=> frame[n].block[i] = DONE \/ i = frame[n].id
        BY <1>2, <3>2, <3>6
      <4>2. ASSUME NEW k \in Nat
            PROVE  k \in DoneIn(f) <=> k \in DoneIn(frame[n]) \/ k = work[n]
        <5>1. CASE k < frame[n].base \/ k >= frame[n].base + BLOCKS
          <6>1. k # work[n]
            BY <1>2, <3>6, <5>1, BlocksAssumption DEF Index
          <6> QED BY <1>2, <3>2, <5>1, <6>1, BlocksAssumption DEF DoneIn
        <5>2. CASE k >= frame[n].base /\ k < frame[n].base + BLOCKS
          <6>1. k - frame[n].base \in Index
            BY <1>2, <5>2, StatusLemma
          <6>2. k = work[n] <=> k - frame[n].base = frame[n].id
            BY <1>2, <3>6 DEF Index
          <6> QED BY <1>2, <3>2, <4>1, <5>2, <6>1, <6>2, BlocksAssumption DEF DoneIn
        <5> QED BY <1>2, <5>1, <5>2, BlocksAssumption
      <4>3. DoneIn(f) \subseteq Nat /\ DoneIn(frame[n]) \subseteq Nat /\ work[n] \in Nat
        BY <1>2, <3>2, DoneInStatus
      <4> QED BY <4>2, <4>3
    <3> QED BY <1>3, <3>1, <3>3, <3>5, <3>7
  <2>2. CASE ~ (frame[n].id >= 0)
    <3>1. frame' = [frame EXCEPT ![n] = frame[n]]
      BY <2>2 DEF FinishBlock, Inv, TypeOK
    <3>2. \/ work[n] < frame[n].base
          \/ work[n] - frame[n].base \in Index
               /\ frame[n].block[work[n] - frame[n].base] = DONE
      BY <1>1, <1>2, <2>2 DEF Doing, Index
    <3>3. work[n] \in DoneIn(frame[n])
      BY <1>2, <3>2, BlocksAssumption DEF DoneIn, Index
    <3> QED BY <1>3, <3>1, <3>3
  <2> QED BY <2>1, <2>2
<1>0. /\ LedgerDone' = [LedgerDone EXCEPT ![n] = DoneIn(g)]
      /\ LedgerJob' = [LedgerJob EXCEPT ![n] = JobOf("pick", 0)]
      /\ LedgerDone[n] = DoneIn(frame[n])
      /\ LedgerJob[n] = JobOf(pc[n], work[n])
  BY <1>1, <1>3, MappedStep, Zenon
<1>4. /\ LedgerDone' = [LedgerDone EXCEPT ![n] = LedgerDone[n] \cup {LedgerJob[n]}]
      /\ LedgerJob' = [LedgerJob EXCEPT ![n] = NoBlock]
      /\ LedgerJob[n] = work[n]
  BY <1>0, <1>1, <1>3 DEF JobOf
<1>5. work[n] # NoBlock
  BY <1>2 DEF NoBlock
<1> QED BY <1>1, <1>4, <1>5 DEF Promised!Finish, LedgerDone

LEMMA ProcessLearns == ASSUME Inv, NEW n \in Node, ProcessReport(n) PROVE Promised!Learn(n)
<1>1. /\ pc' = [pc EXCEPT ![n] = pc[n]]
      /\ work' = [work EXCEPT ![n] = work[n]]
      /\ started' = started
      /\ comm[n] # NoReport
  BY DEF ProcessReport, Inv, TypeOK
<1>2. /\ frame[n] \in Frame /\ Sound(frame[n], started)
      /\ comm[n] \in Report /\ SoundReport(comm[n], started)
  BY <1>1, InvNode
<1>3. SUFFICES ASSUME NEW g \in Frame, frame' = [frame EXCEPT ![n] = g],
                      Continues(frame[n], g), Sound(g, started)
                      \/ g = frame[n]
               PROVE  Promised!Learn(n)
  <2>1. CASE OldNews(frame[n], comm[n])
    <3>1. frame' = [frame EXCEPT ![n] = frame[n]]
      BY <2>1 DEF ProcessReport, Inv, TypeOK
    <3>2. Continues(frame[n], frame[n])
      <4>1. /\ frame[n].base \in Nat /\ frame[n].id \in Index \cup {-1}
        BY InvNode
      <4>2. \A k \in Nat : StatusOf(frame[n], k) \in Nat
        BY <1>2, StatusLemma DEF Status
      <4> QED BY <4>1, <4>2 DEF Continues, Index
    <3> QED BY <1>2, <1>3, <3>1, <3>2
  <2>2. CASE ~ OldNews(frame[n], comm[n])
    <3> DEFINE f == Fold(frame[n], comm[n])
               g == Advance(f)
    <3>1. frame' = [frame EXCEPT ![n] = g]
      BY <2>2 DEF ProcessReport
    <3>2. f \in Frame /\ Sound(f, started) /\ Continues(frame[n], f)
      BY <1>2, FoldLemma
    <3> HIDE DEF f
    <3>3. g \in Frame /\ Sound(g, started) /\ Continues(f, g)
      BY <3>2, AdvanceLemma
    <3> HIDE DEF g
    <3>4. Continues(frame[n], g)
      BY <1>2, <3>2, <3>3, ContinuesTransitive
    <3> QED BY <1>3, <3>1, <3>3, <3>4
  <2> QED BY <2>1, <2>2
<1>0. /\ LedgerDone' = [LedgerDone EXCEPT ![n] = DoneIn(g)]
      /\ LedgerJob' = [LedgerJob EXCEPT ![n] = JobOf(pc[n], work[n])]
      /\ LedgerDone[n] = DoneIn(frame[n])
      /\ LedgerJob[n] = JobOf(pc[n], work[n])
  BY <1>1, <1>3, MappedStep, Zenon
<1>4. /\ LedgerDone' = [LedgerDone EXCEPT ![n] = DoneIn(g)]
      /\ LedgerJob' = [LedgerJob EXCEPT ![n] = LedgerJob[n]]
      /\ LedgerDone[n] = DoneIn(frame[n])
  BY <1>0
<1>5. DoneIn(frame[n]) \subseteq DoneIn(g) /\ DoneIn(g) \subseteq started
  BY <1>2, <1>3, ContinuesKeepsDone, SoundDone
<1>6. LedgerDone' = [LedgerDone EXCEPT ![n] = @ \cup DoneIn(g)]
  BY <1>4, <1>5 DEF LedgerDone
<1>7. LedgerJob' = LedgerJob
  BY <1>4 DEF LedgerJob
<1> QED BY <1>1, <1>5, <1>6, <1>7 DEF Promised!Learn

LEMMA RestartClears == ASSUME Inv, NEW n \in Node, Restart(n) PROVE Promised!Clear(n)
<1>1. /\ pc' = [pc EXCEPT ![n] = "pick"]
      /\ frame' = [frame EXCEPT ![n] = FirstFrame]
      /\ work' = [work EXCEPT ![n] = 0]
      /\ started' = started
  BY DEF Restart
<1>2. DoneIn(FirstFrame) = {}
  BY BlocksAssumption DEF DoneIn, FirstFrame, Index
<1>0. /\ LedgerDone' = [LedgerDone EXCEPT ![n] = DoneIn(FirstFrame)]
      /\ LedgerJob' = [LedgerJob EXCEPT ![n] = JobOf("pick", 0)]
      /\ LedgerDone[n] = DoneIn(frame[n])
      /\ LedgerJob[n] = JobOf(pc[n], work[n])
  BY <1>1, MappedStep, Zenon
<1> QED BY <1>0, <1>1, <1>2 DEF Promised!Clear, JobOf

LEMMA NextPromised == Inv /\ [Next]_vars => [Promised!Next]_(Promised!ledgerVars)
<1> SUFFICES ASSUME Inv, [Next]_vars PROVE [Promised!Next]_(Promised!ledgerVars)
  OBVIOUS
<1> DEFINE Same == UNCHANGED Promised!ledgerVars
<1>1. CASE UNCHANGED vars
  BY <1>1 DEF vars, Promised!ledgerVars, LedgerDone, LedgerJob, DoneAt
<1>2. ASSUME NEW n \in Node, Compute(n)
      PROVE  Promised!Begin(n) \/ Promised!Finish(n) \/ Promised!GiveUp(n) \/ Same
  <2>0. pc \in [Node -> {"pick", "start", "work", "dead"}] /\ work \in [Node -> Nat]
        /\ frame \in [Node -> Frame]
    BY DEF Inv, TypeOK
  <2>1. CASE PickBlock(n)
    <3>1. /\ pc' = [pc EXCEPT ![n] = "start"] /\ pc[n] = "pick" /\ started' = started
          /\ frame' = [frame EXCEPT ![n] = frame[n]]
          /\ work' = [work EXCEPT ![n] = work[n]]
      BY <2>0, <2>1 DEF PickBlock
    <3> QED BY <3>1, Stutter
  <2>2. CASE SkipDone(n)
    <3> DEFINE f == [frame[n] EXCEPT !.id = picked[n]]
    <3>1. /\ pc' = [pc EXCEPT ![n] = "pick"] /\ pc[n] = "start" /\ started' = started
          /\ frame' = [frame EXCEPT ![n] = f]
          /\ work' = [work EXCEPT ![n] = work[n]]
      BY <2>0, <2>2 DEF SkipDone
    <3>2. f.base = frame[n].base /\ f.block = frame[n].block
      BY <2>0 DEF Frame
    <3> HIDE DEF f
    <3>3. DoneIn(f) = DoneIn(frame[n])
      BY <3>2 DEF DoneIn
    <3> QED BY <3>1, <3>3, Stutter
  <2>3. CASE Overflow(n)
    <3>1. /\ pc' = [pc EXCEPT ![n] = "dead"] /\ pc[n] = "work" /\ started' = started
          /\ frame' = [frame EXCEPT ![n] = frame[n]]
          /\ work' = [work EXCEPT ![n] = 0] /\ work[n] \in Nat
      BY <2>0, <2>3 DEF Overflow
    <3>0. /\ LedgerDone' = [LedgerDone EXCEPT ![n] = DoneIn(frame[n])]
          /\ LedgerJob' = [LedgerJob EXCEPT ![n] = JobOf("dead", 0)]
          /\ LedgerDone[n] = DoneIn(frame[n])
          /\ LedgerJob[n] = JobOf(pc[n], work[n])
      BY <3>1, MappedStep, Zenon
    <3>2. /\ LedgerDone' = [LedgerDone EXCEPT ![n] = LedgerDone[n]]
          /\ LedgerJob' = [LedgerJob EXCEPT ![n] = NoBlock]
          /\ LedgerJob[n] # NoBlock
      BY <3>0, <3>1 DEF NoBlock, JobOf
    <3>3. LedgerDone' = LedgerDone
      BY <3>2 DEF LedgerDone
    <3> QED BY <3>1, <3>2, <3>3 DEF Promised!GiveUp
  <2> QED BY <1>2, <2>1, <2>2, <2>3, StartBegins, FinishFinishes DEF Compute
<1>3. ASSUME NEW n \in Node, Comm(n) PROVE Promised!Learn(n) \/ Same
  <2>1. CASE ReceiveReport(n) \/ RelayUp(n)
    <3>1. UNCHANGED <<frame, pc, work, started>>
      BY <2>1 DEF ReceiveReport, RelayUp
    <3> QED BY <3>1 DEF Promised!ledgerVars, LedgerDone, LedgerJob, DoneAt
  <2> QED BY <1>3, <2>1, ProcessLearns DEF Comm
<1>4. ASSUME NEW n \in Node, Restart(n) PROVE Promised!Clear(n)
  BY <1>4, RestartClears
<1> QED BY <1>1, <1>2, <1>3, <1>4 DEF Next, Promised!Next

\* The frames of collatz.c, shifted, rebased, reported, lost and restarted,
\* implement the ledger.
THEOREM CollatzImplementsLedger == Spec => ImplementsLedger
<1>1. Init => Promised!Init
  <2> SUFFICES ASSUME Init PROVE Promised!Init
    OBVIOUS
  <2>1. LedgerDone = [n \in Node |-> {}]
    BY BlocksAssumption DEF Init, LedgerDone, DoneAt, FirstFrame, Index
  <2> QED BY <2>1 DEF Init, LedgerJob, Promised!Init
<1> QED BY <1>1, NextPromised, Invariance, PTL DEF Spec, ImplementsLedger, Promised!Spec
=============================================================================
