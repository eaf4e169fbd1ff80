------------------------------ MODULE Collatz ------------------------------
(***************************************************************************)
(* The distributed Collatz verification of main/collatz.c.                 *)
(*                                                                         *)
(* Every node keeps an integer frame: a base (everything below it counts   *)
(* as done) and BLOCKS blocks above it, each free, taken or done.  Two     *)
(* tasks share the frame under one mutex: "collatz-comp" picks a block,    *)
(* computes it and reports it, "collatz-comm" receives the reports of the  *)
(* other nodes, forwards them along the tree and folds them into the       *)
(* frame.  Each critical section of the code is one action here.           *)
(*                                                                         *)
(* Simplifications.  Integers are counted in blocks from the common first  *)
(* base 2^68-1, so a base is a natural number and block i of a frame is    *)
(* the absolute block base + i.  The tree is fixed.  A report sent over a  *)
(* link is at once in the inbound queue of the receiver or lost; as links  *)
(* are first-in first-out and the links form a tree, a longer delay is     *)
(* equivalent to the receiver reading its queue later.                     *)
(***************************************************************************)
EXTENDS Integers, Sequences, FiniteSets

CONSTANTS
  Node,         \* the nodes of the tree
  Root,         \* the node started with root = 1
  Parent,       \* Parent[n] is the up-stream link of a node n other than Root
  BLOCKS,       \* blocks in a frame (32 in the code, 4 in its TESTCASE build)
  Overflowing,  \* the blocks with a sequence too long for a bigint_t
  QueueCap,     \* INBOUND_QUEUE_SIZE (6 in the code)
  Horizon,      \* bound: no block is picked once the base has reached Horizon
  MaxRestarts   \* bound: how many times a node may restart

ASSUME RootAssumption    == Root \in Node
ASSUME ParentAssumption  == Parent \in [Node \ {Root} -> Node]
ASSUME BlocksAssumption  == BLOCKS \in Nat \ {0}
ASSUME OverflowAssumption == Overflowing \subseteq Nat
ASSUME BoundsAssumption  == QueueCap \in Nat /\ Horizon \in Nat /\ MaxRestarts \in Nat

FREE  == 0   \* BLOCK_FREE
TAKEN == 1   \* BLOCK_TAKEN
DONE  == 2   \* BLOCK_DONE

Index  == 0 .. BLOCKS-1
Status == {FREE, TAKEN, DONE}

(***************************************************************************)
(* The frame of a node: job.base, job.block_id (-1: no job) and block[].   *)
(* A report is the collatz_t sent to the other nodes; up is its BLOCK_UP   *)
(* bit, set while it is on its way to the root.                            *)
(***************************************************************************)
Frame  == [base : Nat, id : Index \cup {-1}, block : [Index -> Status]]
Report == [rt : {TAKEN, DONE}, id : Index \cup {-1}, base : Nat, up : BOOLEAN]
NoReport == [rt |-> FREE, id |-> -1, base |-> 0, up |-> FALSE]

VARIABLES
  frame,     \* frame[n]: the state behind the mutex of n
  pc,        \* pc[n]: where the compute task of n stands
  picked,    \* picked[n]: the index pick_block() returned, 0 once it is used
  work,      \* work[n]: the absolute block the compute loop of n runs on, else 0
  inbox,     \* inbox[n]: the inbound queue of APP_COLLATZ_ID
  comm,      \* comm[n]: the report the comm task has forwarded, not yet processed
  restarts,  \* restarts so far
  started,   \* history: absolute blocks some compute loop was started on
  verified   \* history: absolute blocks some compute loop has finished

vars == <<frame, pc, picked, work, inbox, comm, restarts, started, verified>>

-----------------------------------------------------------------------------
(***************************************************************************)
(* Faulty variants of the operations below, one slip of the pen each.  The *)
(* specification does not use them; README.md says which property rejects  *)
(* which of them.                                                          *)
(***************************************************************************)

\* shift_blocks without the test that the job is still on board
ShiftAnyJob(f, s) ==
  [base  |-> f.base + s,
   id    |-> f.id - s,
   block |-> [i \in Index |-> IF i + s < BLOCKS THEN f.block[i + s] ELSE FREE]]

\* shift_blocks that leaves job.block_id alone
ShiftNoJob(f, s) ==
  [base  |-> f.base + s,
   id    |-> f.id,
   block |-> [i \in Index |-> IF i + s < BLOCKS THEN f.block[i + s] ELSE FREE]]

\* report_my_progress that does not look beyond the first block
PrefixOfOne(b) == IF b[0] = DONE THEN 1 ELSE 0

\* process_report that drops the job on any report of its block
MarkAnyReport(f, i, rt) ==
  IF i < 0 THEN f
  ELSE [f EXCEPT !.block[i] = IF @ > rt THEN @ ELSE rt,
                 !.id = IF i = @ THEN -1 ELSE @]

\* process_report that does not move the block id with the base
RebaseNot(f, r) == r.id

\* pick_block that waits for a free block
PickOnlyFree(n) ==
  /\ pc[n] = "pick"
  /\ frame[n].base < Horizon
  /\ \E i \in Index : /\ frame[n].block[i] = FREE
                      /\ picked' = [picked EXCEPT ![n] = i]
  /\ pc' = [pc EXCEPT ![n] = "start"]
  /\ UNCHANGED <<frame, work, inbox, comm, restarts, started, verified>>

-----------------------------------------------------------------------------
(***************************************************************************)
(* Operations on a frame.                                                  *)
(***************************************************************************)

\* shift_blocks(s), with the s calls of rl_add on job.base its callers make.
Shift(f, s) ==
  [base  |-> f.base + s,
   id    |-> IF f.id >= s THEN f.id - s ELSE -1,
   block |-> [i \in Index |-> IF i + s < BLOCKS THEN f.block[i + s] ELSE FREE]]

\* The number of blocks report_my_progress counts as done from block 0 on.
DonePrefix(b) ==
  CHOOSE k \in 0 .. BLOCKS :
    /\ \A i \in Index : i < k => b[i] = DONE
    /\ k < BLOCKS => b[k] # DONE

\* Moves the base over the completed blocks at the head of the frame.
Advance(f) == Shift(f, DonePrefix(f.block))

\* Records status rt of block i; a job somebody else has completed is dropped.
Mark(f, i, rt) ==
  IF i < 0 THEN f
  ELSE [f EXCEPT !.block[i] = IF @ > rt THEN @ ELSE rt,
                 !.id = IF rt = DONE /\ i = @ THEN -1 ELSE @]

\* The index a report has in a frame with a base not below the report's.
Rebase(f, r) == r.id - (f.base - r.base)

\* process_report ignores a report on blocks that are all below its base.
OldNews(f, r) == r.base < f.base /\ Rebase(f, r) < -1

\* The frame after the report, before the follow-up of report_my_progress.
Fold(f, r) ==
  IF r.base <= f.base
  THEN Mark(f, Rebase(f, r), r.rt)
  ELSE Mark(Shift(f, r.base - f.base), r.id, r.rt)

-----------------------------------------------------------------------------
(***************************************************************************)
(* Sending.  Any of the receivers may miss the report: the packet is lost, *)
(* or a queue on the way is full.                                          *)
(***************************************************************************)
Children(n) == {c \in Node \ {Root} : Parent[c] = n}

SendFrom(q, R, r) ==
  \E got \in SUBSET {m \in R : Len(q[m]) < QueueCap} :
    inbox' = [m \in Node |-> IF m \in got THEN Append(q[m], r) ELSE q[m]]

\* net_send_down and net_send_up of collatz_comm and broadcast_message.
SendDown(q, n, r) == SendFrom(q, Children(n), [r EXCEPT !.up = FALSE])
SendUp(q, n, r)   == SendFrom(q, {Parent[n]}, [r EXCEPT !.up = TRUE])

\* broadcast_message(&job) once job.report_type is rt.
Broadcast(n, f, rt) ==
  LET r == [rt |-> rt, id |-> f.id, base |-> f.base, up |-> FALSE] IN
  IF n = Root THEN SendDown(inbox, n, r) ELSE SendUp(inbox, n, r)

\* Faulty variant: report_my_progress without its early return.
ReportAlways(n, f, fin) == Broadcast(n, Advance(f), DONE)

\* report_my_progress(fin) on the frame f: the report it sends, if any.
ReportProgress(n, f, fin) ==
  IF f.block[0] = DONE \/ fin
  THEN Broadcast(n, Advance(f), DONE)
  ELSE UNCHANGED inbox

-----------------------------------------------------------------------------
FirstFrame == [base |-> 0, id |-> 0, block |-> [i \in Index |-> FREE]]

Init ==
  /\ frame    = [n \in Node |-> FirstFrame]
  /\ pc       = [n \in Node |-> "pick"]
  /\ picked   = [n \in Node |-> 0]
  /\ work     = [n \in Node |-> 0]
  /\ inbox    = [n \in Node |-> << >>]
  /\ comm     = [n \in Node |-> NoReport]
  /\ restarts = 0
  /\ started  = {}
  /\ verified = {}

\* pick_block(): a free block at random, or the first one if none is free.
PickBlock(n) ==
  /\ pc[n] = "pick"
  /\ frame[n].base < Horizon
  /\ \/ \E i \in Index : /\ frame[n].block[i] = FREE
                         /\ picked' = [picked EXCEPT ![n] = i]
     \/ /\ \A i \in Index : frame[n].block[i] # FREE
        /\ picked' = [picked EXCEPT ![n] = 0]
  /\ pc' = [pc EXCEPT ![n] = "start"]
  /\ UNCHANGED <<frame, work, inbox, comm, restarts, started, verified>>

\* compute_block(bi), first critical section, when the block turns out done.
SkipDone(n) ==
  /\ pc[n] = "start"
  /\ frame[n].block[picked[n]] = DONE
  /\ frame' = [frame EXCEPT ![n].id = picked[n]]
  /\ pc' = [pc EXCEPT ![n] = "pick"]
  /\ picked' = [picked EXCEPT ![n] = 0]
  /\ UNCHANGED <<work, inbox, comm, restarts, started, verified>>

\* compute_block(bi), first critical section: take the block and report it.
StartBlock(n) ==
  /\ pc[n] = "start"
  /\ frame[n].block[picked[n]] # DONE
  /\ LET f == [frame[n] EXCEPT !.id = picked[n], !.block[picked[n]] = TAKEN] IN
       /\ frame' = [frame EXCEPT ![n] = f]
       /\ work' = [work EXCEPT ![n] = f.base + f.id]
       /\ started' = started \cup {f.base + f.id}
       /\ Broadcast(n, f, TAKEN)
  /\ pc' = [pc EXCEPT ![n] = "work"]
  /\ picked' = [picked EXCEPT ![n] = 0]
  /\ UNCHANGED <<comm, restarts, verified>>

\* compute_block(bi), the loop has ended: credit the block to the job, if the
\* node still has one, and report.
FinishBlock(n) ==
  /\ pc[n] = "work"
  /\ work[n] \notin Overflowing
  /\ verified' = verified \cup {work[n]}
  /\ IF frame[n].id >= 0
     THEN LET f == [frame[n] EXCEPT !.block[frame[n].id] = DONE] IN
            /\ ReportProgress(n, f, TRUE)
            /\ frame' = [frame EXCEPT ![n] = [Advance(f) EXCEPT !.id = -1]]
     ELSE UNCHANGED <<frame, inbox>>
  /\ pc' = [pc EXCEPT ![n] = "pick"]
  /\ work' = [work EXCEPT ![n] = 0]
  /\ UNCHANGED <<picked, comm, restarts, started>>

\* compute_block(bi), rl_overflow is set in the loop: the task ends for good.
Overflow(n) ==
  /\ pc[n] = "work"
  /\ work[n] \in Overflowing
  /\ pc' = [pc EXCEPT ![n] = "dead"]
  /\ work' = [work EXCEPT ![n] = 0]
  /\ UNCHANGED <<frame, picked, inbox, comm, restarts, started, verified>>

\* collatz_comm: a report for this node, passed on down the tree.
ReceiveReport(n) ==
  /\ comm[n] = NoReport
  /\ inbox[n] # << >>
  /\ LET r == Head(inbox[n]) IN
       /\ ~ r.up \/ n = Root
       /\ comm' = [comm EXCEPT ![n] = [r EXCEPT !.up = FALSE]]
       /\ SendDown([inbox EXCEPT ![n] = Tail(@)], n, r)
  /\ UNCHANGED <<frame, pc, picked, work, restarts, started, verified>>

\* collatz_comm: a report on its way up is only passed on.
RelayUp(n) ==
  /\ comm[n] = NoReport
  /\ inbox[n] # << >>
  /\ LET r == Head(inbox[n]) IN
       /\ r.up /\ n # Root
       /\ SendUp([inbox EXCEPT ![n] = Tail(@)], n, r)
  /\ UNCHANGED <<frame, pc, picked, work, comm, restarts, started, verified>>

\* collatz_comm: process_report in its critical section.
ProcessReport(n) ==
  /\ comm[n] # NoReport
  /\ comm' = [comm EXCEPT ![n] = NoReport]
  /\ IF OldNews(frame[n], comm[n])
     THEN UNCHANGED <<frame, inbox>>
     ELSE LET f == Fold(frame[n], comm[n]) IN
            /\ ReportProgress(n, f, FALSE)
            /\ frame' = [frame EXCEPT ![n] = Advance(f)]
  /\ UNCHANGED <<pc, picked, work, restarts, started, verified>>

\* esp_restart() or a reset: nothing is persisted, the node starts over.
Restart(n) ==
  /\ restarts < MaxRestarts
  /\ restarts' = restarts + 1
  /\ frame'  = [frame EXCEPT ![n] = FirstFrame]
  /\ pc'     = [pc EXCEPT ![n] = "pick"]
  /\ picked' = [picked EXCEPT ![n] = 0]
  /\ work'   = [work EXCEPT ![n] = 0]
  /\ inbox'  = [inbox EXCEPT ![n] = << >>]
  /\ comm'   = [comm EXCEPT ![n] = NoReport]
  /\ UNCHANGED <<started, verified>>

Compute(n) == \/ PickBlock(n) \/ SkipDone(n) \/ StartBlock(n)
              \/ FinishBlock(n) \/ Overflow(n)
Comm(n)    == ReceiveReport(n) \/ RelayUp(n) \/ ProcessReport(n)

Next == \E n \in Node : Compute(n) \/ Comm(n) \/ Restart(n)

Spec == Init /\ [][Next]_vars

\* The scheduler: both tasks run again and again.  The compute task has the
\* idle priority, but the tasks above it sleep between two reports.
FairSpec ==
  /\ Spec
  /\ \A n \in Node : WF_vars(Compute(n)) /\ WF_vars(Comm(n))

-----------------------------------------------------------------------------
(***************************************************************************)
(* Properties.                                                             *)
(***************************************************************************)

\* The types of the C structures: block ids of frames and reports stay in
\* -1 .. BLOCKS-1, so no access to block[] is out of bounds.
TypeOK ==
  /\ frame \in [Node -> Frame]
  /\ pc \in [Node -> {"pick", "start", "work", "dead"}]
  /\ picked \in [Node -> Index]
  /\ work \in [Node -> Nat]
  /\ inbox \in [Node -> Seq(Report)]
  /\ comm \in [Node -> Report \cup {NoReport}]
  /\ restarts \in Nat
  /\ started \in SUBSET Nat
  /\ verified \in SUBSET Nat

\* Whenever the mutex is free, the first block of a frame is not done: every
\* path that can complete block 0 also shifts it out (report_my_progress).
HeadNotDone == \A n \in Node : frame[n].block[0] # DONE

\* However often the comm task shifts the frame under a running computation,
\* the job the compute task will be credited with at the end is the block its
\* loop started from, and nobody has completed that block meanwhile.
CreditCorrect ==
  \A n \in Node : pc[n] = "work" /\ frame[n].id >= 0 =>
    /\ frame[n].base + frame[n].id = work[n]
    /\ frame[n].block[frame[n].id] = TAKEN

\* A computation loses its job (block_id = -1, "our current computation is
\* obsolete!") only when its block counts as done on that very node: compute_block
\* never drops its effort and leaves the block taken there, with nobody at it.
\* It does not say that anybody has computed the block: the follow-up of a node
\* (collatz.c:319, 228-229) declares its own running job done, the root sends every
\* report back down (460), and the node takes its own claim for news (309-313) and
\* drops the only computation of the block.
DroppedCountsAsDone ==
  \A n \in Node : pc[n] = "work" /\ frame[n].id < 0 =>
    \/ work[n] < frame[n].base
    \/ work[n] - frame[n].base \in Index
         /\ frame[n].block[work[n] - frame[n].base] = DONE

\* The blocks a node counts as done, and those a report declares done: the
\* blocks below its base and, in a DONE report, its block_id.
DoneAt(n) == {b \in 0 .. frame[n].base + BLOCKS - 1 :
                b < frame[n].base \/ frame[n].block[b - frame[n].base] = DONE}
Claims(r) == {b \in 0 .. r.base + BLOCKS - 1 :
                b < r.base \/ (r.rt = DONE /\ b = r.base + r.id)}
InTransit == (UNION {{inbox[n][k] : k \in 1 .. Len(inbox[n])} : n \in Node})
               \cup {comm[n] : n \in Node}

\* No block is skipped: shifts, rebased reports, duplicates, losses and
\* restarts never make a node or a report count a block as done on which no
\* node ever started to work.
DoneWereStarted ==
  /\ \A n \in Node : DoneAt(n) \subseteq started
  /\ \A r \in InTransit : Claims(r) \subseteq started

\* What the comment on job.base ("blocks done -- offset") says of a frame.
\* The code breaks it: the follow-up of process_report declares the job the
\* node is still computing as done.
BelowBaseVerified == \A n \in Node : \A b \in 0 .. frame[n].base - 1 : b \in verified

\* The status a frame gives to an absolute block.
StatusOf(f, b) ==
  IF b < f.base THEN DONE ELSE IF b < f.base + BLOCKS THEN f.block[b - f.base] ELSE FREE

\* Until a restart, a node's base never moves back and no block goes back from
\* done to taken or from taken to free, whatever old, duplicated or rebased
\* reports arrive.
FrameGrows ==
  restarts' = restarts =>
    \A n \in Node :
      /\ frame[n].base <= frame'[n].base
      /\ \A b \in frame[n].base .. frame[n].base + BLOCKS - 1 :
           StatusOf(frame[n], b) <= StatusOf(frame'[n], b)
NoRegress == [][FrameGrows]_vars

\* Frames, reports and shifts implement a ledger of blocks: a node enters what
\* its own computation really was about and what reports say of started blocks,
\* never begins a block it holds for done, and takes no entry back.
NoBlock == -1
LedgerDone == [n \in Node |-> DoneAt(n)]
LedgerJob  == [n \in Node |-> IF pc[n] = "work" THEN work[n] ELSE NoBlock]
Promised == INSTANCE Ledger WITH done <- LedgerDone, job <- LedgerJob
ImplementsLedger == Promised!Spec

\* Every node gets through its frames on its own account, whatever the others
\* do and whatever reports are lost: its base reaches any horizon.
Progress == \A n \in Node : <>(frame[n].base >= Horizon \/ pc[n] = "dead")

\* Reports die out: a report causes a follow-up report only when it completes
\* a frame's head, so forwarding and follow-ups do not feed each other forever.
ReportsDieOut == <>[](\A n \in Node : inbox[n] = << >> /\ comm[n] = NoReport)
=============================================================================
