# A verification project for the ESP32 mesh firmware

The firmware in `src/main` runs on ESP32 boards that form a tree over ESP-NOW
(`net_layer.c`) and use it to verify the Collatz conjecture together
(`collatz.c`, on the big integers of `rl_int.c`).  Two more applications, one that
aggregates sensor readings and one that bounces messages, and a small serial shell
sit beside that.  The modules here state what the
firmware does in TLA+, TLC checks them on small instances, and TLAPS proves the
safety properties for every instance.

Contents: [inventory](#inventory), [modules and code](#modules-and-code),
[runs](#runs), [proofs](#proofs), [what disagreed](#what-disagreed),
[not modelled](#not-modelled), [done and left](#done-and-left).

## Inventory

`build/` is generated, `sdkconfig` fixes the platform: two cores, FreeRTOS at
100 Hz, assertions that abort and reset the board.  The tasks that matter:

| task | core, priority | runs |
|---|---|---|
| WiFi | 0, 23 | `espnow_recv` |
| esp_timer | 0, 22 | all timer callbacks, one at a time |
| `svc_outbound` | 1, 6 | `worker_send` |
| `collatz-comm` | any, 1 | reports in, forwarded and folded in |
| `collatz-comp` | any, 0 | the computation |
| `main_task` | any, 0 | the serial shell |
| factor tasks | any, 1 | started by the shell |

**Virtual links** (`net_layer.c`).  State: the link table (entry 0 up-stream,
the others down-stream, a usage bit, id, MAC and timer each), `node.flags`, the
open proposal (`pending_id`, `pending_mac`), the search (`loc_ident`,
`loc_response`), the peer list inside ESP-NOW, an outbound queue of 16 frames.
Operations: the cases of `espnow_recv`, seven timer callbacks, `worker_send`.
Hard: two ends that must agree over a lossy radio, power loss at any moment,
timers on both sides, restarts of whole sub-trees (BLACKOUT), and no lock at all
on the table.  Correct means: table, peers, timers and flags of a node agree;
half-open and stale links go away; the up-links are a forest.

**Data frames** (`net_layer.c`, `network.h`).  State: the application table and
one inbound queue of 6 packets per application.  Operations: register, send up
and down, receive, and the default forwarding of packets nobody registered for.
Hard: full queues, a slot chosen outside the lock, a lookup that gives up after
one tick.  Correct means: each packet goes to the application or on along the
tree, once.

**Collatz** (`collatz.c`).  State behind one mutex: a base, `block[]` with the
status of the blocks above it, and the id of the running job.  Operations: the
critical sections of two tasks.  They interact with the other nodes by TAKEN and
DONE reports, up to the root and from there down to everybody.  Hard: the frame
moves under a computation of minutes; reports are lost, late, echoed and relative
to another base; nodes restart from nothing.  Correct means: no block is skipped,
the right block is credited, a dropped block counts as done where it is dropped, and
everybody gets on.

**Block computation** (`compute_block`, `rl_int.c`).  Words of 30 bits in 32,
ten at most, an overflow flag.  Correct means: exact numbers until the flag, and
a number is cleared only if its sequence really fell below it.

**Bounce** (`app_bounce.c`).  No state but its inbound queue and a periodic timer.
A packet that came from up-stream is sent back up, one from down-stream back down
to every child, until its counter reaches its life.  Hard: the direction is a
reserved byte that the network layer fills in on every hop from its link table,
copies multiply at every node with several children, nodes without the application
pass packets on, and a packet whose link has gone strays to all peers.  Correct means:
a packet that has not strayed keeps its direction between two bounces, no node on its
way sees it twice, and the bouncing ends.

**Sensor** (`app_sensor.c`).  State: a cache of reports, a period, a timer and the
inbound queue.  A node wakes, empties its queue into the cache, sets its period to
one second more than the longest of its children and reports up.  Hard: the timers
of a tree start at any time and adapt to each other; a slow parent collects several
reports of one child in a queue of six; a lookup of the application may be late.
Correct means: each reading is counted at most once, the queue suffices, and in the
end no turn misses a child.

**Background tasks** (`background.c`, `factor.c`), **DHT driver** (`dht.c`),
**shell** (`main.c`, `command_functions.c`, `Stack.c`, `data.c`): see
[not modelled](#not-modelled).  `app_main` starts the network layer, Collatz and
the shell; it never calls `app_sensor_init`, `app_bounce_init`, `dht_init` or
`initialize_background_tasks`, so the sensor and bounce applications are modelled as
they would run once started.

The hazards of this code, each at its line and with the properties that would
notice it, are the list `hazards` of `PROJECT.json`.

## Modules and code

`PROJECT.json` maps every definition to the lines it stands for.

| module | models | one step is |
|---|---|---|
| `LinkLayer` | the link protocol on a whole tree | a handler, a callback, one frame sent |
| `Forest` | what `LinkLayer` promises of the up-links | a node joins or leaves a parent |
| `NodeTasks` | the tasks of one node on its down-stream entries | an access to shared memory |
| `NodeUplink` | the same on its up-stream entry and `node.flags` | an access to shared memory |
| `NetData` | DEFAULT and MAP frames on a tree of links | one frame sent and handled |
| `Bounce` | the bounce application on `NetData` | a turn of its loop |
| `Sensor` | the sensor application on a tree | a second, a turn, a report |
| `Collatz` | frames and reports of a tree of nodes | a critical section |
| `Ledger` | what `Collatz` promises | a block begun, finished, given up or learned of |
| `RlInt` | the big integers, word by word | (operators) |
| `CollatzBlock` | the loop of `compute_block` on `RlInt` | a turn of the loop |
| `LinkLayerProofs`, `NodeTasksProofs`, `NodeUplinkProofs`, `BounceProofs`, `SensorProofs`, `CollatzProofs`, `RlIntProofs`, `CollatzBlockProofs` | theorems | |
| `MC...` | instances for TLC | |

`Collatz`, `LinkLayer` and `Bounce`/`NetData` overlap on purpose: `LinkLayer` has the
links and no data, `NetData` has the data and, of the links, what a queued frame can
notice of them, `Collatz` has an application on a fixed tree.  Their product is far
beyond TLC, and the data never write the link table.

Each of the modules also holds a few *faulty variants* (`DecayNotStarted`,
`ShiftNoJob`, ...): the operation with one plausible slip.  No specification
uses them; `PROJECT.json` pairs each property with a variant that breaks it.

### LinkLayer

A node id stands for the pair of id and MAC.  `down[n][i]` is the id of entry i
while its usage bit is set; `decay` and `timers` are the running timers; `out` is
the outbound queue and `air[n]` the frame `worker_send` has handed to the radio
together with the nodes that may still receive it.  A frame is validated when it
is queued but addressed when it is sent (`Receivers`), as in the code; any
receiver may miss any frame.  `ExecBlackout` queues the BLACKOUTs and then holds
its task (`blocked`) for the two seconds before `esp_restart`, while the other
task of the node goes on.  `PowerCycle` resets a node at any time.  No code in
the repository sends FREEZE; `Freeze` and `Unfreeze` are its handler, as if the
parent had sent it.

Time is not modelled, except for orders that the constants of `net_layer.h`
enforce by seconds, stated in two guards:

* `Sent`: a frame queued before a timer was started is out, or lost, when the
  timer fires.  Queue and radio take milliseconds, timers at least 1 s.
* `Settled`: `timer_cb_join` fires 25 to 30 s after a boot or a failed search.
  A node that still has the searcher as its parent checks it at most 20 s after
  its last check, waits 1 s for the answer and restarts after 2 s more: 23 s.
  Proposals last 2 s and searches 1 s.  So all that is over, except for frozen
  nodes, which do not check, and down-stream entries, which last 30 s.
  `UplinksAcyclic` depends on it: without `Settled` TLC builds a ring.
* `Heard`: when a node gives a proposal up, or has restarted, the LOCATE that the
  proposal answers is on the air nowhere any more: that took milliseconds, a proposal
  lasts 2 s and a boot seconds.

A handler or a callback is one step, with one exception that changes what the other
nodes see: the WiFi task may preempt `timer_cb_pending_link` between clearing the flag
(236) and the peer (237), the address (238) and the id (239), and handle a LOCATE
there.  `InterruptedTimeout` is the callback with that handler in one of the three
gaps.  In the first, `esp_now_del_peer` removes the peer just added, and the old one
stays for good; if the sender of the LOCATE was a child (restarted, its entry not yet
decayed), the child loses its own peer.  In the first two the address of the new
proposal is wiped, in all three its id, while its timer runs: its LINK has no
destination when it is sent and goes to every node.  `raced` are the nodes whose peer
list is wrong since; only a restart puts it right, and a leaked peer that searches
again makes the node stuck as in finding 1.  Not followed is a race on a node that
another one, stuck by finding 1, still has for its `pending_id`: the guard
`\A x : pending[x] # m` leaves it out, and nothing is claimed there.  (The stray LINK
would pass for the confirmation of a proposal that was never made.)  That no *open*
proposal has the node for its target follows from the times: it has a parent, and its
search of 1 s was over before its parent's proposal.

`Forest` is the abstraction of the up-links: a node that is nobody's parent attaches
itself to another, a node detaches itself.  `ImplementsForest` maps its `parent` to
`up`, every frame, timer and peer aside; handlers and most callbacks stutter.

### NodeTasks

The same link table seen by one node, with the actual interleavings.  The WiFi
task preempts the timer task (same core, higher priority) between any two of its
accesses, never the other way round (`WifiIdle` guards the timer task).  A
caller of `net_send_down` and `worker_send` run on the other core, next to both.
`usage &= ~bit` is a load and a store.  The children are the environment.
`Hears` uses that frames of one node are seconds apart, a callback milliseconds;
`Drained` that the frames queued for a node have left when it next searches or
confirms.  `timer_cb_pending_link` may begin whenever its timer runs.  An assertion that fails resets the node (`Abort`): that of
`net_send_raw` does when `net_send_down` reads an entry between its usage bit and
its id (`SendAborts`).

### NodeUplink

The other half of the same node: `node.flags` as one word with a load and a store
for each `|=` and `&= ~` of a callback, the up-stream entry with its usage bit and
its id apart, all timers, the status check, FREEZE, and `net_send_up` in a task of
the other core.  A handler of the WiFi task is one step, because nothing on its core
preempts it; a callback is cut at every access (`CheckFires`, `CheckTimer`,
`CheckLoad`, `CheckStore`, `CheckAgain` for `timer_cb_upstream`).  `Unfreeze` keeps
the early return at the first timer that runs already.  Three things the model shows
and the properties therefore except, each as narrowly as possible:

* an answer handled before `timer_cb_upstream` has set STATE_UPLINK_STATUS is
  ignored, and the node blacks out 1 s later (`heard` leaves these answers out);
* a FREEZE that meets a callback in progress can be undone by the store of the
  callback, or leave a link without a timer for good (`raced`);
* `net_send_up` between usage bit and id fails an assertion (`SendUpAborts`).

### NetData and Bounce

The nodes form a fixed tree under the debug root or the gateway; links on it come
and go.  A frame leaves the queue, is addressed (`Receivers`), sent and handled in
one step, any receiver may miss it, and a full queue drops what does not fit.  A
frame whose destination is no longer a link goes to all peers, as in `find_mac`;
a node that gets such a frame twice from the radio is not modelled.  `Late` is the
lookup that does not get the lock within a tick.  A link breaks by the decay of a
running child, by a restart, and forms again (`Decay`, `Restart`, `Rejoin`): that
much of `LinkLayer` a queued frame can see.

`Bounce` adds the application on any subset of the nodes.  A payload is what is left
of its life and, as history, the number of the leg it is on and the direction of
that leg.  The bound is one message, or one MAP request of the gateway.

### Sensor

Periods are multiples of a second and the time a turn takes is subtracted from the
timer (`app_sensor.c:97-99`), so the clock is `Tick`, one second; everything that is
due within a second happens in any order, which stands for the jitter of the timers.
Reports arrive or are lost within the second.  One reading is followed: a report
says how often its totals count it.  Minimum, maximum and the ids that go with them
are left out, and so is the limit of 65535 tenths of a second: the period of a node
is bounded by the depth of the tree.

A lookup of the application that does not get its lock within a tick is `Late`.  In
`espnow_recv` the report then counts as one for nobody and is passed on up past the
node (`PassOn`; `via` is who sent it last); in `net_receive` the turn ends with
reports left in the queue (`Wake` takes the first `k`).  `push_cache` finds an entry:
a turn takes at most the six reports of the queue, and the cache has eight entries.

### Collatz

Numbers are counted in blocks from the common first base.  Every critical
section is one action: `PickBlock`, `SkipDone`/`StartBlock` (first section of
`compute_block`), `FinishBlock` (last one), `Overflow`, `ReceiveReport`,
`RelayUp`, `ProcessReport`.  The index that `pick_block` returned (`picked`) and
the report the comm task has forwarded but not yet processed (`comm`) are state
of their own, because both are used after the mutex was free.  `Shift`,
`Advance`, `Rebase`, `Mark` and `Fold` are the pieces of `shift_blocks`,
`report_my_progress` and `process_report`.  The tree is fixed; a report is lost
or in the inbound queue of the receiver.  `started` and `verified` are history.

`Ledger` is the abstraction: per node a set of blocks held for done and a running
job, no frames, shifts or reports.  `ImplementsLedger` maps the set to `LedgerDone`
(every block below the base, and those marked in the frame) and the job to
`LedgerJob`.  That a frame shift loses nothing, that a rebased report never adds a
block nobody started and that the right block is credited is in the step relation
of `Ledger`.

### RlInt and CollatzBlock

`RlInt` keeps all `INT_LEN` words, those beyond `len` included.  The loops become
functions over the words (`Carries`, `Words`, `Trim`).  `CollatzBlock` runs
`compute_block` and the moves of the base on them, next to the exact integers.
`Value`, the number that words stand for, is a sum over the words (`Lowest`) with the
powers of the base (`Weight`); it and everything named exact is reference, not code.
That `BLOCKSIZE` is even (`collatz.c:44-47`) and the first base odd is assumed, because
`compute_block` steps through the odd numbers by twos.

## Runs

| run | instance | states | checks |
|---|---|---|---|
| `link_trio` | root and 2 nodes, 2 down-stream entries, queue of 2, all may lose power, races on all | 570 k | safety of links; implements `Forest` |
| `link_live` | root and 2 nodes, 1 entry, one loses power, one is frozen | 36 k | half-open and stale links end; frozen nodes keep theirs |
| `link_pending` | root and 1 node | | finding 1 |
| `node_tasks` | 2 children, 2 entries, queue of 2 | 1.60 M | no entry is lost for good |
| `node_decay` | same | | finding 3 |
| `node_uplink` | 3 down-stream entries | 119 k | answers, proposals, FREEZE and status checks under preemption |
| `bounce` | 4 nodes in 3 levels, 2 down-stream entries, queues of 4 and 2, life 2, 1 fault | 513 k | one copy, one direction, the map, silence |
| `sensor` | 4 nodes in 3 levels, periods of 3 to 5 s, queue of 4, 1 loss, 1 late lookup | 1.21 M | counted once, queue suffices, no missed round |
| `collatz_pair` | 2 nodes, frames of 2 blocks, one overflows, 1 restart | 1.31 M | all safety properties; implements `Ledger` |
| `collatz_live` | 3 nodes in a chain, one block overflows | 193 k | progress, reports die out although they are relayed and echoed |
| `collatz_false_done` | 2 nodes | | finding 2 |
| `collatz_block` | 4 words of 2 bits, blocks of 4, every odd base | 71 k | arithmetic against exact numbers |

Why the bounds suffice to be interesting.  In `link_trio` a node can have two
proposers, a table can be full, a proposal can be open while another LOCATE
arrives, a sub-tree of depth two can black out from below an orphaned middle
node, and a full queue drops frames; `IdentMod = 2` lets `loc_ident` come round.
`Racing` are the nodes whose `timer_cb_pending_link` may meet a LOCATE; in `link_trio`
the two nodes besides the root are interchangeable (symmetry), the states are those of
a symmetric half.
In `node_tasks` an entry can be freed, formed and confirmed for two different
children at once.  In `node_uplink` three entries are enough for a proposal next to a
child, for an unfreeze that stops at the first running timer, and for a lost
STATE_PENDING_LINK.  In `bounce` a packet crosses nodes with and without the
application in both directions, splits at a node with two children and fills its
queue; `MaxFaults` counts restarts, links that break under a running child and late
lookups together; `Leg` has more numbers than copies are ever under way.  In `sensor`
three levels make periods adapt twice; the queue has two places per child, as 6 are
for 3 children in the code, and with one place less `QueueSuffices` fails; `MaxLosses`
and `MaxLates` bound what the radio and the lookups do to one run.  In
`collatz_pair` a frame of two blocks is shifted by less than, exactly and more than
its length, under a running job; `Horizon` bounds the base from which blocks are
still picked, `MaxRestarts` the restarts.  In `collatz_block` numbers of one to four
words occur, 3n+1 reaches exactly the first number that does not fit (as for the
code's 300 bits), and every start up to the largest number is covered.

Deadlock is checked except where the bounded system stops: in the Collatz modules no
block is picked beyond `Horizon`, an overflow ends the compute task, and
`CollatzBlock` ends with it; `Bounce` falls silent after its message.

Fairness.  `LinkLayer!FairSpec` asks weak fairness of the tasks of a running
node: the worker sends (highest priority on its core), the WiFi task handles what
arrives, running timers fire and a restart completes.  It asks none of receiving
(any frame may be lost each time), of searching or of power loss, so the liveness
properties only say that wrong links end, never that a node finds a parent.
`NodeUplink!FairSpec` asks that a callback in progress goes on, that a restart
completes, and strong fairness of the two timers of the parent: `esp_timer` serves
expired timers in the order of their alarms, so others cannot keep one from its turn
for ever.  `Bounce!FairSpec` asks only that some worker or callback goes on: the
frames are finitely many, and nothing is asked of receiving, restarts or links.
`Sensor!FairSpec` asks that time goes on.  `Collatz!FairSpec` asks weak fairness of
both tasks of a node.  The compute task has the idle priority, but the tasks above
it sleep: `collatz_comm` delays at least 20 ms after each report and the shell 50 ms
after each empty read.

Properties TLC checks and nothing proves are the liveness properties, as liveness
under fairness is beyond the prover: `HalfOpenResolved`, `StaleChildDecays`,
`KeepsChecking`, `MapComplete`, `FallsSilent`, `NoMissedRound`, `Progress`,
`ReportsDieOut`.  Every invariant, action property and refinement of a passing run is
a theorem as well.

## Proofs

Every theorem holds for all values of the constants that satisfy the assumptions of
the module it is about; TLC evaluates those assumptions on each run.  The inductive
invariants were checked by TLC, on the instances above or smaller ones, before they
were proved.  The provers cannot do induction over data.  Where one is needed (the loops
over the link table and over words, the path to the root) a proof takes a *least
counter-example* instead: an element of an explicit set of naturals or nodes.

**`CollatzProofs`**: `Spec => []Inv` for every tree, frame length, queue and
Overflowing set, from the assumptions on the constants in `Collatz`.  `Inv`
holds of each node: types, first block not done, and the running job is the
block the loop was started on and still taken, or it was dropped and its block counts
as done here, be it by this node's own report (`CreditCorrect`, `DroppedCountsAsDone`;
finding 2 is why no more can be said).  For "no block is skipped"
it adds that what a frame, a queued report or the report in the hands of the comm
task calls done *or taken* was started, which is what makes reports inductive:
a report carries its sender's knowledge to frames with another base.  Lemmas
state what `Shift`, `Advance`, `Mark` and `Fold` do to the status of an absolute
block; each action is then one step.  `NoRegress` follows from the same lemmas.

The last part is `Spec => ImplementsLedger`, from `Inv` and those lemmas.  Each
action of `Collatz` is matched with its step of `Ledger`, or a stutter; what a
report adds is a subset of what was started because of the part of `Inv` above.

**`LinkLayerProofs`**: `Spec => []IInv` with `IInv == TypeOK /\ LocalInv`, a
property of each node alone: the timers, flags and entries agree, a searching
node is an orphan without a proposal, an open proposal has a free entry.
`UplinksAcyclic` needs more (`QuietInv`): when a node starts or runs a search, no
node has it as a parent, no proposal to it is open, it is nobody's answer, so the
edge `ChooseParent` adds starts at a node without children-by-up-link and cannot
close a ring.  `Settled` establishes this at `Join`.  The theorem assumes
`Freezable = {}`: a node frozen through a restart of its parent keeps its
up-link beyond the 23 s, and nothing is claimed then.  `LinkLayerImplementsForest`
follows from the same invariants: only `ChooseParent` and `Boot` change an up-link.

What the two ends of a link know of each other is `LinkInv`, over pairs of nodes.  A
LINK frame on its way is a proposal or a confirmation, and nothing in it says which; so
`LinkInv` ties each to what its sender did: at most one per receiver is on the way, it
goes to the node its proposal is open to or to the parent it has chosen, a node
whose proposal is still on its way has not been chosen, and a proposal is open only to
a node that is no link yet.  The proposal of an interrupted `timer_cb_pending_link` is
`Wiped`: its LINK strays to every node, and is harmless because nobody has its sender
for an open proposal.  Peers are the links and the node proposed to (`PeersInv`); on a
node in `raced` what is left of that is that every link has its peer, unless the node
makes no more proposals (`Stuck`).  `SearchInv`
says that a node which starts to look for a parent has no LINK on its way and is
nobody's answer, again from `Settled`.  `NoDuplicateLink` and `PeersMatchLinks` are
conjuncts; `AdoptsOnlyItsChildren` is what `LinkInv` says of a LINK at the moment it
forms a down-link.  These and `FrozenKeepsLinks` need no assumption on `Freezable`,
and none of the theorems one on `Racing`.

**`NodeTasksProofs`**: `Spec => []IInv`.  A used entry has a running decay timer,
or the WiFi task is forming it, or the timer task is about to clear it.  The
interesting case is the store of a stale copy (`DecayStore`): it can only lose
entries, because the copy is a subset of the present `usage` (only the timer task
clears bits, and it is the one that holds the copy).  So an entry may be lost
early, and its timer then fires on an unused entry (finding 3), but never kept.

**`NodeUplinkProofs`**: `Spec => []IInv` for every table size.  `IInv` says of each
place in a callback what the WiFi task may have changed since the load: for instance
that once `timer_cb_upstream` has returned with its check unanswered the flag is
set, because the only stores of an older copy are in callbacks, which come one at a
time.  `AnswerSaves`, `ReservedSlot` and `FreezeIsExact` are conjuncts or follow.

**`BounceProofs`**: `Spec => []IInv` for every tree, table, queue and number of
faults.  `IInv` says which frames may be in the queue of a node: `Seq(Good(n))`, so
that one lemma per queue operation carries both types and directions.  A hop is
`HopLemma`: the receiver finds in its own table the direction the sender meant, as no
two nodes are each other's parent.  A copy sent to all peers because its link has gone
is `strayed` and promised nothing.  That the loop over the link table yields children
only (`NthIsUsed`) is proved from a least counter-example.

`OneCopyPerPath` needs that two copies of a leg are nowhere on one path to the root
and that both go down (`Paths`), and that no link is in a table twice (`Distinct`).  A
*place* is an entry of a queue; `MoveLemma` says that `Paths` survives a step when every
copy comes from where it was, or one hop further, and copies that come from the same
place go to different children.  That children of one node are apart, and that what
goes down from nodes that are apart stays so, is about the tree alone, from
`AcyclicAssumption`: every set of nodes has one whose parent is not in it.

**`SensorProofs`**: `Spec => []IInv` for every tree whose depth bounds the periods
(`DepthAssumption`).  `CountedOnce` is `Once`: at most one place (on the air, an entry
of a queue, the total of the gateway) carries the reading that is followed, and none
before it is taken.  `QueueSuffices`, claimed until a lookup is late, is about timers,
as nothing else holds a child back: `Window` says how far the timer of a child is ahead of its parent's when one of
its reports is waiting, and when two are, and that in a turn there is no third; with
periods that grow or fall back to the default in between.  It is where the default
period must exceed what the levels of the tree add to it: the theorem assumes `Shallow`,
`MaxPeriod < 2 * DEFAULT_PERIOD` (ten seconds in the code: up to ten levels) and two
entries per child (three children fill the six entries).

**`RlIntProofs`** says of each operation on words what it does to `Value`: `rl_add` and
`rl_f3n1` multiply and add, and report an overflow exactly when the result does not fit
(`MulAddLemma`); `rl_fdiv2` divides by all factors of two (`HalvingLemma`); the
comparisons order the values (`CompareLemma`).  All keep the normal form: words below
the base and no leading 0.  That the recursive functions obey their
equations is a lemma first (`Recursion`).

**`CollatzBlockProofs`**: `Spec => []IInv` for every number and width of words, block and
frame size and odd first base.  As long as nothing overflowed the words are the exact
numbers (`ExactWords`), and each turn of the loop is one of those lemmas.  That no odd
number is skipped needs the parity of base, block size and `i` (`LevelFollows`).  After
an overflow of the *other* task the loop goes on with words that no longer mean a
number; that they keep to their bits (`WordsFit`) needs that every number in use has a
word (`HaveWords`).

## What disagreed

1. `link_pending`: `net_layer.c:400-404` lists when a node answers a LOCATE, among
   them that it is "not already [...] awaiting a response".  A node whose old child
   lost power and searches again still has it as a peer; `esp_now_add_peer`
   refuses, the handler breaks off, and `STATE_PENDING_LINK` (set at 410) is never
   cleared: it proposes to nobody any more, until it restarts.
2. `collatz_false_done`: a base is meant to be "blocks done -- offset"
   (`collatz.c:72`).  `process_report` ends with `report_my_progress(0)`; when that
   moves the base it sends the whole job as DONE (228-229), with the `block_id`
   still being computed.  Others count the block as done; if the node then
   restarts or overflows, nobody ever verifies it.
3. `node_decay`: the assertion in `timer_cb_downstream` (345) can fail, after a
   STATUS restarted the timer of the entry that is being freed.

Three more things are no runs of their own, but the properties that hold are stated so
that they do not hide them.

* The follow-up of finding 2 also comes back to its sender, since the root sends every
  report down again (460).  The node then takes its own claim for the news that another
  one has finished ("our current computation is obsolete", 309-313) and drops the only
  computation of the block (388).  `DroppedCountsAsDone` says no more than that a
  dropped block counts as done on that node.
* A packet queued for a child whose entry decays before it is sent (the destination is
  looked up again at `net_layer.c:1116`) goes to all peers, and the parent, finding it
  came from a child (623), sends it back up.  `LegsKeepDirection` excepts such copies
  (`strayed`); `OneCopyPerPath` does too.
* A LOCATE that meets `timer_cb_pending_link` leaks a peer or takes one from a child
  (see `LinkLayer`).  `PeersMatchLinks` excepts the node it happens on.  `link_trio`
  has this race on every node; the liveness of `link_live` is checked without it.

## Not modelled

* The shell, stack and variables, data sets and background tasks.
  `check_what_came_in` ends with `vTaskDelete(NULL)` (`main.c:96`) in the task that
  reads lines: a boot executes one command.  The hazards of these parts (the list of
  factor tasks without its semaphore, `get_result` after `free`, the uninitialised
  `next` pointer of a data set, a stack used by two commands) need two commands, so
  no behaviour of this program shows them.  `factor(0)` loops for ever, a fact about
  one loop.
* The DHT driver: bit timing, and a handshake with one reader; nothing starts it.
* The application table (`net_register_app`): in this build `collatz_init` registers
  the only application, once, before the first frame can arrive.
* Failing esp_timer and esp_now calls other than the refused peer.
* A race of `timer_cb_pending_link` on a node that is the target of a proposal stuck by
  finding 1 (see `LinkLayer`).
* The loop of `exec_blackout` over the entries, and of MAP and `net_send_down` over
  them, interleaved with changes of the entries beyond what `NodeTasks` does for
  `net_send_down`.
* Ids that are not unique, other networks, malformed frames (`valid_packet`
  rejects them).
* `rl_str`, the LED, logging.

## Done and left

Done: the links, the tasks of a node, data frames with the bounce application, the
sensor application, Collatz and its arithmetic; two abstractions and the proofs that
they are implemented; every invariant, action property and refinement that a run
checks proved.

Left: `UplinksAcyclic` and `ImplementsForest` with frozen nodes need to know how long a
freeze may last, and nothing in the repository says that.  The composition of
`LinkLayer` with `NetData`, which share their table in the code and meet here only in
`Decay`, `Restart` and `Rejoin`.
