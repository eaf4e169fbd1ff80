-------------------------- MODULE LinkLayerProofs --------------------------
(***************************************************************************)
(* Theorems about LinkLayer for any number of nodes, any table size, any   *)
(* queue capacity and any faults.                                          *)
(*                                                                         *)
(* IInv is the inductive invariant: the types, the bound of the outbound   *)
(* queue, and for each node on its own what its flags, timers and link     *)
(* table say about one another (LocalInv).  QuietInv, inductive given      *)
(* IInv, says what a node that looks for a parent cannot have left in the  *)
(* network; the up-links are acyclic because of it.                        *)
(***************************************************************************)
EXTENDS LinkLayer, FiniteSetTheorems, WellFoundedInduction, TLAPS

-----------------------------------------------------------------------------
(***************************************************************************)
(* The invariant.                                                          *)
(***************************************************************************)

QueuesBounded == \A n \in Node : Len(out[n]) <= OutCap

\* What the state of one node says about itself.
LocalInv(n) ==
  /\ "PENDING_LINK" \in flags[n] => FreeSlots(n) # {}
  /\ decay[n] = (IF "FROZEN" \in flags[n] THEN {} ELSE Used(n))
  /\ "up" \in timers[n] <=> up[n] # None /\ "FROZEN" \notin flags[n]
  /\ "FROZEN" \in flags[n] => up[n] # None
  /\ "LOCATING" \in flags[n] <=> "locate" \in timers[n]
  /\ "status" \in timers[n] => "UPLINK_STATUS" \in flags[n]
  /\ "UPLINK_STATUS" \in flags[n] => "status" \in timers[n] \/ "timer" \in blocked[n]
  /\ "pending" \in timers[n] => "PENDING_LINK" \in flags[n] /\ (pendingMac[n] # None \/ n \in raced)
  /\ n \in raced => HasUplink(n)
  /\ timers[n] \cap {"join", "locate"} # {} =>
       ~ HasUplink(n) /\ Children(n) = {} /\ "PENDING_LINK" \notin flags[n]
  /\ ~ ("join" \in timers[n] /\ "locate" \in timers[n])

IInv == TypeOK /\ QueuesBounded /\ \A n \in Node : LocalInv(n)

\* A node that looks for a parent has no LINK frame on its way.
NoLinkFrames(n) ==
  /\ air[n].frame.type # "LINK"
  /\ \A k \in 1 .. Len(out[n]) : out[n][k].type # "LINK"

\* While no node is frozen: a node that waits for proposals is nobody's parent
\* and nobody considers it.
QuietInv ==
  \A n \in Node :
    /\ "FROZEN" \notin flags[n]
    /\ timers[n] \cap {"join", "locate"} # {} => NoLinkFrames(n)
    /\ "locate" \in timers[n] => \A m \in Node : up[m] # n /\ n \notin responses[m]

-----------------------------------------------------------------------------
(***************************************************************************)
(* Lemmas about the helpers.                                               *)
(***************************************************************************)

LEMMA SlotsFinite == IsFiniteSet(Slot)
  BY FS_Interval, TableAssumption DEF Slot

LEMMA UsedFinite ==
  ASSUME NEW n \in Node
  PROVE  Used(n) \subseteq Slot /\ Cardinality(Used(n)) \in Nat
<1>1. Used(n) \subseteq Slot
  BY DEF Used
<1>2. IsFiniteSet(Used(n))
  BY <1>1, SlotsFinite, FS_Subset
<1> QED
  BY <1>1, <1>2, FS_CardinalityType

\* has_available_downlinks finds a free entry if there is one.
LEMMA FreeSlotIsFree ==
  ASSUME NEW n \in Node, FreeSlots(n) # {}
  PROVE  FreeSlot(n) \in FreeSlots(n)
<1>1. FreeSlots(n) \subseteq Slot
  BY DEF FreeSlots
<1>2. FreeSlots(n) \subseteq Nat
  BY <1>1, TableAssumption, SMT DEF Slot
<1>3. PICK i \in FreeSlots(n) : \A j \in FreeSlots(n) : <<j, i>> \notin OpToRel(<, Nat)
  BY <1>2, NatLessThanWellFounded, WFMin
<1>4. \A j \in FreeSlots(n) : i <= j
  <2> TAKE j \in FreeSlots(n)
  <2>1. i \in Nat /\ j \in Nat
    BY <1>2
  <2>2. ~ (j < i)
    BY <1>3, <2>1 DEF OpToRel
  <2> QED
    BY <2>1, <2>2, SMT
<1> QED
  BY <1>4 DEF FreeSlot

\* A frame put into the queue keeps its type and its bound.
LEMMA EnqueueLemma ==
  ASSUME NEW q \in Seq(Frame), Len(q) <= OutCap, NEW f \in Frame
  PROVE  /\ Enqueue(q, f) \in Seq(Frame)
         /\ Len(Enqueue(q, f)) <= OutCap
         /\ \A k \in 1 .. Len(Enqueue(q, f)) :
              Enqueue(q, f)[k] = f \/ (k \in 1 .. Len(q) /\ Enqueue(q, f)[k] = q[k])
<1>1. CASE Len(q) < OutCap
  BY <1>1, QueueAssumption, SMT DEF Enqueue
<1>2. CASE ~ (Len(q) < OutCap)
  BY <1>2, SMT DEF Enqueue
<1> QED
  BY <1>1, <1>2

\* What Send does to the queues.
LEMMA SendLemma ==
  ASSUME TypeOK, QueuesBounded,
         NEW n \in Node, NEW type \in {"LOCATE", "LINK", "STATUS", "BLACKOUT"},
         NEW dst \in Node \cup {None}, NEW id \in Ident,
         Send(n, type, dst, id)
  PROVE  /\ out' \in [Node -> Seq(Frame)]
         /\ QueuesBounded'
         /\ \A m \in Node \ {n} : out'[m] = out[m]
         /\ type # "LINK" =>
              \A k \in 1 .. Len(out'[n]) : out'[n][k].type = "LINK" =>
                k \in 1 .. Len(out[n]) /\ out[n][k].type = "LINK"
<1> DEFINE f == [type |-> type, dst |-> dst, ident |-> id]
<1>1. f \in Frame
  BY DEF Frame
<1>2. out \in [Node -> Seq(Frame)] /\ out[n] \in Seq(Frame) /\ Len(out[n]) <= OutCap
  BY DEF TypeOK, QueuesBounded
<1>3. /\ Enqueue(out[n], f) \in Seq(Frame)
      /\ Len(Enqueue(out[n], f)) <= OutCap
      /\ \A k \in 1 .. Len(Enqueue(out[n], f)) :
           \/ Enqueue(out[n], f)[k] = f
           \/ k \in 1 .. Len(out[n]) /\ Enqueue(out[n], f)[k] = out[n][k]
  BY <1>1, <1>2, EnqueueLemma
<1>4. out' = [out EXCEPT ![n] = Enqueue(out[n], f)]
  BY DEF Send
<1>5. f.type = type
  OBVIOUS
<1> HIDE DEF f
<1>6. out'[n] = Enqueue(out[n], f) /\ \A m \in Node \ {n} : out'[m] = out[m]
  BY <1>2, <1>4
<1>7. out' \in [Node -> Seq(Frame)]
  BY <1>2, <1>3, <1>4
<1>8. QueuesBounded'
  BY <1>3, <1>6 DEF QueuesBounded
<1>9. ASSUME type # "LINK", NEW k \in 1 .. Len(out'[n]), out'[n][k].type = "LINK"
      PROVE  k \in 1 .. Len(out[n]) /\ out[n][k].type = "LINK"
  BY <1>3, <1>5, <1>6, <1>9
<1> QED
  BY <1>6, <1>7, <1>8, <1>9

\* What exec_blackout does to the queues.
LEMMA BlackoutLemma ==
  ASSUME TypeOK, QueuesBounded, NEW n \in Node, NEW task, ExecBlackout(n, task)
  PROVE  /\ out' \in [Node -> Seq(Frame)]
         /\ QueuesBounded'
         /\ \A m \in Node \ {n} : out'[m] = out[m]
         /\ \A k \in 1 .. Len(out'[n]) : out'[n][k].type = "LINK" =>
              k \in 1 .. Len(out[n]) /\ out[n][k].type = "LINK"
         /\ \A k \in 1 .. Len(out'[n]) : out'[n][k].type # "BLACKOUT" =>
              k \in 1 .. Len(out[n]) /\ out'[n][k] = out[n][k]
<1> DEFINE room == OutCap - Len(out[n])
           k == IF Cardinality(Used(n)) < room THEN Cardinality(Used(n)) ELSE room
<1>1. out[n] \in Seq(Frame) /\ Len(out[n]) \in Nat /\ Len(out[n]) <= OutCap /\ OutCap \in Nat
  BY QueueAssumption DEF TypeOK, QueuesBounded
<1>2. k \in Nat /\ Len(out[n]) + k <= OutCap
  BY <1>1, UsedFinite, SMT
<1>3. PICK entry \in [1 .. k -> Used(n)] :
        out' = [out EXCEPT ![n] = @ \o [j \in 1 .. k |->
                  [type |-> "BLACKOUT", dst |-> down[n][entry[j]], ident |-> 0]]]
  BY DEF ExecBlackout
<1> DEFINE b == [j \in 1 .. k |-> [type |-> "BLACKOUT", dst |-> down[n][entry[j]], ident |-> 0]]
<1>9. \A j \in 1 .. k : b[j].type = "BLACKOUT"
  OBVIOUS
<1>4. b \in Seq(Frame) /\ Len(b) = k
  <2>1. ASSUME NEW j \in 1 .. k
        PROVE  [type |-> "BLACKOUT", dst |-> down[n][entry[j]], ident |-> 0] \in Frame
    <3>1. entry[j] \in Slot
      BY <1>3, UsedFinite
    <3>2. down[n][entry[j]] \in Node \cup {None}
      BY <3>1 DEF TypeOK
    <3>3. 0 \in Ident
      BY IdentAssumption, SMT DEF Ident
    <3> QED
      BY <3>2, <3>3 DEF Frame
  <2> HIDE DEF k
  <2>2. b \in [1 .. k -> Frame]
    BY <2>1
  <2> QED
    BY <1>2, <2>2, SMT
<1> HIDE DEF b, k
<1>5. out' = [out EXCEPT ![n] = out[n] \o b]
  BY <1>3 DEF b
<1>6. out[n] \o b \in Seq(Frame) /\ Len(out[n] \o b) <= OutCap
  BY <1>1, <1>2, <1>4, SMT
<1>7. out \in [Node -> Seq(Frame)]
  BY DEF TypeOK
<1>8. out'[n] = out[n] \o b /\ \A m \in Node \ {n} : out'[m] = out[m]
  BY <1>5, <1>7
<1>10. ASSUME NEW j \in 1 .. Len(out'[n]), out'[n][j].type # "BLACKOUT"
       PROVE  j \in 1 .. Len(out[n]) /\ out'[n][j] = out[n][j]
  <2>1. Len(out[n] \o b) = Len(out[n]) + k
    BY <1>1, <1>4, SMT
  <2>2. CASE j \in 1 .. Len(out[n])
    <3>1. (out[n] \o b)[j] = out[n][j]
      BY <1>1, <1>4, <2>2, SMT
    <3> QED
      BY <1>8, <2>2, <3>1
  <2>3. CASE j \notin 1 .. Len(out[n])
    <3>1. j - Len(out[n]) \in 1 .. k /\ (out[n] \o b)[j] = b[j - Len(out[n])]
      BY <1>1, <1>2, <1>4, <1>8, <2>1, <2>3, SMT
    <3> QED
      BY <1>8, <1>9, <1>10, <3>1
  <2> QED
    BY <2>2, <2>3
<1>11. ASSUME NEW j \in 1 .. Len(out'[n]), out'[n][j].type = "LINK"
       PROVE  j \in 1 .. Len(out[n]) /\ out[n][j].type = "LINK"
  BY <1>10, <1>11
<1> QED
  BY <1>5, <1>6, <1>7, <1>8, <1>10, <1>11 DEF QueuesBounded

\* A frame that is partly received stays the same frame.
LEMMA ConsumeLemma ==
  ASSUME TypeOK, NEW n \in Node, NEW m \in Node, Consume(n, m)
  PROVE  /\ air' \in [Node -> [to : SUBSET Node, frame : Frame \cup {NoFrame}]]
         /\ \A k \in Node \ {n} : air'[k] = air[k]
         /\ air'[n].frame = air[n].frame \/ air'[n].frame = NoFrame
<1>1. /\ air \in [Node -> [to : SUBSET Node, frame : Frame \cup {NoFrame}]]
      /\ air[n].to \in SUBSET Node /\ air[n].frame \in Frame \cup {NoFrame}
  BY DEF TypeOK
<1> DEFINE R == air[n].to \ {m}
           a == [to |-> R, frame |-> IF R = {} THEN NoFrame ELSE air[n].frame]
<1>2. a \in [to : SUBSET Node, frame : Frame \cup {NoFrame}]
  BY <1>1
<1>3. a.frame = air[n].frame \/ a.frame = NoFrame
  OBVIOUS
<1>4. air' = [air EXCEPT ![n] = a]
  BY DEF Consume
<1> HIDE DEF a
<1> QED
  BY <1>1, <1>2, <1>3, <1>4

\* What the frame on the air of a node is.
LEMMA AirLemma ==
  ASSUME TypeOK, NEW n \in Node, air[n].frame.type # "NONE"
  PROVE  air[n].frame \in Frame /\ air[n].frame.ident \in Ident
  BY DEF TypeOK, Frame, NoFrame

-----------------------------------------------------------------------------
(***************************************************************************)
(* Types and the bound of the queues.                                      *)
(***************************************************************************)

NodeTypes ==
  /\ flags     \in [Node -> SUBSET Flag]
  /\ up        \in [Node -> Node \cup {None}]
  /\ down      \in [Node -> [Slot -> Node \cup {None}]]
  /\ peers     \in [Node -> SUBSET Node]
  /\ pending   \in [Node -> Node \cup {None}]
  /\ pendingMac \in [Node -> Node \cup {None}]
  /\ raced     \subseteq Node
  /\ ident     \in [Node -> Ident]
  /\ responses \in [Node -> SUBSET Node]
  /\ timers    \in [Node -> SUBSET Timer]
  /\ decay     \in [Node -> SUBSET Slot]
  /\ blocked   \in [Node -> SUBSET {"wifi", "timer"}]

QueueTypes == out \in [Node -> Seq(Frame)] /\ QueuesBounded
AirTypes   == air \in [Node -> [to : SUBSET Node, frame : Frame \cup {NoFrame}]]

Typed == NodeTypes /\ QueueTypes /\ AirTypes

LEMMA TypedLemma == Typed <=> TypeOK /\ QueuesBounded
  BY DEF Typed, NodeTypes, QueueTypes, AirTypes, TypeOK

LEMMA OutUnchanged == QueueTypes /\ UNCHANGED out => QueueTypes'
  BY DEF QueueTypes, QueuesBounded

LEMMA AirUnchanged == AirTypes /\ UNCHANGED air => AirTypes'
  BY DEF AirTypes

LEMMA TypeInit == Init => Typed
<1> SUFFICES ASSUME Init PROVE Typed
  OBVIOUS
<1>1. NodeTypes
  BY DEF Init, NodeTypes, FirstTimers, Timer
<1>2. out \in [Node -> Seq(Frame)] /\ QueuesBounded
  BY QueueAssumption, SMT DEF Init, QueuesBounded
<1>3. AirTypes
  BY DEF Init, AirTypes, Silence
<1> QED
  BY <1>1, <1>2, <1>3 DEF Typed, QueueTypes

LEMMA TypeHandle ==
  ASSUME Typed, NEW n \in Node, NEW m \in Node, Handle(n, m)
  PROVE  Typed'
<1>0. TypeOK /\ QueuesBounded
  BY TypedLemma
<1> USE DEF Receive
<1>1. AirTypes'
  <2>1. Consume(n, m)
    BY DEF Handle, ProposeLink, NoteProposal, AdoptChild, FormDownlink, StatusFromParent,
           StatusFromChild, ObeyBlackout
  <2> QED
    BY <1>0, <2>1, ConsumeLemma DEF AirTypes
<1>2. CASE ProposeLink(n, m)
  <2>1. NodeTypes'
    <3>1. /\ flags' \in [Node -> SUBSET Flag]
          /\ pending' \in [Node -> Node \cup {None}]
          /\ pendingMac' \in [Node -> Node \cup {None}]
      BY <1>2 DEF ProposeLink, Typed, NodeTypes, Flag
    <3>2. /\ peers' \in [Node -> SUBSET Node]
          /\ timers' \in [Node -> SUBSET Timer]
      <4>1. CASE AddRefused(m, n)
        BY <1>2, <4>1 DEF ProposeLink, Typed, NodeTypes
      <4>2. CASE ~ AddRefused(m, n)
        <5>1. /\ peers' = [peers EXCEPT ![m] = @ \cup {n}]
              /\ timers' = [timers EXCEPT ![m] = @ \cup {"pending"}]
          BY <1>2, <4>2 DEF ProposeLink
        <5>2. timers[m] \cup {"pending"} \in SUBSET Timer
          BY DEF Typed, NodeTypes, Timer
        <5>3. timers' \in [Node -> SUBSET Timer]
          BY <5>1, <5>2 DEF Typed, NodeTypes
        <5>4. peers' \in [Node -> SUBSET Node]
          BY <5>1 DEF Typed, NodeTypes
        <5> QED
          BY <5>3, <5>4
      <4> QED
        BY <4>1, <4>2
    <3> QED
      BY <1>2, <3>1, <3>2 DEF ProposeLink, Typed, NodeTypes
  <2>2. QueueTypes'
    <3>1. CASE AddRefused(m, n)
      BY <1>2, <3>1, OutUnchanged DEF ProposeLink, Typed
    <3>2. CASE ~ AddRefused(m, n)
      <4>1. air[n].frame.ident \in Ident
        BY <1>0, <1>2, AirLemma DEF ProposeLink
      <4>2. Send(m, "LINK", n, air[n].frame.ident)
        BY <1>2, <3>2 DEF ProposeLink
      <4> QED
        BY <1>0, <4>1, <4>2, SendLemma DEF QueueTypes
    <3> QED
      BY <3>1, <3>2
  <2> QED
    BY <1>1, <2>1, <2>2 DEF Typed
<1>3. CASE NoteProposal(n, m)
  <2>1. NodeTypes'
    BY <1>3 DEF NoteProposal, Typed, NodeTypes
  <2> QED
    BY <1>1, <1>3, <2>1, OutUnchanged DEF NoteProposal, Typed
<1>4. CASE AdoptChild(n, m)
  <2>1. FreeSlots(m) # {} => FreeSlot(m) \in Slot
    BY FreeSlotIsFree DEF FreeSlots
  <2>2. NodeTypes'
    <3>1. /\ flags' \in [Node -> SUBSET Flag]
          /\ pending' \in [Node -> Node \cup {None}]
          /\ pendingMac' \in [Node -> Node \cup {None}]
          /\ timers' \in [Node -> SUBSET Timer]
      BY <1>4 DEF AdoptChild, FormDownlink, Typed, NodeTypes
    <3>2. CASE FreeSlots(m) = {}
      BY <1>4, <3>1, <3>2 DEF AdoptChild, FormDownlink, Typed, NodeTypes
    <3>3. CASE FreeSlots(m) # {}
      <4>1. down' = [down EXCEPT ![m] = [down[m] EXCEPT ![FreeSlot(m)] = n]]
        BY <1>4, <3>3 DEF AdoptChild, FormDownlink
      <4>2. [down[m] EXCEPT ![FreeSlot(m)] = n] \in [Slot -> Node \cup {None}]
        BY <2>1, <3>3 DEF Typed, NodeTypes
      <4>3. down' \in [Node -> [Slot -> Node \cup {None}]]
        BY <4>1, <4>2 DEF Typed, NodeTypes
      <4>4. decay' \in [Node -> SUBSET Slot]
        <5>1. decay' = [decay EXCEPT ![m] = decay[m] \cup {FreeSlot(m)}]
          BY <1>4, <3>3 DEF AdoptChild, FormDownlink, StartDecay
        <5>2. decay[m] \cup {FreeSlot(m)} \in SUBSET Slot
          BY <2>1, <3>3 DEF Typed, NodeTypes
        <5> QED
          BY <5>1, <5>2 DEF Typed, NodeTypes
      <4> QED
        BY <1>4, <3>1, <4>3, <4>4 DEF AdoptChild, FormDownlink, Typed, NodeTypes
    <3> QED
      BY <3>2, <3>3
  <2> QED
    BY <1>1, <1>4, <2>2, OutUnchanged DEF AdoptChild, FormDownlink, Typed
<1>5. CASE StatusFromParent(n, m)
  <2>1. NodeTypes'
    BY <1>5 DEF StatusFromParent, Typed, NodeTypes
  <2> QED
    BY <1>1, <1>5, <2>1, OutUnchanged DEF StatusFromParent, Typed
<1>6. CASE StatusFromChild(n, m)
  <2>1. NodeTypes'
    <3>1. EntryOf(m, n) \subseteq Slot
      BY DEF EntryOf, Used
    <3>2. /\ decay' = [decay EXCEPT ![m] = @ \cup EntryOf(m, n)]
          /\ UNCHANGED <<flags, up, down, peers, pending, pendingMac, ident, responses, timers,
                         blocked, raced>>
      BY <1>6 DEF StatusFromChild
    <3>3. decay' \in [Node -> SUBSET Slot]
      BY <3>1, <3>2 DEF Typed, NodeTypes
    <3> QED
      BY <3>2, <3>3 DEF Typed, NodeTypes
  <2>2. QueueTypes'
    <3>1. 0 \in Ident
      BY IdentAssumption, SMT DEF Ident
    <3>2. Send(m, "STATUS", n, 0)
      BY <1>6 DEF StatusFromChild
    <3> QED
      BY <1>0, <3>1, <3>2, SendLemma DEF QueueTypes
  <2> QED
    BY <1>1, <2>1, <2>2 DEF Typed
<1>7. CASE ObeyBlackout(n, m)
  <2>1. NodeTypes'
    BY <1>7 DEF ObeyBlackout, ExecBlackout, Typed, NodeTypes
  <2>2. QueueTypes'
    BY <1>0, <1>7, BlackoutLemma DEF ObeyBlackout, QueueTypes
  <2> QED
    BY <1>1, <2>1, <2>2 DEF Typed
<1> QED
  BY <1>2, <1>3, <1>4, <1>5, <1>6, <1>7 DEF Handle

LEMMA TypeInterrupted ==
  ASSUME Typed, NEW n \in Node, NEW m \in Node, InterruptedTimeout(n, m)
  PROVE  Typed'
<1>0. TypeOK /\ QueuesBounded
  BY TypedLemma
<1>1. AirTypes'
  BY <1>0, ConsumeLemma DEF AirTypes, InterruptedTimeout, Receive
<1>2. NodeTypes'
  <2>1. peers' \in [Node -> SUBSET Node] /\ pendingMac' \in [Node -> Node \cup {None}]
    <3>1. peers[m] \ {n} \in SUBSET Node /\ (peers[m] \ {pendingMac[m]}) \cup {n} \in SUBSET Node
      BY DEF Typed, NodeTypes
    <3>2. /\ \E P \in SUBSET Node : peers' = [peers EXCEPT ![m] = P]
          /\ \E x \in Node \cup {None} : pendingMac' = [pendingMac EXCEPT ![m] = x]
      BY <3>1, Zenon DEF InterruptedTimeout
    <3> QED
      BY <3>2 DEF Typed, NodeTypes
  <2>2. raced' \subseteq Node /\ timers' \in [Node -> SUBSET Timer]
    <3>1. raced' = raced \/ raced' = raced \cup {m}
      BY DEF InterruptedTimeout
    <3>2. timers' = timers \/ timers' = [timers EXCEPT ![m] = timers[m] \ {"pending"}]
      BY DEF InterruptedTimeout
    <3> QED
      BY <3>1, <3>2 DEF Typed, NodeTypes
  <2>3. pending' \in [Node -> Node \cup {None}]
    BY DEF InterruptedTimeout, Typed, NodeTypes
  <2>4. UNCHANGED <<flags, up, down, ident, responses, decay, blocked>>
    BY DEF InterruptedTimeout
  <2> QED
    BY <2>1, <2>2, <2>3, <2>4 DEF Typed, NodeTypes
<1>3. QueueTypes'
  <2>1. CASE AddRefused(m, n)
    BY <2>1, OutUnchanged DEF InterruptedTimeout, Typed
  <2>2. CASE ~ AddRefused(m, n)
    <3>1. air[n].frame.ident \in Ident
      BY <1>0, AirLemma DEF InterruptedTimeout, Receive
    <3>2. Send(m, "LINK", n, air[n].frame.ident)
      BY <2>2 DEF InterruptedTimeout
    <3> QED
      BY <1>0, <3>1, <3>2, SendLemma DEF QueueTypes
  <2> QED
    BY <2>1, <2>2
<1> QED
  BY <1>1, <1>2, <1>3 DEF Typed

LEMMA TypeTimer ==
  ASSUME Typed, NEW n \in Node, TimerFires(n)
  PROVE  Typed'
<1>0. TypeOK /\ QueuesBounded
  BY TypedLemma
<1> USE DEF Fires
<1>1. CASE Join(n)
  <2>0. NextIdent(n) \in Ident
    BY <1>0, IdentAssumption, SMT DEF NextIdent, Ident, TypeOK
  <2>1. NodeTypes'
    BY <1>1, <2>0 DEF Join, Typed, NodeTypes, Flag, Timer
  <2>2. QueueTypes'
    BY <1>0, <1>1, <2>0, SendLemma DEF Join, QueueTypes
  <2> QED
    BY <1>1, <2>1, <2>2, AirUnchanged DEF Join, Typed
<1>2. CASE NobodyProposed(n)
  <2>1. NodeTypes'
    BY <1>2 DEF NobodyProposed, Typed, NodeTypes, Timer
  <2> QED
    BY <1>2, <2>1, OutUnchanged, AirUnchanged DEF NobodyProposed, Typed
<1>3. CASE ChooseParent(n)
  <2>1. PICK p \in responses[n] :
         IF AddRefused(n, p)
         THEN /\ timers' = [timers EXCEPT ![n] = @ \ {"locate"}]
              /\ UNCHANGED <<up, peers, responses, out>>
         ELSE /\ peers' = [peers EXCEPT ![n] = @ \cup {p}]
              /\ up' = [up EXCEPT ![n] = IF @ = None THEN p ELSE @]
              /\ timers' = [timers EXCEPT ![n] = (@ \ {"locate"}) \cup {"up"}]
              /\ Send(n, "LINK", p, ident[n])
              /\ responses' = [responses EXCEPT ![n] = {}]
    BY <1>3 DEF ChooseParent, FormUplink
  <2>2. /\ p \in Node
        /\ flags' = [flags EXCEPT ![n] = @ \ {"LOCATING"}]
        /\ UNCHANGED <<down, pending, pendingMac, ident, decay, blocked, raced, air>>
    BY <1>3 DEF ChooseParent, FormUplink, Typed, NodeTypes
  <2>3. CASE AddRefused(n, p)
    <3>1. /\ timers' = [timers EXCEPT ![n] = @ \ {"locate"}]
          /\ UNCHANGED <<up, peers, responses>>
      BY <2>1, <2>3
    <3>2. flags' \in [Node -> SUBSET Flag] /\ timers' \in [Node -> SUBSET Timer]
      BY <2>2, <3>1 DEF Typed, NodeTypes
    <3>3. NodeTypes'
      BY <2>2, <3>1, <3>2 DEF Typed, NodeTypes
    <3> QED
      BY <2>1, <2>2, <2>3, <3>3, OutUnchanged, AirUnchanged DEF Typed
  <2>4. CASE ~ AddRefused(n, p)
    <3>1. flags' \in [Node -> SUBSET Flag]
      BY <2>2 DEF Typed, NodeTypes
    <3>2. up' \in [Node -> Node \cup {None}]
      <4>1. up' = [up EXCEPT ![n] = IF up[n] = None THEN p ELSE up[n]]
        BY <2>1, <2>4
      <4> QED
        BY <2>2, <4>1 DEF Typed, NodeTypes
    <3>5. peers' \in [Node -> SUBSET Node] /\ responses' \in [Node -> SUBSET Node]
      <4>1. /\ peers' = [peers EXCEPT ![n] = @ \cup {p}]
            /\ responses' = [responses EXCEPT ![n] = {}]
        BY <2>1, <2>4
      <4> QED
        BY <2>2, <4>1 DEF Typed, NodeTypes
    <3>6. timers' \in [Node -> SUBSET Timer]
      <4>1. timers' = [timers EXCEPT ![n] = (timers[n] \ {"locate"}) \cup {"up"}]
        BY <2>1, <2>4
      <4>2. (timers[n] \ {"locate"}) \cup {"up"} \in SUBSET Timer
        BY DEF Typed, NodeTypes, Timer
      <4> QED
        BY <4>1, <4>2 DEF Typed, NodeTypes
    <3>3. NodeTypes'
      BY <2>2, <3>1, <3>2, <3>5, <3>6 DEF Typed, NodeTypes
    <3>7. QueueTypes'
      <4>1. ident[n] \in Ident /\ Send(n, "LINK", p, ident[n])
        BY <1>0, <2>1, <2>4 DEF TypeOK
      <4> QED
        BY <1>0, <2>2, <4>1, SendLemma DEF QueueTypes
    <3> QED
      BY <2>2, <3>3, <3>7, AirUnchanged DEF Typed
  <2> QED
    BY <2>3, <2>4
<1>4. CASE ProposalTimeout(n)
  <2>1. NodeTypes'
    BY <1>4 DEF ProposalTimeout, ProposalEnds, DelPeer, Typed, NodeTypes
  <2> QED
    BY <1>4, <2>1, OutUnchanged, AirUnchanged DEF ProposalTimeout, Typed
<1>5. CASE CheckParent(n)
  <2>1. NodeTypes'
    BY <1>5 DEF CheckParent, Typed, NodeTypes, Flag, Timer
  <2>2. QueueTypes'
    <3>1. 0 \in Ident
      BY IdentAssumption, SMT DEF Ident
    <3>2. up[n] \in Node \cup {None} /\ Send(n, "STATUS", up[n], 0)
      BY <1>0, <1>5 DEF CheckParent, TypeOK
    <3> QED
      BY <1>0, <3>1, <3>2, SendLemma DEF QueueTypes
  <2> QED
    BY <1>5, <2>1, <2>2, AirUnchanged DEF CheckParent, Typed
<1>6. CASE ParentLost(n)
  <2>1. NodeTypes'
    BY <1>6 DEF ParentLost, ExecBlackout, Typed, NodeTypes
  <2>2. QueueTypes'
    BY <1>0, <1>6, BlackoutLemma DEF ParentLost, QueueTypes
  <2> QED
    BY <1>6, <2>1, <2>2, AirUnchanged DEF ParentLost, Typed
<1>7. ASSUME NEW i \in Slot, Decay(n, i) PROVE Typed'
  <2>1. NodeTypes'
    <3>1. down' = [down EXCEPT ![n] = [down[n] EXCEPT ![i] = None]]
      BY <1>7 DEF Decay
    <3>2. [down[n] EXCEPT ![i] = None] \in [Slot -> Node \cup {None}]
      BY DEF Typed, NodeTypes
    <3>3. down' \in [Node -> [Slot -> Node \cup {None}]]
      BY <3>1, <3>2 DEF Typed, NodeTypes
    <3> QED
      BY <1>7, <3>3 DEF Decay, DelPeer, Typed, NodeTypes
  <2> QED
    BY <1>7, <2>1, OutUnchanged, AirUnchanged DEF Decay, Typed
<1> QED
  BY <1>1, <1>2, <1>3, <1>4, <1>5, <1>6, <1>7 DEF TimerFires

LEMMA TypeBoot ==
  ASSUME Typed, NEW n \in Node, Boot(n)
  PROVE  Typed'
<1>1. NodeTypes'
  <2>1. down' \in [Node -> [Slot -> Node \cup {None}]]
    BY DEF Boot, Typed, NodeTypes
  <2>2. ident' \in [Node -> Ident]
    BY DEF Boot, Typed, NodeTypes
  <2>3. timers' \in [Node -> SUBSET Timer]
    BY DEF Boot, FirstTimers, Timer, Typed, NodeTypes
  <2> QED
    BY <2>1, <2>2, <2>3 DEF Boot, Typed, NodeTypes
<1>2. QueueTypes'
  <2>1. out' = [out EXCEPT ![n] = << >>] /\ out \in [Node -> Seq(Frame)]
    BY DEF Boot, Typed, QueueTypes
  <2>2. out' \in [Node -> Seq(Frame)]
    BY <2>1
  <2>3. out'[n] = << >> /\ \A m \in Node \ {n} : out'[m] = out[m]
    BY <2>1
  <2>4. Len(out'[n]) <= OutCap
    BY <2>3, QueueAssumption, SMT
  <2> QED
    BY <2>2, <2>3, <2>4 DEF Typed, QueueTypes, QueuesBounded
<1>3. AirTypes'
  BY DEF Boot, Silence, Typed, AirTypes
<1> QED
  BY <1>1, <1>2, <1>3 DEF Typed

LEMMA TypeStep == Typed /\ [Next]_vars => Typed'
<1> SUFFICES ASSUME Typed, [Next]_vars PROVE Typed'
  OBVIOUS
<1>0. TypeOK /\ QueuesBounded
  BY TypedLemma
<1>1. ASSUME NEW n \in Node, NEW m \in Node, Lose(n, m) PROVE Typed'
  <2>1. AirTypes'
    BY <1>0, <1>1, ConsumeLemma DEF Lose, AirTypes
  <2>2. NodeTypes'
    BY <1>1 DEF Lose, nodeVars, Typed, NodeTypes
  <2> QED
    BY <1>1, <2>1, <2>2, OutUnchanged DEF Lose, Typed
<1>2. ASSUME NEW n \in Node, Transmit(n) PROVE Typed'
  <2>1. NodeTypes'
    BY <1>2 DEF Transmit, nodeVars, Typed, NodeTypes
  <2>2. out[n] \in Seq(Frame) /\ out[n] # << >> /\ Len(out[n]) <= OutCap
    BY <1>0, <1>2 DEF Transmit, TypeOK, QueuesBounded
  <2>3. /\ Tail(out[n]) \in Seq(Frame) /\ Len(Tail(out[n])) <= OutCap
        /\ Head(out[n]) \in Frame
    BY <2>2, QueueAssumption, SMT
  <2>4. QueueTypes'
    <3>1. out' = [out EXCEPT ![n] = Tail(out[n])] /\ out \in [Node -> Seq(Frame)]
      BY <1>0, <1>2 DEF Transmit, TypeOK
    <3>2. out' \in [Node -> Seq(Frame)]
      BY <2>3, <3>1
    <3>3. out'[n] = Tail(out[n]) /\ \A m \in Node \ {n} : out'[m] = out[m]
      BY <3>1
    <3> QED
      BY <2>3, <3>2, <3>3 DEF Typed, QueueTypes, QueuesBounded
  <2>5. AirTypes'
    <3> DEFINE R == Receivers(n, Head(out[n]).dst)
               a == [to |-> R, frame |-> IF R = {} THEN NoFrame ELSE Head(out[n])]
    <3>1. R \in SUBSET Node
      BY <1>0 DEF Receivers, TypeOK
    <3>2. a \in [to : SUBSET Node, frame : Frame \cup {NoFrame}]
      <4> HIDE DEF R
      <4> QED
        BY <2>3, <3>1
    <3>3. air' = [air EXCEPT ![n] = a]
      BY <1>2 DEF Transmit
    <3> HIDE DEF a
    <3> QED
      BY <3>2, <3>3 DEF Typed, AirTypes
  <2> QED
    BY <2>1, <2>4, <2>5 DEF Typed
<1>3. ASSUME NEW m \in Node, Freeze(m) PROVE Typed'
  <2>1. NodeTypes'
    BY <1>3 DEF Freeze, Typed, NodeTypes, Flag
  <2> QED
    BY <1>3, <2>1, OutUnchanged, AirUnchanged DEF Freeze, Typed
<1>4. ASSUME NEW m \in Node, Unfreeze(m) PROVE Typed'
  <2>1. NodeTypes'
    BY <1>4, UsedFinite DEF Unfreeze, Typed, NodeTypes, Timer
  <2> QED
    BY <1>4, <2>1, OutUnchanged, AirUnchanged DEF Unfreeze, Typed
<1>5. CASE UNCHANGED vars
  <2>1. NodeTypes'
    BY <1>5 DEF vars, nodeVars, Typed, NodeTypes
  <2> QED
    BY <1>5, <2>1, OutUnchanged, AirUnchanged DEF vars, Typed
<1> QED
  BY <1>1, <1>2, <1>3, <1>4, <1>5, TypeHandle, TypeInterrupted, TypeTimer, TypeBoot
  DEF Next, Restart, PowerCycle

-----------------------------------------------------------------------------
(***************************************************************************)
(* What each node says about itself.                                       *)
(***************************************************************************)

\* The step leaves the own state of node k alone.
Same(k) ==
  /\ flags'[k] = flags[k] /\ up'[k] = up[k] /\ down'[k] = down[k]
  /\ pendingMac'[k] = pendingMac[k] /\ timers'[k] = timers[k]
  /\ decay'[k] = decay[k] /\ blocked'[k] = blocked[k]
  /\ k \in raced' <=> k \in raced

LEMMA SameLemma ==
  ASSUME NEW k \in Node, LocalInv(k), Same(k)
  PROVE  LocalInv(k)'
<1>1. Used(k)' = Used(k) /\ Children(k)' = Children(k)
  BY DEF Same, Used, Children
<1>2. FreeSlots(k)' = FreeSlots(k) /\ (HasUplink(k)' <=> HasUplink(k))
  BY <1>1 DEF Same, FreeSlots, HasUplink
<1> QED
  BY <1>1, <1>2 DEF LocalInv, Same

LEMMA LocalInit == Init => \A n \in Node : LocalInv(n)
<1> SUFFICES ASSUME Init, NEW n \in Node PROVE LocalInv(n)
  OBVIOUS
<1>1. flags[n] = {} /\ up[n] = None /\ down[n] = [i \in Slot |-> None] /\ decay[n] = {}
  BY DEF Init
<1>2. timers[n] = (IF n = Root THEN {} ELSE {"join"}) /\ n \notin raced
  BY DEF Init, FirstTimers
<1>3. Used(n) = {} /\ Children(n) = {}
  BY <1>1 DEF Used, Children
<1> QED
  BY <1>1, <1>2, <1>3 DEF LocalInv, HasUplink

LEMMA LocalBoot ==
  ASSUME Typed, \A k \in Node : LocalInv(k), NEW n \in Node, Boot(n)
  PROVE  \A k \in Node : LocalInv(k)'
<1>1. ASSUME NEW k \in Node \ {n} PROVE LocalInv(k)'
  <2>1. Same(k)
    BY <1>1 DEF Boot, Same, Typed, NodeTypes
  <2> QED
    BY <1>1, <2>1, SameLemma
<1>2. /\ flags'[n] = {} /\ up'[n] = None /\ down'[n] = [i \in Slot |-> None]
      /\ decay'[n] = {} /\ timers'[n] = (IF n = Root THEN {} ELSE {"join"})
      /\ n \notin raced'
  BY DEF Boot, FirstTimers, Typed, NodeTypes
<1>3. Used(n)' = {} /\ Children(n)' = {}
  BY <1>2 DEF Used, Children
<1>4. LocalInv(n)'
  BY <1>2, <1>3 DEF LocalInv, HasUplink
<1> QED
  BY <1>1, <1>4

\* An entry that is filled or freed changes nothing else in the table.
LEMMA FillLemma ==
  ASSUME Typed, NEW m \in Node, NEW i \in Slot, NEW c \in Node,
         down' = [down EXCEPT ![m][i] = c]
  PROVE  Used(m)' = Used(m) \cup {i}
<1>1. down'[m] = [down[m] EXCEPT ![i] = c]
  BY DEF Typed, NodeTypes
<1>2. c # None
  BY NoneAssumption
<1>3. \A j \in Slot : down'[m][j] = (IF j = i THEN c ELSE down[m][j])
  BY <1>1 DEF Typed, NodeTypes
<1> QED
  BY <1>2, <1>3 DEF Used

LEMMA ClearLemma ==
  ASSUME Typed, NEW m \in Node, NEW i \in Slot,
         down' = [down EXCEPT ![m][i] = None]
  PROVE  Used(m)' = Used(m) \ {i} /\ Children(m)' \subseteq Children(m)
<1>1. down'[m] = [down[m] EXCEPT ![i] = None]
  BY DEF Typed, NodeTypes
<1>2. \A j \in Slot : down'[m][j] = (IF j = i THEN None ELSE down[m][j])
  BY <1>1 DEF Typed, NodeTypes
<1>3. Used(m)' = Used(m) \ {i}
  BY <1>2 DEF Used
<1>4. ASSUME NEW j \in Used(m)' PROVE down'[m][j] = down[m][j] /\ j \in Used(m)
  BY <1>2, <1>3 DEF Used
<1> QED
  BY <1>3, <1>4 DEF Children

LEMMA LocalHandle ==
  ASSUME Typed, \A k \in Node : LocalInv(k), NEW n \in Node, NEW m \in Node, Handle(n, m)
  PROVE  \A k \in Node : LocalInv(k)'
<1> USE DEF Receive
<1>1. ASSUME NEW k \in Node \ {m} PROVE LocalInv(k)'
  <2>1. CASE ProposeLink(n, m)
    BY <1>1, <2>1, SameLemma DEF ProposeLink, Same, Typed, NodeTypes
  <2>2. CASE NoteProposal(n, m)
    BY <1>1, <2>2, SameLemma DEF NoteProposal, Same, Typed, NodeTypes
  <2>3. CASE AdoptChild(n, m)
    BY <1>1, <2>3, SameLemma DEF AdoptChild, FormDownlink, StartDecay, Same, Typed, NodeTypes
  <2>4. CASE StatusFromParent(n, m)
    BY <1>1, <2>4, SameLemma DEF StatusFromParent, Same, Typed, NodeTypes
  <2>5. CASE StatusFromChild(n, m)
    BY <1>1, <2>5, SameLemma DEF StatusFromChild, Same, Typed, NodeTypes
  <2>6. CASE ObeyBlackout(n, m)
    BY <1>1, <2>6, SameLemma DEF ObeyBlackout, ExecBlackout, Same, Typed, NodeTypes
  <2> QED
    BY <2>1, <2>2, <2>3, <2>4, <2>5, <2>6 DEF Handle
<1>2. CASE ProposeLink(n, m)
  <2>1. /\ HasUplink(m) /\ FreeSlots(m) # {} /\ "FROZEN" \notin flags[m]
        /\ flags'[m] = flags[m] \cup {"PENDING_LINK"} /\ pendingMac'[m] = n
        /\ timers'[m] = timers[m] \/ timers'[m] = timers[m] \cup {"pending"}
        /\ UNCHANGED <<up, down, decay, blocked, raced>>
    BY <1>2 DEF ProposeLink, MayPropose, HasRoom, Typed, NodeTypes
  <2>2. n # None
    BY NoneAssumption
  <2>3. Used(m)' = Used(m) /\ Children(m)' = Children(m) /\ FreeSlots(m)' = FreeSlots(m)
        /\ (HasUplink(m)' <=> HasUplink(m))
    BY <2>1 DEF Used, Children, FreeSlots, HasUplink
  <2>4. LocalInv(m)'
    BY <2>1, <2>2, <2>3 DEF LocalInv
  <2> QED
    BY <1>1, <2>4
<1>3. CASE NoteProposal(n, m)
  <2>1. Same(m)
    BY <1>3 DEF NoteProposal, Same
  <2> QED
    BY <1>1, <2>1, SameLemma
<1>4. CASE AdoptChild(n, m)
  <2>1. /\ "PENDING_LINK" \in flags[m] /\ "FROZEN" \notin flags[m]
        /\ timers'[m] = timers[m] \ {"pending"}
        /\ flags'[m] = flags[m] \ {"PENDING_LINK"}
        /\ UNCHANGED <<up, blocked, raced>>
    BY <1>4 DEF AdoptChild, FormDownlink, Confirms, Typed, NodeTypes
  <2>2. FreeSlots(m) # {}
    BY <2>1 DEF LocalInv
  <2>3. FreeSlot(m) \in Slot
    BY <2>2, FreeSlotIsFree DEF FreeSlots
  <2>4. /\ down' = [down EXCEPT ![m][FreeSlot(m)] = n]
        /\ decay'[m] = decay[m] \cup {FreeSlot(m)}
    BY <1>4, <2>2 DEF AdoptChild, FormDownlink, StartDecay, Typed, NodeTypes
  <2>5. Used(m)' = Used(m) \cup {FreeSlot(m)}
    BY <2>3, <2>4, FillLemma
  <2>6. timers[m] \cap {"join", "locate"} = {}
    BY <2>1 DEF LocalInv
  <2>7. LocalInv(m)'
    BY <2>1, <2>4, <2>5, <2>6 DEF LocalInv, HasUplink
  <2> QED
    BY <1>1, <2>7
<1>5. CASE StatusFromParent(n, m)
  <2>1. /\ flags'[m] = flags[m] \ {"UPLINK_STATUS"} /\ timers'[m] = timers[m] \ {"status"}
        /\ UNCHANGED <<up, down, pendingMac, decay, blocked, raced>>
    BY <1>5 DEF StatusFromParent, Typed, NodeTypes
  <2>2. Used(m)' = Used(m) /\ Children(m)' = Children(m) /\ FreeSlots(m)' = FreeSlots(m)
        /\ (HasUplink(m)' <=> HasUplink(m))
    BY <2>1 DEF Used, Children, FreeSlots, HasUplink
  <2>3. LocalInv(m)'
    BY <2>1, <2>2 DEF LocalInv
  <2> QED
    BY <1>1, <2>3
<1>6. CASE StatusFromChild(n, m)
  <2>1. /\ "FROZEN" \notin flags[m] /\ decay'[m] = decay[m] \cup EntryOf(m, n)
        /\ UNCHANGED <<flags, up, down, pendingMac, timers, blocked, raced>>
    BY <1>6 DEF StatusFromChild, Typed, NodeTypes
  <2>2. EntryOf(m, n) \subseteq Used(m)
    BY DEF EntryOf
  <2>3. decay'[m] = decay[m]
    BY <2>1, <2>2 DEF LocalInv
  <2>4. Same(m)
    BY <2>1, <2>3 DEF Same
  <2> QED
    BY <1>1, <2>4, SameLemma
<1>7. CASE ObeyBlackout(n, m)
  <2>1. /\ blocked'[m] = blocked[m] \cup {"wifi"}
        /\ UNCHANGED <<flags, up, down, pendingMac, timers, decay, raced>>
    BY <1>7 DEF ObeyBlackout, ExecBlackout, Typed, NodeTypes
  <2>2. Used(m)' = Used(m) /\ Children(m)' = Children(m) /\ FreeSlots(m)' = FreeSlots(m)
        /\ (HasUplink(m)' <=> HasUplink(m))
    BY <2>1 DEF Used, Children, FreeSlots, HasUplink
  <2>3. LocalInv(m)'
    BY <2>1, <2>2 DEF LocalInv
  <2> QED
    BY <1>1, <2>3
<1> QED
  BY <1>2, <1>3, <1>4, <1>5, <1>6, <1>7 DEF Handle

\* A step that leaves the link table of node k alone.
SameTable(k) ==
  /\ Used(k)' = Used(k) /\ Children(k)' = Children(k)
  /\ FreeSlots(k)' = FreeSlots(k) /\ (HasUplink(k)' <=> HasUplink(k))

LEMMA SameTableLemma ==
  ASSUME NEW k \in Node, up'[k] = up[k], down'[k] = down[k]
  PROVE  SameTable(k)
  BY DEF SameTable, Used, Children, FreeSlots, HasUplink

LEMMA LocalInterrupted ==
  ASSUME Typed, \A k \in Node : LocalInv(k), NEW n \in Node, NEW m \in Node,
         InterruptedTimeout(n, m)
  PROVE  \A k \in Node : LocalInv(k)'
<1>0. UNCHANGED <<flags, up, down, decay, blocked>>
  BY DEF InterruptedTimeout
<1>1. ASSUME NEW k \in Node \ {m} PROVE LocalInv(k)'
  <2>1. pendingMac'[k] = pendingMac[k] /\ timers'[k] = timers[k] /\ (k \in raced' <=> k \in raced)
    BY DEF InterruptedTimeout, Typed, NodeTypes
  <2> QED
    BY <1>0, <2>1, SameLemma DEF Same
<1>2. SameTable(m)
  BY <1>0, SameTableLemma
<1>3. /\ timers'[m] = timers[m] \/ timers'[m] = timers[m] \ {"pending"}
      /\ "pending" \in timers[m] /\ HasUplink(m)
      /\ pendingMac'[m] # None \/ m \in raced'
  BY NoneAssumption DEF InterruptedTimeout, ProposalEnds, Fires, HasRoom, Typed, NodeTypes
<1>4. LocalInv(m)'
  BY <1>0, <1>2, <1>3 DEF LocalInv, SameTable
<1> QED
  BY <1>1, <1>4

LEMMA LocalTimer ==
  ASSUME Typed, \A k \in Node : LocalInv(k), NEW n \in Node, TimerFires(n)
  PROVE  \A k \in Node : LocalInv(k)'
<1> USE DEF Fires
<1>1. ASSUME NEW k \in Node \ {n} PROVE LocalInv(k)'
  <2>1. CASE Join(n)
    BY <1>1, <2>1, SameLemma DEF Join, Same, Typed, NodeTypes
  <2>2. CASE NobodyProposed(n)
    BY <1>1, <2>2, SameLemma DEF NobodyProposed, Same, Typed, NodeTypes
  <2>3. CASE ChooseParent(n)
    BY <1>1, <2>3, SameLemma DEF ChooseParent, FormUplink, Same, Typed, NodeTypes
  <2>4. CASE ProposalTimeout(n)
    BY <1>1, <2>4, SameLemma DEF ProposalTimeout, Same, Typed, NodeTypes
  <2>5. CASE CheckParent(n)
    BY <1>1, <2>5, SameLemma DEF CheckParent, Same, Typed, NodeTypes
  <2>6. CASE ParentLost(n)
    BY <1>1, <2>6, SameLemma DEF ParentLost, ExecBlackout, Same, Typed, NodeTypes
  <2>7. ASSUME NEW i \in Slot, Decay(n, i) PROVE LocalInv(k)'
    BY <1>1, <2>7, SameLemma DEF Decay, Same, Typed, NodeTypes
  <2> QED
    BY <2>1, <2>2, <2>3, <2>4, <2>5, <2>6, <2>7 DEF TimerFires
<1>2. CASE Join(n)
  <2>1. /\ "join" \in timers[n]
        /\ flags'[n] = flags[n] \cup {"LOCATING"}
        /\ timers'[n] = (timers[n] \ {"join"}) \cup {"locate"}
        /\ UNCHANGED <<up, down, pendingMac, decay, blocked, raced>>
    BY <1>2 DEF Join, Typed, NodeTypes
  <2>2. SameTable(n)
    BY <2>1, SameTableLemma
  <2>3. LocalInv(n)'
    BY <2>1, <2>2 DEF LocalInv, SameTable
  <2> QED
    BY <1>1, <2>3
<1>3. CASE NobodyProposed(n)
  <2>1. /\ "locate" \in timers[n]
        /\ flags'[n] = flags[n] \ {"LOCATING"}
        /\ timers'[n] = (timers[n] \ {"locate"}) \cup {"join"}
        /\ UNCHANGED <<up, down, pendingMac, decay, blocked, raced>>
    BY <1>3 DEF NobodyProposed, Typed, NodeTypes
  <2>2. SameTable(n)
    BY <2>1, SameTableLemma
  <2>3. LocalInv(n)'
    BY <2>1, <2>2 DEF LocalInv, SameTable
  <2> QED
    BY <1>1, <2>3
<1>4. CASE ChooseParent(n)
  <2>1. /\ "locate" \in timers[n]
        /\ flags'[n] = flags[n] \ {"LOCATING"}
        /\ UNCHANGED <<down, pendingMac, decay, blocked, raced>>
    BY <1>4 DEF ChooseParent, FormUplink, Typed, NodeTypes
  <2>2. /\ "join" \notin timers[n] /\ up[n] = None /\ "FROZEN" \notin flags[n]
        /\ Children(n) = {} /\ "PENDING_LINK" \notin flags[n]
    BY <2>1 DEF LocalInv, HasUplink
  <2>3. \/ timers'[n] = timers[n] \ {"locate"} /\ up'[n] = up[n]
        \/ timers'[n] = (timers[n] \ {"locate"}) \cup {"up"} /\ up'[n] # None
    <3>1. PICK q \in responses[n] :
            IF AddRefused(n, q)
            THEN timers' = [timers EXCEPT ![n] = @ \ {"locate"}] /\ up' = up
            ELSE /\ timers' = [timers EXCEPT ![n] = (@ \ {"locate"}) \cup {"up"}]
                 /\ up' = [up EXCEPT ![n] = IF @ = None THEN q ELSE @]
      BY <1>4 DEF ChooseParent, FormUplink
    <3>2. q # None
      BY NoneAssumption DEF Typed, NodeTypes
    <3>3. CASE AddRefused(n, q)
      BY <3>1, <3>3 DEF Typed, NodeTypes
    <3>4. CASE ~ AddRefused(n, q)
      BY <2>2, <3>1, <3>2, <3>4 DEF Typed, NodeTypes
    <3> QED
      BY <3>3, <3>4
  <2>4. Used(n)' = Used(n) /\ Children(n)' = Children(n) /\ FreeSlots(n)' = FreeSlots(n)
    BY <2>1 DEF Used, Children, FreeSlots
  <2>5. LocalInv(n)'
    BY <2>1, <2>2, <2>3, <2>4 DEF LocalInv, HasUplink
  <2> QED
    BY <1>1, <2>5
<1>5. CASE ProposalTimeout(n)
  <2>1. /\ flags'[n] = flags[n] \ {"PENDING_LINK"}
        /\ timers'[n] = timers[n] \ {"pending"}
        /\ UNCHANGED <<up, down, decay, blocked, raced>>
    BY <1>5 DEF ProposalTimeout, Typed, NodeTypes
  <2>2. SameTable(n)
    BY <2>1, SameTableLemma
  <2>3. LocalInv(n)'
    BY <2>1, <2>2 DEF LocalInv, SameTable
  <2> QED
    BY <1>1, <2>3
<1>6. CASE CheckParent(n)
  <2>1. /\ flags'[n] = flags[n] \cup {"UPLINK_STATUS"}
        /\ timers'[n] = timers[n] \cup {"status"}
        /\ UNCHANGED <<up, down, pendingMac, decay, blocked, raced>>
    BY <1>6 DEF CheckParent, Typed, NodeTypes
  <2>2. SameTable(n)
    BY <2>1, SameTableLemma
  <2>3. LocalInv(n)'
    BY <2>1, <2>2 DEF LocalInv, SameTable
  <2> QED
    BY <1>1, <2>3
<1>7. CASE ParentLost(n)
  <2>1. /\ timers'[n] = timers[n] \ {"status"}
        /\ blocked'[n] = blocked[n] \cup {"timer"}
        /\ UNCHANGED <<flags, up, down, pendingMac, decay, raced>>
    BY <1>7 DEF ParentLost, ExecBlackout, Typed, NodeTypes
  <2>2. SameTable(n)
    BY <2>1, SameTableLemma
  <2>3. LocalInv(n)'
    BY <2>1, <2>2 DEF LocalInv, SameTable
  <2> QED
    BY <1>1, <2>3
<1>8. ASSUME NEW i \in Slot, Decay(n, i) PROVE LocalInv(n)'
  <2>1. /\ i \in decay[n] /\ decay'[n] = decay[n] \ {i}
        /\ down' = [down EXCEPT ![n][i] = None]
        /\ UNCHANGED <<flags, up, pendingMac, timers, blocked, raced>>
    BY <1>8 DEF Decay, Typed, NodeTypes
  <2>2. Used(n)' = Used(n) \ {i} /\ Children(n)' \subseteq Children(n)
    BY <2>1, ClearLemma
  <2>3. i \in FreeSlots(n)' /\ (HasUplink(n)' <=> HasUplink(n))
    BY <2>1, <2>2 DEF FreeSlots, HasUplink
  <2>4. "FROZEN" \notin flags[n]
    BY <2>1 DEF LocalInv
  <2>5. FreeSlots(n)' # {} /\ decay'[n] = Used(n)'
    BY <2>1, <2>2, <2>3, <2>4 DEF LocalInv
  <2> QED
    BY <2>1, <2>2, <2>3, <2>4, <2>5 DEF LocalInv
<1> QED
  BY <1>1, <1>2, <1>3, <1>4, <1>5, <1>6, <1>7, <1>8 DEF TimerFires

LEMMA LocalFreeze ==
  ASSUME Typed, \A k \in Node : LocalInv(k), NEW m \in Node, Freeze(m) \/ Unfreeze(m)
  PROVE  \A k \in Node : LocalInv(k)'
<1>1. ASSUME NEW k \in Node \ {m} PROVE LocalInv(k)'
  <2>1. Same(k)
    BY <1>1 DEF Freeze, Unfreeze, Same, Typed, NodeTypes
  <2> QED
    BY <1>1, <2>1, SameLemma
<1>2. up[m] # None /\ UNCHANGED <<up, down, pendingMac, blocked, raced>>
  BY DEF Freeze, Unfreeze
<1>3. SameTable(m)
  BY <1>2, SameTableLemma
<1>4. CASE Freeze(m)
  <2>1. /\ flags'[m] = (flags[m] \cup {"FROZEN"}) \ {"UPLINK_STATUS"}
        /\ timers'[m] = timers[m] \ {"status", "up"}
        /\ decay'[m] = decay[m] \ Used(m)
        /\ "FROZEN" \notin flags[m]
    BY <1>4 DEF Freeze, StoppedByFreeze, Typed, NodeTypes
  <2>2. LocalInv(m)'
    BY <1>2, <1>3, <2>1 DEF LocalInv, SameTable
  <2> QED
    BY <1>1, <2>2
<1>5. CASE Unfreeze(m)
  <2>1. /\ flags'[m] = flags[m] \ {"FROZEN"}
        /\ timers'[m] = timers[m] \cup {"up"}
        /\ decay'[m] = decay[m] \cup Used(m)
        /\ "FROZEN" \in flags[m]
    BY <1>5 DEF Unfreeze, Typed, NodeTypes
  <2>2. LocalInv(m)'
    BY <1>2, <1>3, <2>1 DEF LocalInv, SameTable
  <2> QED
    BY <1>1, <2>2
<1> QED
  BY <1>4, <1>5

LEMMA LocalStep ==
  ASSUME Typed, \A k \in Node : LocalInv(k), [Next]_vars
  PROVE  \A k \in Node : LocalInv(k)'
<1>1. ASSUME UNCHANGED nodeVars PROVE \A k \in Node : LocalInv(k)'
  BY <1>1, SameLemma DEF nodeVars, Same
<1>2. ASSUME NEW n \in Node, NEW m \in Node, Lose(n, m) PROVE UNCHANGED nodeVars
  BY <1>2 DEF Lose
<1>3. ASSUME NEW n \in Node, Transmit(n) PROVE UNCHANGED nodeVars
  BY <1>3 DEF Transmit
<1> QED
  BY <1>1, <1>2, <1>3, LocalHandle, LocalInterrupted, LocalTimer, LocalFreeze, LocalBoot
  DEF Next, Restart, PowerCycle, vars

-----------------------------------------------------------------------------
(***************************************************************************)
(* The theorems about each node on its own.                                *)
(***************************************************************************)

LEMMA IInvTyped == IInv <=> Typed /\ \A n \in Node : LocalInv(n)
  BY TypedLemma DEF IInv

LEMMA IInvStep == IInv /\ [Next]_vars => IInv'
<1> SUFFICES ASSUME IInv, [Next]_vars PROVE IInv'
  OBVIOUS
<1>1. Typed /\ \A n \in Node : LocalInv(n)
  BY IInvTyped
<1>2. Typed' /\ \A n \in Node : LocalInv(n)'
  BY <1>1, TypeStep, LocalStep
<1>3. TypeOK' /\ QueuesBounded'
  BY <1>2 DEF Typed, NodeTypes, QueueTypes, AirTypes, TypeOK
<1> QED
  BY <1>2, <1>3 DEF IInv

\* Every step of the protocol, faults included, keeps the invariant of net_layer.c's
\* node state.
THEOREM Invariance == Spec => []IInv
<1>1. Init => IInv
  BY TypeInit, LocalInit, IInvTyped
<1> QED
  BY <1>1, IInvStep, PTL DEF Spec

\* The variables of net_layer.c keep their types.
THEOREM TypeCorrect == Spec => []TypeOK
<1>1. IInv => TypeOK
  BY DEF IInv
<1> QED
  BY <1>1, Invariance, PTL

\* A proposal made in espnow_recv (CONTROL_LOCATE) reserves an entry: when the
\* confirmation arrives, form_downlink finds a free one.
THEOREM ProposalsHaveSlots == Spec => []ProposalHasSlot
<1>1. IInv => ProposalHasSlot
  BY DEF IInv, LocalInv, ProposalHasSlot
<1> QED
  BY <1>1, Invariance, PTL

\* The timers of net_layer.c run exactly while there is something to watch; in
\* particular the assertion of timer_cb_downstream holds.
THEOREM TimersMatch == Spec => []TimersMatchState
<1>1. IInv => TimersMatchState
  BY DEF IInv, LocalInv, TimersMatchState
<1> QED
  BY <1>1, Invariance, PTL

\* timer_cb_join and timer_cb_locating run only on a node without any link.
THEOREM SearchersAreOrphans == Spec => []LocatingIsOrphan
<1>1. IInv => LocatingIsOrphan
  BY DEF IInv, LocalInv, LocatingIsOrphan
<1> QED
  BY <1>1, Invariance, PTL

-----------------------------------------------------------------------------
(***************************************************************************)
(* A node that looks for a parent is nobody's parent.                      *)
(***************************************************************************)

Searching(k) == timers[k] \cap {"join", "locate"} # {}

\* A step brings no LINK frame of k that was not there.
NoNewLink(k) ==
  /\ air'[k].frame.type = "LINK" =>
       \/ air[k].frame.type = "LINK"
       \/ \E i \in 1 .. Len(out[k]) : out[k][i].type = "LINK"
  /\ \A j \in 1 .. Len(out'[k]) : out'[k][j].type = "LINK" =>
       \E i \in 1 .. Len(out[k]) : out[k][i].type = "LINK"

LEMMA NoNewLinkLemma ==
  ASSUME NEW k \in Node, NoLinkFrames(k), NoNewLink(k)
  PROVE  NoLinkFrames(k)'
  BY DEF NoLinkFrames, NoNewLink

\* A node that receives a frame sends no LINK, unless it has a parent.
LEMMA QuietHandle ==
  ASSUME IInv, NEW n \in Node, NEW m \in Node, Handle(n, m), NEW k \in Node, Searching(k)'
  PROVE  Searching(k) /\ NoNewLink(k)
<1>0. TypeOK /\ QueuesBounded /\ LocalInv(k) /\ Typed
  BY TypedLemma DEF IInv
<1> USE DEF Receive
<1>1. Searching(k)
  <2>1. \/ timers' = timers
        \/ timers' = [timers EXCEPT ![m] = @ \cup {"pending"}]
        \/ timers' = [timers EXCEPT ![m] = @ \ {"pending"}]
        \/ timers' = [timers EXCEPT ![m] = @ \ {"status"}]
    <3>1. CASE ProposeLink(n, m)
      BY <3>1 DEF ProposeLink
    <3>2. CASE AdoptChild(n, m)
      BY <3>2 DEF AdoptChild, FormDownlink
    <3>3. CASE ~ ProposeLink(n, m) /\ ~ AdoptChild(n, m)
      BY <3>3 DEF Handle, NoteProposal, StatusFromParent, StatusFromChild, ObeyBlackout
    <3> QED
      BY <3>1, <3>2, <3>3
  <2>2. timers \in [Node -> SUBSET Timer]
    BY <1>0 DEF TypeOK
  <2>3. \A t \in {"join", "locate"} : t \in timers'[k] <=> t \in timers[k]
    <3>1. CASE timers' = timers
      BY <3>1
    <3>2. CASE timers' = [timers EXCEPT ![m] = @ \cup {"pending"}]
      BY <2>2, <3>2
    <3>3. CASE timers' = [timers EXCEPT ![m] = @ \ {"pending"}]
      BY <2>2, <3>3
    <3>4. CASE timers' = [timers EXCEPT ![m] = @ \ {"status"}]
      BY <2>2, <3>4
    <3> QED
      BY <2>1, <3>1, <3>2, <3>3, <3>4
  <2> QED
    BY <2>3 DEF Searching
<1>2. air'[k].frame.type = "LINK" => air[k].frame.type = "LINK"
  <2>1. Consume(n, m)
    BY DEF Handle, ProposeLink, NoteProposal, AdoptChild, FormDownlink, StatusFromParent,
           StatusFromChild, ObeyBlackout
  <2>2. air'[k].frame = air[k].frame \/ air'[k].frame = NoFrame
    BY <1>0, <2>1, ConsumeLemma
  <2> QED
    BY <2>2 DEF NoFrame
<1>3. ASSUME NEW j \in 1 .. Len(out'[k]), out'[k][j].type = "LINK"
      PROVE  \E i \in 1 .. Len(out[k]) : out[k][i].type = "LINK"
  <2>1. CASE ProposeLink(n, m)
    <3>1. k # m
      BY <1>0, <1>1, <2>1 DEF ProposeLink, MayPropose, HasRoom, LocalInv, Searching
    <3>2. out'[k] = out[k]
      BY <1>0, <2>1, <3>1 DEF ProposeLink, Send, TypeOK
    <3> QED
      BY <1>3, <3>2
  <2>2. CASE NoteProposal(n, m) \/ AdoptChild(n, m) \/ StatusFromParent(n, m)
    BY <1>3, <2>2 DEF NoteProposal, AdoptChild, FormDownlink, StatusFromParent
  <2>3. CASE StatusFromChild(n, m)
    <3>1. 0 \in Ident
      BY IdentAssumption, SMT DEF Ident
    <3>2. Send(m, "STATUS", n, 0)
      BY <2>3 DEF StatusFromChild
    <3>3. /\ \A x \in Node \ {m} : out'[x] = out[x]
          /\ \A x \in 1 .. Len(out'[m]) : out'[m][x].type = "LINK" =>
               x \in 1 .. Len(out[m]) /\ out[m][x].type = "LINK"
      BY <1>0, <3>1, <3>2, SendLemma
    <3> QED
      BY <1>3, <3>3
  <2>4. CASE ObeyBlackout(n, m)
    <3>1. /\ \A x \in Node \ {m} : out'[x] = out[x]
          /\ \A x \in 1 .. Len(out'[m]) : out'[m][x].type = "LINK" =>
               x \in 1 .. Len(out[m]) /\ out[m][x].type = "LINK"
      BY <1>0, <2>4, BlackoutLemma DEF ObeyBlackout
    <3> QED
      BY <1>3, <3>1
  <2> QED
    BY <2>1, <2>2, <2>3, <2>4 DEF Handle
<1> QED
  BY <1>1, <1>2, <1>3 DEF NoNewLink

\* A node whose proposal ends has a parent.
LEMMA QuietInterrupted ==
  ASSUME IInv, NEW n \in Node, NEW m \in Node, InterruptedTimeout(n, m),
         NEW k \in Node, Searching(k)'
  PROVE  Searching(k) /\ NoNewLink(k)
<1>0. TypeOK /\ LocalInv(m)
  BY DEF IInv
<1>1. timers' = timers \/ timers' = [timers EXCEPT ![m] = @ \ {"pending"}]
  BY DEF InterruptedTimeout
<1>2. timers'[k] = timers[k] \/ (k = m /\ timers'[k] = timers[k] \ {"pending"})
  BY <1>0, <1>1 DEF TypeOK
<1>3. Searching(k)
  BY <1>2 DEF Searching
<1>4. k # m
  BY <1>0, <1>3 DEF InterruptedTimeout, HasRoom, LocalInv, Searching
<1>5. out'[k] = out[k]
  BY <1>0, <1>4 DEF InterruptedTimeout, Send, TypeOK
<1>6. air'[k].frame = air[k].frame \/ air'[k].frame = NoFrame
  BY <1>0, ConsumeLemma DEF InterruptedTimeout, Receive
<1> QED
  BY <1>3, <1>5, <1>6 DEF NoNewLink, NoFrame

\* A timer callback that sends a LINK ends the search.
LEMMA QuietTimer ==
  ASSUME IInv, NEW n \in Node, TimerFires(n), NEW k \in Node, Searching(k)'
  PROVE  Searching(k) /\ NoNewLink(k)
<1>0. TypeOK /\ QueuesBounded /\ LocalInv(k) /\ Typed
  BY TypedLemma DEF IInv
<1> USE DEF Fires
<1>1. air' = air
  BY DEF TimerFires, Join, NobodyProposed, ChooseParent, FormUplink, ProposalTimeout, CheckParent,
         ParentLost, Decay
<1>2. CASE ChooseParent(n)
  <2>1. ASSUME k = n PROVE FALSE
    <3>1. "locate" \in timers[n] /\ "join" \notin timers[n]
      BY <1>0, <1>2, <2>1 DEF ChooseParent, FormUplink, LocalInv
    <3>2. \/ timers' = [timers EXCEPT ![n] = @ \ {"locate"}]
          \/ timers' = [timers EXCEPT ![n] = (@ \ {"locate"}) \cup {"up"}]
      BY <1>2 DEF ChooseParent, FormUplink
    <3>3. timers'[n] \cap {"join", "locate"} = {}
      BY <1>0, <3>1, <3>2 DEF TypeOK
    <3> QED
      BY <2>1, <3>3 DEF Searching
  <2>2. k # n
    BY <2>1
  <2>3. timers'[k] = timers[k] /\ out'[k] = out[k]
    BY <1>0, <1>2, <2>2 DEF ChooseParent, FormUplink, Send, TypeOK
  <2> QED
    BY <1>1, <2>3 DEF Searching, NoNewLink
<1>3. CASE ~ ChooseParent(n)
  <2>1. Searching(k)
    BY <1>0, <1>3 DEF TimerFires, Join, NobodyProposed, ProposalTimeout, CheckParent,
                      ParentLost, Decay, Searching, TypeOK
  <2>2. ASSUME NEW j \in 1 .. Len(out'[k]), out'[k][j].type = "LINK"
        PROVE  \E i \in 1 .. Len(out[k]) : out[k][i].type = "LINK"
    <3>1. CASE UNCHANGED out
      BY <2>2, <3>1
    <3>2. CASE Join(n)
      <4>1. NextIdent(n) \in Ident
        BY <1>0, IdentAssumption, SMT DEF NextIdent, Ident, TypeOK
      <4>2. Send(n, "LOCATE", None, NextIdent(n))
        BY <3>2 DEF Join
      <4>3. /\ \A x \in Node \ {n} : out'[x] = out[x]
            /\ \A x \in 1 .. Len(out'[n]) : out'[n][x].type = "LINK" =>
                 x \in 1 .. Len(out[n]) /\ out[n][x].type = "LINK"
        BY <1>0, <4>1, <4>2, SendLemma
      <4> QED
        BY <2>2, <4>3
    <3>3. CASE CheckParent(n)
      <4>1. 0 \in Ident
        BY IdentAssumption, SMT DEF Ident
      <4>2. up[n] \in Node \cup {None} /\ Send(n, "STATUS", up[n], 0)
        BY <1>0, <3>3 DEF CheckParent, TypeOK
      <4>3. /\ \A x \in Node \ {n} : out'[x] = out[x]
            /\ \A x \in 1 .. Len(out'[n]) : out'[n][x].type = "LINK" =>
                 x \in 1 .. Len(out[n]) /\ out[n][x].type = "LINK"
        BY <1>0, <4>1, <4>2, SendLemma
      <4> QED
        BY <2>2, <4>3
    <3>4. CASE ParentLost(n)
      <4>1. /\ \A x \in Node \ {n} : out'[x] = out[x]
            /\ \A x \in 1 .. Len(out'[n]) : out'[n][x].type = "LINK" =>
                 x \in 1 .. Len(out[n]) /\ out[n][x].type = "LINK"
        BY <1>0, <3>4, BlackoutLemma DEF ParentLost
      <4> QED
        BY <2>2, <4>1
    <3> QED
      BY <1>3, <3>1, <3>2, <3>3, <3>4
      DEF TimerFires, NobodyProposed, ProposalTimeout, Decay
  <2> QED
    BY <1>1, <2>1, <2>2 DEF NoNewLink
<1> QED
  BY <1>2, <1>3

LEMMA QuietBoot ==
  ASSUME IInv, NEW n \in Node, Boot(n)
  PROVE  NoLinkFrames(n)'
<1>0. TypeOK
  BY DEF IInv
<1>1. air'[n].frame.type = "NONE" /\ out'[n] = << >>
  BY <1>0 DEF Boot, Silence, NoFrame, TypeOK
<1>2. Len(out'[n]) = 0
  BY <1>1
<1> QED
  BY <1>1, <1>2, SMT DEF NoLinkFrames

LEMMA QuietTransmit ==
  ASSUME IInv, NEW n \in Node, Transmit(n), NEW k \in Node
  PROVE  NoNewLink(k)
<1>0. TypeOK
  BY DEF IInv
<1>1. CASE k # n
  <2>1. out'[k] = out[k] /\ air'[k] = air[k]
    BY <1>0, <1>1 DEF Transmit, TypeOK
  <2> QED
    BY <2>1 DEF NoNewLink
<1>2. CASE k = n
  <2>1. out[n] \in Seq(Frame) /\ out[n] # << >>
    BY <1>0 DEF Transmit, TypeOK
  <2>2. out'[n] = Tail(out[n])
    BY <1>0 DEF Transmit, TypeOK
  <2>3. air'[n].frame = Head(out[n]) \/ air'[n].frame = NoFrame
    <3> DEFINE R == Receivers(n, Head(out[n]).dst)
               a == [to |-> R, frame |-> IF R = {} THEN NoFrame ELSE Head(out[n])]
    <3>1. a.frame = Head(out[n]) \/ a.frame = NoFrame
      OBVIOUS
    <3>2. air' = [air EXCEPT ![n] = a]
      BY DEF Transmit
    <3> HIDE DEF a
    <3>3. air'[n] = a
      BY <1>0, <3>2 DEF TypeOK
    <3> QED
      BY <3>1, <3>3
  <2>4. 1 \in 1 .. Len(out[n]) /\ Head(out[n]) = out[n][1]
    BY <2>1, SMT
  <2>5. \A j \in 1 .. Len(Tail(out[n])) :
         j + 1 \in 1 .. Len(out[n]) /\ Tail(out[n])[j] = out[n][j+1]
    BY <2>1, SMT
  <2>6. air'[n].frame.type = "LINK" => air'[n].frame = out[n][1]
    BY <2>3, <2>4 DEF NoFrame
  <2> QED
    BY <1>2, <2>2, <2>4, <2>5, <2>6 DEF NoNewLink
<1> QED
  BY <1>1, <1>2

\* Between boots, a searching node has been searching and puts no LINK on its way.
LEMMA QuietFrames ==
  ASSUME IInv, [Next]_vars, NEW k \in Node, Searching(k)'
  PROVE  NoLinkFrames(k)' \/ (Searching(k) /\ NoNewLink(k))
<1>0. TypeOK
  BY DEF IInv
<1>1. ASSUME NEW n \in Node, Boot(n)
      PROVE  NoLinkFrames(k)' \/ (Searching(k) /\ NoNewLink(k))
  <2>1. CASE k = n
    BY <1>1, <2>1, QuietBoot
  <2>2. CASE k # n
    <3>1. timers'[k] = timers[k] /\ out'[k] = out[k] /\ air'[k] = air[k]
      BY <1>0, <1>1, <2>2 DEF Boot, TypeOK
    <3> QED
      BY <3>1 DEF Searching, NoNewLink
  <2> QED
    BY <2>1, <2>2
<1>2. ASSUME NEW n \in Node, NEW m \in Node, Lose(n, m) PROVE Searching(k) /\ NoNewLink(k)
  <2>1. air'[k].frame = air[k].frame \/ air'[k].frame = NoFrame
    BY <1>0, <1>2, ConsumeLemma DEF Lose
  <2>2. UNCHANGED <<timers, out>>
    BY <1>2 DEF Lose, nodeVars
  <2> QED
    BY <2>1, <2>2 DEF Searching, NoNewLink, NoFrame
<1>3. ASSUME NEW n \in Node, Transmit(n) PROVE Searching(k) /\ NoNewLink(k)
  <2>1. UNCHANGED timers
    BY <1>3 DEF Transmit, nodeVars
  <2> QED
    BY <1>3, <2>1, QuietTransmit DEF Searching
<1>4. ASSUME NEW m \in Node, Freeze(m) \/ Unfreeze(m) PROVE Searching(k) /\ NoNewLink(k)
  <2>1. UNCHANGED <<out, air>>
    BY <1>4 DEF Freeze, Unfreeze
  <2>2. \/ timers' = [timers EXCEPT ![m] = @ \ {"status", "up"}]
        \/ timers' = [timers EXCEPT ![m] = @ \cup {"up"}]
    BY <1>4 DEF Freeze, Unfreeze
  <2>3. timers'[k] \ {"status", "up"} \subseteq timers[k]
    <3>1. CASE m = k
      <4>1. timers'[k] = timers[k] \ {"status", "up"} \/ timers'[k] = timers[k] \cup {"up"}
        BY <1>0, <2>2, <3>1 DEF TypeOK
      <4> QED
        BY <4>1
    <3>2. CASE m # k
      <4>1. timers'[k] = timers[k]
        BY <1>0, <2>2, <3>2 DEF TypeOK
      <4> QED
        BY <4>1
    <3> QED
      BY <3>1, <3>2
  <2>4. Searching(k)
    BY <2>3 DEF Searching
  <2> QED
    BY <2>1, <2>4 DEF NoNewLink
<1>5. CASE UNCHANGED vars
  BY <1>5 DEF vars, nodeVars, Searching, NoNewLink
<1> QED
  BY <1>1, <1>2, <1>3, <1>4, <1>5, QuietHandle, QuietInterrupted, QuietTimer
  DEF Next, Restart, PowerCycle

\* How the up-links change: a node chooses a proposer, or forgets its parent in a boot.
LEMMA UpStep ==
  ASSUME TypeOK, [Next]_vars
  PROVE  \/ up' = up
         \/ \E n \in Node : up' = [up EXCEPT ![n] = None]
         \/ \E n \in Node, q \in Node :
              /\ "locate" \in timers[n] /\ q \in responses[n]
              /\ up' = [up EXCEPT ![n] = IF @ = None THEN q ELSE @]
<1> DEFINE Goal == \/ up' = up
                   \/ \E n \in Node : up' = [up EXCEPT ![n] = None]
                   \/ \E n \in Node, q \in Node :
                        /\ "locate" \in timers[n] /\ q \in responses[n]
                        /\ up' = [up EXCEPT ![n] = IF @ = None THEN q ELSE @]
<1>1. ASSUME NEW n \in Node, NEW m \in Node, Handle(n, m) \/ Lose(n, m) \/ InterruptedTimeout(n, m)
      PROVE  up' = up
  BY <1>1 DEF Handle, ProposeLink, NoteProposal, AdoptChild, FormDownlink, StatusFromParent,
              StatusFromChild, ObeyBlackout, Lose, InterruptedTimeout, nodeVars
<1>2. ASSUME NEW n \in Node, TimerFires(n) PROVE Goal
  <2>1. CASE ChooseParent(n)
    <3>1. PICK q \in responses[n] :
            \/ up' = up
            \/ up' = [up EXCEPT ![n] = IF @ = None THEN q ELSE @]
      BY <2>1 DEF ChooseParent, FormUplink
    <3>2. q \in Node /\ "locate" \in timers[n]
      BY <2>1 DEF ChooseParent, FormUplink, Fires, TypeOK
    <3> QED
      BY <3>1, <3>2
  <2>2. CASE ~ ChooseParent(n)
    BY <1>2, <2>2 DEF TimerFires, Join, NobodyProposed, ProposalTimeout, CheckParent,
                      ParentLost, Decay
  <2> QED
    BY <2>1, <2>2
<1>3. ASSUME NEW n \in Node, Transmit(n) \/ Freeze(n) \/ Unfreeze(n) PROVE up' = up
  BY <1>3 DEF Transmit, Freeze, Unfreeze, nodeVars
<1>4. ASSUME NEW n \in Node, Restart(n) \/ PowerCycle(n) PROVE Goal
  BY <1>4 DEF Restart, PowerCycle, Boot
<1>5. CASE UNCHANGED vars
  BY <1>5 DEF vars, nodeVars
<1> QED
  BY <1>1, <1>2, <1>3, <1>4, <1>5 DEF Next

\* A node is considered by another only if it sent a LINK.
LEMMA ResponseStep ==
  ASSUME TypeOK, [Next]_vars, NEW k \in Node, NEW m \in Node, k \in responses'[m]
  PROVE  k \in responses[m] \/ air[k].frame.type = "LINK"
<1>1. ASSUME NEW n \in Node, NEW x \in Node, Handle(n, x)
      PROVE  k \in responses[m] \/ air[k].frame.type = "LINK"
  <2>1. CASE NoteProposal(n, x)
    <3>1. responses' = [responses EXCEPT ![x] = @ \cup {n}] /\ air[n].frame.type = "LINK"
      BY <2>1 DEF NoteProposal, Receive
    <3> QED
      BY <3>1 DEF TypeOK
  <2>2. CASE ~ NoteProposal(n, x)
    BY <1>1, <2>2 DEF Handle, ProposeLink, AdoptChild, FormDownlink, StatusFromParent,
                      StatusFromChild, ObeyBlackout
  <2> QED
    BY <2>1, <2>2
<1>2. ASSUME NEW n \in Node, TimerFires(n) PROVE k \in responses[m]
  <2>1. CASE ChooseParent(n)
    <3>1. responses' = responses \/ responses' = [responses EXCEPT ![n] = {}]
      BY <2>1 DEF ChooseParent, FormUplink
    <3> QED
      BY <3>1 DEF TypeOK
  <2>2. CASE ~ ChooseParent(n)
    BY <1>2, <2>2 DEF TimerFires, Join, NobodyProposed, ProposalTimeout, CheckParent,
                      ParentLost, Decay
  <2> QED
    BY <2>1, <2>2
<1>3. ASSUME NEW n \in Node, NEW x \in Node,
             \/ Lose(n, x) \/ InterruptedTimeout(n, x)
             \/ Transmit(n) \/ Freeze(n) \/ Unfreeze(n)
      PROVE  k \in responses[m]
  BY <1>3 DEF Lose, InterruptedTimeout, Transmit, Freeze, Unfreeze, nodeVars
<1>4. ASSUME NEW n \in Node, Restart(n) \/ PowerCycle(n) PROVE k \in responses[m]
  BY <1>4 DEF Restart, PowerCycle, Boot, TypeOK
<1>5. CASE UNCHANGED vars
  BY <1>5 DEF vars, nodeVars
<1> QED
  BY <1>1, <1>2, <1>3, <1>4, <1>5 DEF Next

\* A node starts to wait for proposals only in timer_cb_join, long after its last boot.
LEMMA LocateStep ==
  ASSUME TypeOK, [Next]_vars, NEW k \in Node, "locate" \in timers'[k]
  PROVE  \/ "locate" \in timers[k]
         \/ Settled(k) /\ UNCHANGED <<up, responses>>
<1>0. timers \in [Node -> SUBSET Timer]
  BY DEF TypeOK
<1>1. ASSUME NEW n \in Node, NEW m \in Node, Handle(n, m) PROVE "locate" \in timers[k]
  <2>1. \/ timers' = timers
        \/ timers' = [timers EXCEPT ![m] = @ \cup {"pending"}]
        \/ timers' = [timers EXCEPT ![m] = @ \ {"pending"}]
        \/ timers' = [timers EXCEPT ![m] = @ \ {"status"}]
    <3>1. CASE ProposeLink(n, m)
      BY <3>1 DEF ProposeLink
    <3>2. CASE AdoptChild(n, m)
      BY <3>2 DEF AdoptChild, FormDownlink
    <3>3. CASE ~ ProposeLink(n, m) /\ ~ AdoptChild(n, m)
      BY <1>1, <3>3 DEF Handle, NoteProposal, StatusFromParent, StatusFromChild, ObeyBlackout
    <3> QED
      BY <3>1, <3>2, <3>3
  <2> QED
    BY <1>0, <2>1
<1>2. ASSUME NEW n \in Node, Join(n)
      PROVE  "locate" \in timers[k] \/ (Settled(k) /\ UNCHANGED <<up, responses>>)
  BY <1>2 DEF Join, TypeOK
<1>3. ASSUME NEW n \in Node, TimerFires(n), ~ Join(n) PROVE "locate" \in timers[k]
  <2>1. \/ timers' = timers
        \/ timers' = [timers EXCEPT ![n] = (@ \ {"locate"}) \cup {"join"}]
        \/ timers' = [timers EXCEPT ![n] = (@ \ {"locate"}) \cup {"up"}]
        \/ \E t \in Timer : timers' = [timers EXCEPT ![n] = @ \ {t}]
        \/ timers' = [timers EXCEPT ![n] = @ \cup {"status"}]
    <3>1. CASE ChooseParent(n)
      BY <3>1 DEF ChooseParent, FormUplink, Timer
    <3>2. CASE ~ ChooseParent(n)
      BY <1>3, <3>2 DEF TimerFires, NobodyProposed, ProposalTimeout, CheckParent,
                        ParentLost, Decay, Timer
    <3> QED
      BY <3>1, <3>2
  <2> QED
    BY <1>0, <2>1
<1>4. ASSUME NEW n \in Node, NEW m \in Node,
             \/ Lose(n, m) \/ InterruptedTimeout(n, m)
             \/ Transmit(n) \/ Freeze(n) \/ Unfreeze(n)
      PROVE  "locate" \in timers[k]
  <2>1. \/ timers' = timers
        \/ timers' = [timers EXCEPT ![n] = @ \ {"status", "up"}]
        \/ timers' = [timers EXCEPT ![n] = @ \cup {"up"}]
        \/ timers' = [timers EXCEPT ![m] = @ \ {"pending"}]
    BY <1>4 DEF Lose, InterruptedTimeout, Transmit, Freeze, Unfreeze, nodeVars
  <2> QED
    BY <1>0, <2>1
<1>5. ASSUME NEW n \in Node, Restart(n) \/ PowerCycle(n) PROVE "locate" \in timers[k]
  <2>1. timers' = [timers EXCEPT ![n] = {}] \/ timers' = [timers EXCEPT ![n] = {"join"}]
    BY <1>5 DEF Restart, PowerCycle, Boot, FirstTimers
  <2> QED
    BY <1>0, <2>1
<1>6. CASE UNCHANGED vars
  BY <1>6 DEF vars, nodeVars
<1> QED
  BY <1>1, <1>2, <1>3, <1>4, <1>5, <1>6 DEF Next

\* Without FREEZE frames no node becomes frozen.
LEMMA NeverFrozen ==
  ASSUME TypeOK, Freezable = {}, [Next]_vars, NEW k \in Node, "FROZEN" \in flags'[k]
  PROVE  "FROZEN" \in flags[k]
<1>0. flags \in [Node -> SUBSET Flag]
  BY DEF TypeOK
<1>1. ASSUME NEW n \in Node, NEW m \in Node, Handle(n, m) PROVE "FROZEN" \in flags[k]
  <2>1. CASE ProposeLink(n, m)
    BY <2>1 DEF ProposeLink, TypeOK
  <2>2. CASE ~ ProposeLink(n, m)
    BY <1>1, <2>2 DEF Handle, NoteProposal, AdoptChild, FormDownlink, StatusFromParent,
                      StatusFromChild, ObeyBlackout, TypeOK
  <2> QED
    BY <2>1, <2>2
<1>2. ASSUME NEW n \in Node, TimerFires(n) PROVE "FROZEN" \in flags[k]
  <2>1. \/ flags' = flags
        \/ \E f \in {"LOCATING", "UPLINK_STATUS"} : flags' = [flags EXCEPT ![n] = @ \cup {f}]
        \/ \E f \in {"LOCATING", "PENDING_LINK"} : flags' = [flags EXCEPT ![n] = @ \ {f}]
    <3>1. CASE ChooseParent(n)
      BY <3>1 DEF ChooseParent, FormUplink
    <3>2. CASE ~ ChooseParent(n)
      BY <1>2, <3>2 DEF TimerFires, Join, NobodyProposed, ProposalTimeout, CheckParent,
                        ParentLost, Decay
    <3> QED
      BY <3>1, <3>2
  <2> QED
    BY <1>0, <2>1
<1>3. ASSUME NEW n \in Node, NEW m \in Node,
             Lose(n, m) \/ InterruptedTimeout(n, m) \/ Transmit(n) \/ Unfreeze(n)
      PROVE  "FROZEN" \in flags[k]
  BY <1>3 DEF Lose, InterruptedTimeout, Transmit, Unfreeze, nodeVars, TypeOK
<1>4. ASSUME NEW n \in Node PROVE ~ Freeze(n)
  BY DEF Freeze
<1>5. ASSUME NEW n \in Node, Restart(n) \/ PowerCycle(n) PROVE "FROZEN" \in flags[k]
  BY <1>5 DEF Restart, PowerCycle, Boot, TypeOK
<1>6. CASE UNCHANGED vars
  BY <1>6 DEF vars, nodeVars
<1> QED
  BY <1>1, <1>2, <1>3, <1>4, <1>5, <1>6 DEF Next

LEMMA QuietInit == Init => QuietInv
<1> SUFFICES ASSUME Init, NEW n \in Node
             PROVE  /\ "FROZEN" \notin flags[n]
                    /\ NoLinkFrames(n)
                    /\ "locate" \notin timers[n]
  BY DEF QuietInv
<1>1. out[n] = << >> /\ air[n].frame.type = "NONE"
  BY DEF Init, Silence, NoFrame
<1>2. Len(out[n]) = 0
  BY <1>1
<1>3. NoLinkFrames(n)
  BY <1>1, <1>2, SMT DEF NoLinkFrames
<1> QED
  BY <1>3 DEF Init, FirstTimers

LEMMA QuietStep ==
  ASSUME Freezable = {}, IInv, QuietInv, [Next]_vars
  PROVE  QuietInv'
<1>0. TypeOK
  BY DEF IInv
<1> SUFFICES ASSUME NEW k \in Node
             PROVE  /\ "FROZEN" \notin flags'[k]
                    /\ Searching(k)' => NoLinkFrames(k)'
                    /\ "locate" \in timers'[k] =>
                         \A m \in Node : up'[m] # k /\ k \notin responses'[m]
  BY DEF QuietInv, Searching
<1>1. "FROZEN" \notin flags'[k]
  BY <1>0, NeverFrozen DEF QuietInv
<1>2. ASSUME Searching(k)' PROVE NoLinkFrames(k)'
  BY <1>2, QuietFrames, NoNewLinkLemma DEF QuietInv, Searching
<1>3. ASSUME "locate" \in timers'[k], NEW m \in Node
      PROVE  up'[m] # k /\ k \notin responses'[m]
  <2>1. CASE Settled(k) /\ UNCHANGED <<up, responses>>
    BY <2>1 DEF Settled, QuietInv
  <2>2. CASE "locate" \in timers[k]
    <3>1. /\ \A x \in Node : up[x] # k /\ k \notin responses[x]
          /\ air[k].frame.type # "LINK"
      BY <2>2 DEF QuietInv, NoLinkFrames
    <3>2. k \notin responses'[m]
      BY <1>0, <3>1, ResponseStep
    <3>3. up'[m] # k
      <4>1. k # None
        BY NoneAssumption
      <4> QED
        BY <1>0, <3>1, <4>1, UpStep DEF TypeOK
    <3> QED
      BY <3>2, <3>3
  <2> QED
    BY <1>0, <1>3, <2>1, <2>2, LocateStep
<1> QED
  BY <1>1, <1>2, <1>3

\* A node without children may take any other node for its parent.
LEMMA AcyclicStep ==
  ASSUME IInv, QuietInv, UplinksAcyclic, [Next]_vars
  PROVE  UplinksAcyclic'
<1>0. TypeOK
  BY DEF IInv
<1> SUFFICES ASSUME NEW S \in SUBSET Node, S # {} PROVE \E n \in S : up'[n] \notin S
  BY DEF UplinksAcyclic
<1>1. CASE up' = up
  BY <1>1 DEF UplinksAcyclic
<1>2. ASSUME NEW n \in Node, up' = [up EXCEPT ![n] = None] PROVE \E x \in S : up'[x] \notin S
  <2>1. CASE n \in S
    BY <1>0, <1>2, <2>1, NoneAssumption DEF TypeOK
  <2>2. CASE n \notin S
    <3>1. PICK x \in S : up[x] \notin S
      BY DEF UplinksAcyclic
    <3>2. up'[x] = up[x]
      BY <1>0, <1>2, <2>2 DEF TypeOK
    <3> QED
      BY <3>1, <3>2
  <2> QED
    BY <2>1, <2>2
<1>3. ASSUME NEW n \in Node, NEW q \in Node, "locate" \in timers[n], q \in responses[n],
             up' = [up EXCEPT ![n] = IF @ = None THEN q ELSE @]
      PROVE  \E x \in S : up'[x] \notin S
  <2>1. \A x \in Node : up[x] # n /\ n \notin responses[x]
    BY <1>3 DEF QuietInv
  <2>2. q # n
    BY <1>3, <2>1
  <2>3. \A x \in Node \ {n} : up'[x] = up[x]
    BY <1>0, <1>3 DEF TypeOK
  <2>4. up'[n] # n
    BY <1>0, <1>3, <2>1, <2>2 DEF TypeOK
  <2>5. CASE n \notin S
    BY <2>3, <2>5 DEF UplinksAcyclic
  <2>6. CASE S = {n}
    BY <2>4, <2>6
  <2>7. CASE n \in S /\ S # {n}
    <3>1. PICK x \in S \ {n} : up[x] \notin S \ {n}
      <4>1. S \ {n} \in (SUBSET Node) \ {{}}
        BY <2>7
      <4> QED
        BY <4>1 DEF UplinksAcyclic
    <3>2. up[x] # n /\ up'[x] = up[x]
      BY <2>1, <2>3, <3>1
    <3> QED
      BY <3>1, <3>2
  <2> QED
    BY <2>5, <2>6, <2>7
<1> QED
  BY <1>0, <1>1, <1>2, <1>3, UpStep

\* The up-links of net_layer.c form a forest at all times, whatever frames are lost
\* and whenever nodes restart, as long as no node is frozen: PERIOD_LOCATE outlasts
\* what an earlier boot left behind (Settled), so a node that looks for a parent is
\* itself nobody's parent.
THEOREM UplinksStayAcyclic ==
  ASSUME Freezable = {}
  PROVE  Spec => []UplinksAcyclic
<1>1. Init => QuietInv /\ UplinksAcyclic
  <2> SUFFICES ASSUME Init PROVE UplinksAcyclic
    BY QuietInit
  <2>1. \A n \in Node : up[n] = None
    BY DEF Init
  <2> QED
    BY <2>1, NoneAssumption DEF UplinksAcyclic
<1>2. IInv /\ QuietInv /\ UplinksAcyclic /\ [Next]_vars => (QuietInv /\ UplinksAcyclic)'
  BY QuietStep, AcyclicStep
<1> QED
  BY <1>1, <1>2, Invariance, PTL DEF Spec

LEMMA ForestStep == IInv /\ QuietInv /\ [Next]_vars => [Promised!Next]_up
<1> SUFFICES ASSUME IInv, QuietInv, [Next]_vars, up' # up PROVE Promised!Next
  OBVIOUS
<1>0. up \in [Node -> Node \cup {None}]
  BY DEF IInv, TypeOK
<1>1. ASSUME NEW n \in Node, up' = [up EXCEPT ![n] = None] PROVE Promised!Detach(n)
  <2>1. up[n] # None
    BY <1>0, <1>1
  <2> QED BY <1>1, <2>1 DEF Promised!Detach
<1>2. ASSUME NEW n \in Node, NEW q \in Node, "locate" \in timers[n], q \in responses[n],
             up' = [up EXCEPT ![n] = IF @ = None THEN q ELSE @]
      PROVE  Promised!Attach(n, q)
  <2>1. \A x \in Node : up[x] # n /\ n \notin responses[x]
    BY <1>2 DEF QuietInv
  <2>2. n # Root /\ up[n] = None
    BY <1>2 DEF IInv, LocalInv, HasUplink
  <2>3. up' = [up EXCEPT ![n] = q] /\ q # n
    BY <1>2, <2>1, <2>2
  <2> QED BY <2>1, <2>2, <2>3 DEF Promised!Attach
<1> QED
  BY <1>1, <1>2, UpStep DEF IInv, Promised!Next

\* Without FREEZE frames the up-links of net_layer.c implement the forest: no frame,
\* lost or late, and no restart ever gives a parent to a node that is one.
THEOREM LinkLayerImplementsForest ==
  ASSUME Freezable = {}
  PROVE  Spec => ImplementsForest
<1>1. Init => QuietInv /\ Promised!Init
  BY QuietInit DEF Init, Promised!Init
<1>2. IInv /\ QuietInv /\ [Next]_vars => QuietInv'
  BY QuietStep
<1> QED
  BY <1>1, <1>2, ForestStep, Invariance, PTL DEF Spec, ImplementsForest, Promised!Spec

-----------------------------------------------------------------------------
(***************************************************************************)
(* The two ends of a virtual link agree, for any number of nodes, any      *)
(* table, any queue and any faults, FREEZE included: a node adopts only    *)
(* its children, is in no table twice, and the ESP-NOW peer list is        *)
(* exactly the links and the open proposal, unless a LOCATE has met the    *)
(* end of a proposal on that node.                                         *)
(*                                                                         *)
(* LinkInv /\ SearchInv, inductive given IInv, follows the LOCATE and LINK *)
(* frames on their way.  A LINK is the proposal its sender still has open, *)
(* the confirmation of a child to its parent, or a proposal whose address  *)
(* has been wiped (Wiped), which strays to every node; at most one of a    *)
(* node for another is on its way.  The receiver cannot tell them apart by *)
(* their contents: that it never takes one for the other is what is        *)
(* proved.                                                                 *)
(***************************************************************************)

-----------------------------------------------------------------------------
(***************************************************************************)
(* The invariant.                                                          *)
(***************************************************************************)

\* m waits for the answer to its proposal to d.
Open(m, d) == pending[m] = d /\ "pending" \in timers[m]

\* m waits for the answer to a proposal whose address has been wiped.
Wiped(m) == pending[m] = None /\ "pending" \in timers[m]

\* The LOCATE of d has yet to arrive at m.
Fresh(d, m) ==
  \/ \E k \in 1 .. Len(out[d]) : out[d][k].type = "LOCATE"
  \/ air[d].frame.type = "LOCATE" /\ m \in air[d].to

Tracked(f) == f.type \in {"LOCATE", "LINK"}

\* f is a frame that n may have sent.
Addressed(n, f) ==
  /\ f.type = "LOCATE" => f.dst = None
  /\ f.type = "LINK" => f.dst \in Node \ {n}

SameFrame(f, g) == Tracked(f) /\ f.type = g.type /\ f.dst = g.dst

\* The frame of n on the air.
AirShape(n) ==
  /\ n \notin air[n].to
  /\ air[n].to = {} => air[n].frame = NoFrame
  /\ Addressed(n, air[n].frame)
  /\ air[n].frame.type = "LINK" => air[n].to \subseteq {air[n].frame.dst} \/ Wiped(n)

\* No two LOCATEs of n, and no two LINKs of n for the same node, are on their way.
OutShape(n) ==
  \A k \in 1 .. Len(out[n]) :
    /\ Addressed(n, out[n][k])
    /\ ~ SameFrame(out[n][k], air[n].frame)
    /\ \A j \in 1 .. Len(out[n]) : SameFrame(out[n][k], out[n][j]) => j = k

Shape(n) == AirShape(n) /\ OutShape(n)

\* What a node that searches for a parent cannot have sent, and who cannot have
\* heard of it.
Unheard(n) ==
  /\ Searching(n) => NoLinkFrames(n)
  /\ "locate" \in timers[n] => \A m \in Node : n \notin responses[m]

NodeInv(n) ==
  /\ ~ Sent(n, "LOCATE", None) => "locate" \in timers[n]
  /\ "join" \in timers[n] => responses[n] = {}
  /\ n \notin peers[n] /\ n \notin responses[n]
  /\ Wiped(n) => \A x \in Node : pending[x] # n

\* A LINK is the open proposal of its sender or one whose address has been wiped,
\* or goes to the parent of its sender.
Justified(m, d) == ~ Sent(m, "LINK", d) => Open(m, d) \/ up[m] = d \/ Wiped(m)

\* A node that has yet to hear the LOCATE of d has nothing to do with it, unless a
\* stray proposal of it has reached d.
Unasked(m, d) ==
  Fresh(d, m) /\ ~ Wiped(m) =>
    Sent(m, "LINK", d) /\ ~ Open(m, d) /\ m \notin responses[d]

\* A node whose proposal is on its way has not been chosen.
Undecided(m, d) ==
  ~ Sent(m, "LINK", d) /\ Open(m, d) =>
    /\ m \notin responses[d] /\ up[d] # m
    /\ ~ ("PENDING_LINK" \in flags[d] /\ pending[d] = m)

\* A proposal that esp_now_add_peer has refused was never made.
Refused(m, d) ==
  "PENDING_LINK" \in flags[m] /\ pending[m] = d /\ "pending" \notin timers[m] =>
    m \notin responses[d] /\ up[d] # m /\ Sent(m, "LINK", d)

\* A node proposes only to a node it is not linked with.
Unlinked(m, d) == Open(m, d) => d \notin Links(m)

PairInv(m, d) ==
  Justified(m, d) /\ Unasked(m, d) /\ Undecided(m, d) /\ Refused(m, d) /\ Unlinked(m, d)

\* A node with the flag of a proposal and no timer for it makes no other proposal.
Stuck(n) == "PENDING_LINK" \in flags[n] /\ "pending" \notin timers[n]

\* The conjuncts of NoDuplicateLink for one node.
TableInv(n) ==
  /\ \A i, j \in Used(n) : i # j => down[n][i] # down[n][j]
  /\ up[n] \notin Children(n)
  /\ n \notin Links(n)
\* The peer list of one node: PeersMatchLinks, and what is left of it after a race.
PeersInv(n) ==
  /\ n \notin raced =>
       peers[n] = Links(n) \cup (IF "pending" \in timers[n] THEN {pendingMac[n]} ELSE {})
  /\ Links(n) \subseteq peers[n] \/ Stuck(n)
  /\ "pending" \in timers[n] =>
       /\ pendingMac[n] \notin Links(n)
       /\ pending[n] # None => pendingMac[n] = pending[n] /\ pending[n] \in peers[n]

LinkInv ==
  /\ \A n \in Node : Shape(n) /\ NodeInv(n) /\ TableInv(n) /\ PeersInv(n)
  /\ \A m, d \in Node : m # d => PairInv(m, d)

SearchInv == \A n \in Node : Unheard(n)

-----------------------------------------------------------------------------
(***************************************************************************)
(* The frames of one node.                                                 *)
(***************************************************************************)

\* A step brings no LOCATE or LINK of n that was not there.
NoNew(n) ==
  /\ Sent(n, "LOCATE", None) => Sent(n, "LOCATE", None)'
  /\ \A d \in Node : Sent(n, "LINK", d) => Sent(n, "LINK", d)'
  /\ \A m \in Node : Fresh(n, m)' => Fresh(n, m)

AirKept(n) ==
  /\ air'[n].to \subseteq air[n].to
  /\ air'[n].frame = air[n].frame \/ air'[n].frame = NoFrame
  /\ air'[n].to = {} => air'[n].frame = NoFrame

OutKept(n) ==
  \A k \in 1 .. Len(out'[n]) : Tracked(out'[n][k]) =>
    k \in 1 .. Len(out[n]) /\ out'[n][k] = out[n][k]

\* A LINK that strays is one whose address has been wiped.
StrayKept(n) == Wiped(n) /\ air[n].frame.type = "LINK" => Wiped(n)'

LEMMA NoFrameUntracked == ~ Tracked(NoFrame) /\ NoFrame.type = "NONE"
  BY DEF Tracked, NoFrame

LEMMA KeptLemma ==
  ASSUME NEW n \in Node, Shape(n), AirKept(n), OutKept(n), StrayKept(n)
  PROVE  Shape(n)' /\ NoNew(n)
<1>1. AirShape(n)'
  BY NoFrameUntracked DEF Shape, AirShape, AirKept, Addressed, StrayKept
<1>2. OutShape(n)'
  <2> SUFFICES ASSUME NEW k \in 1 .. Len(out'[n])
               PROVE  /\ Addressed(n, out'[n][k])
                      /\ ~ SameFrame(out'[n][k], air'[n].frame)
                      /\ \A j \in 1 .. Len(out'[n]) : SameFrame(out'[n][k], out'[n][j]) => j = k
    BY DEF OutShape, Addressed
  <2>1. CASE ~ Tracked(out'[n][k])
    BY <2>1 DEF Tracked, Addressed, SameFrame
  <2>2. CASE Tracked(out'[n][k])
    <3>1. k \in 1 .. Len(out[n]) /\ out'[n][k] = out[n][k]
      BY <2>2 DEF OutKept
    <3>2. Addressed(n, out'[n][k]) /\ ~ SameFrame(out'[n][k], air'[n].frame)
      BY <3>1, NoFrameUntracked DEF Shape, OutShape, AirKept, SameFrame, Tracked
    <3>3. ASSUME NEW j \in 1 .. Len(out'[n]), SameFrame(out'[n][k], out'[n][j]) PROVE j = k
      <4>1. Tracked(out'[n][j])
        BY <3>3 DEF SameFrame, Tracked
      <4>2. j \in 1 .. Len(out[n]) /\ out'[n][j] = out[n][j]
        BY <4>1 DEF OutKept
      <4> QED
        BY <3>1, <3>3, <4>2 DEF Shape, OutShape
    <3> QED
      BY <3>2, <3>3
  <2> QED
    BY <2>1, <2>2
<1>3. ASSUME NEW type \in {"LOCATE", "LINK"}, NEW d, Sent(n, type, d)
      PROVE  Sent(n, type, d)'
  BY <1>3, NoFrameUntracked DEF Sent, AirKept, OutKept, Tracked
<1>4. \A m \in Node : Fresh(n, m)' => Fresh(n, m)
  BY NoFrameUntracked DEF Fresh, AirKept, OutKept, Tracked
<1> QED
  BY <1>1, <1>2, <1>3, <1>4 DEF Shape, NoNew

LEMMA UntouchedLemma ==
  ASSUME NEW n \in Node, Shape(n), out'[n] = out[n], air'[n] = air[n], StrayKept(n)
  PROVE  Shape(n)' /\ NoNew(n)
<1>1. AirKept(n) /\ OutKept(n)
  BY DEF AirKept, OutKept, Shape, AirShape
<1> QED
  BY <1>1, KeptLemma

\* Receiving a frame of n.
LEMMA ConsumeKept ==
  ASSUME TypeOK, NEW n \in Node, NEW m \in Node, Consume(n, m), NEW x \in Node, Shape(x)
  PROVE  AirKept(x) /\ (x # n => air'[x] = air[x]) /\ air'[n].to = air[n].to \ {m}
<1> DEFINE R == air[n].to \ {m}
           a == [to |-> R, frame |-> IF R = {} THEN NoFrame ELSE air[n].frame]
<1>1. a.to = R /\ (a.frame = air[n].frame \/ a.frame = NoFrame) /\ (R = {} => a.frame = NoFrame)
  OBVIOUS
<1>2. air' = [air EXCEPT ![n] = a]
  BY DEF Consume
<1> HIDE DEF a
<1>3. air'[n] = a /\ (x # n => air'[x] = air[x])
  BY <1>2 DEF TypeOK
<1> QED
  BY <1>1, <1>3 DEF AirKept, Shape, AirShape

\* What Send and exec_blackout leave of the frames.
LEMMA SendKept ==
  ASSUME TypeOK, QueuesBounded, NEW n \in Node, NEW dst \in Node \cup {None},
         Send(n, "STATUS", dst, 0), NEW x \in Node
  PROVE  OutKept(x)
<1> DEFINE f == [type |-> "STATUS", dst |-> dst, ident |-> 0]
<1>1. f \in Frame /\ ~ Tracked(f)
  BY IdentAssumption DEF Frame, Ident, Tracked
<1>2. out' = [out EXCEPT ![n] = Enqueue(out[n], f)]
  BY DEF Send
<1> HIDE DEF f
<1>3. \A k \in 1 .. Len(Enqueue(out[n], f)) :
        \/ Enqueue(out[n], f)[k] = f
        \/ k \in 1 .. Len(out[n]) /\ Enqueue(out[n], f)[k] = out[n][k]
  BY <1>1, EnqueueLemma DEF TypeOK, QueuesBounded
<1>4. out'[n] = Enqueue(out[n], f) /\ (x # n => out'[x] = out[x])
  BY <1>2 DEF TypeOK
<1> QED
  BY <1>1, <1>3, <1>4 DEF OutKept

LEMMA BlackoutKept ==
  ASSUME TypeOK, QueuesBounded, NEW n \in Node, NEW task, ExecBlackout(n, task), NEW x \in Node
  PROVE  OutKept(x)
<1>1. /\ \A m \in Node \ {n} : out'[m] = out[m]
      /\ \A k \in 1 .. Len(out'[n]) : out'[n][k].type # "BLACKOUT" =>
           k \in 1 .. Len(out[n]) /\ out'[n][k] = out[n][k]
  BY BlackoutLemma
<1> QED
  BY <1>1 DEF OutKept, Tracked

\* A LOCATE or a LINK is put into the queue of n.
LEMMA SendTracked ==
  ASSUME TypeOK, QueuesBounded, NEW n \in Node, Shape(n), air'[n] = air[n],
         NEW type \in {"LOCATE", "LINK"}, NEW dst \in Node \cup {None}, NEW id \in Ident,
         type = "LOCATE" => dst = None, type = "LINK" => dst \in Node \ {n},
         Sent(n, type, dst), Send(n, type, dst, id), StrayKept(n)
  PROVE  /\ Shape(n)'
         /\ \A t \in {"LOCATE", "LINK"}, d \in Node \cup {None} :
              Sent(n, t, d) /\ ~ (t = type /\ d = dst) => Sent(n, t, d)'
         /\ type = "LINK" => \A m \in Node : Fresh(n, m)' => Fresh(n, m)
         /\ \A x \in Node \ {n} : out'[x] = out[x]
<1> DEFINE f == [type |-> type, dst |-> dst, ident |-> id]
           q == out[n]
<1>1. f \in Frame /\ f.type = type /\ f.dst = dst
  BY DEF Frame
<1>2. out' = [out EXCEPT ![n] = Enqueue(q, f)]
  BY DEF Send
<1> HIDE DEF f
<1>3. q \in Seq(Frame) /\ Len(q) <= OutCap /\ Len(q) \in Nat
  BY DEF TypeOK, QueuesBounded
<1>4. out'[n] = Enqueue(q, f) /\ \A x \in Node \ {n} : out'[x] = out[x]
  BY <1>2 DEF TypeOK
<1>5. \A k \in 1 .. Len(out'[n]) :
        \/ k \in 1 .. Len(q) /\ out'[n][k] = q[k]
        \/ k = Len(q) + 1 /\ out'[n][k] = f
  <2>1. CASE Len(q) < OutCap
    BY <1>1, <1>3, <1>4, <2>1, SMT DEF Enqueue
  <2>2. CASE ~ (Len(q) < OutCap)
    BY <1>4, <2>2 DEF Enqueue
  <2> QED
    BY <2>1, <2>2
<1>6. Addressed(n, f) /\ ~ SameFrame(f, air[n].frame)
  BY <1>1 DEF Addressed, SameFrame, Sent
<1>7. \A k \in 1 .. Len(q) : ~ SameFrame(f, q[k]) /\ ~ SameFrame(q[k], f)
  BY <1>1 DEF SameFrame, Sent
<1>8. OutShape(n)'
  <2> SUFFICES ASSUME NEW k \in 1 .. Len(out'[n])
               PROVE  /\ Addressed(n, out'[n][k])
                      /\ ~ SameFrame(out'[n][k], air'[n].frame)
                      /\ \A j \in 1 .. Len(out'[n]) : SameFrame(out'[n][k], out'[n][j]) => j = k
    BY DEF OutShape, Addressed
  <2>1. Addressed(n, out'[n][k]) /\ ~ SameFrame(out'[n][k], air'[n].frame)
    BY <1>5, <1>6 DEF Shape, OutShape
  <2>2. ASSUME NEW j \in 1 .. Len(out'[n]), SameFrame(out'[n][k], out'[n][j]) PROVE j = k
    <3>1. CASE k \in 1 .. Len(q) /\ out'[n][k] = q[k] /\ j \in 1 .. Len(q) /\ out'[n][j] = q[j]
      BY <2>2, <3>1 DEF Shape, OutShape
    <3>2. CASE k = Len(q) + 1 /\ j = Len(q) + 1
      BY <3>2
    <3> QED
      BY <1>5, <1>7, <2>2, <3>1, <3>2
  <2> QED
    BY <2>1, <2>2
<1>9. AirShape(n)'
  BY DEF Shape, AirShape, Addressed, StrayKept
<1>10. ASSUME NEW t \in {"LOCATE", "LINK"}, NEW d \in Node \cup {None},
              Sent(n, t, d), ~ (t = type /\ d = dst)
       PROVE  Sent(n, t, d)'
  BY <1>1, <1>5, <1>10 DEF Sent
<1>11. ASSUME type = "LINK", NEW m \in Node, Fresh(n, m)' PROVE Fresh(n, m)
  BY <1>1, <1>5, <1>11 DEF Fresh
<1> QED
  BY <1>4, <1>8, <1>9, <1>10, <1>11 DEF Shape

\* The next frame goes on the air: a LINK reaches at most its destination, unless
\* its address has been wiped.
LEMMA TransmitShape ==
  ASSUME TypeOK, LinkInv, NEW n \in Node, Transmit(n)
  PROVE  Shape(n)' /\ NoNew(n)
<1> DEFINE f == Head(out[n])
           R == Receivers(n, f.dst)
           a == [to |-> R, frame |-> IF R = {} THEN NoFrame ELSE f]
           q == out[n]
<1>1. /\ q \in Seq(Frame) /\ q # << >> /\ air[n].to = {}
      /\ out' = [out EXCEPT ![n] = Tail(q)]
      /\ air' = [air EXCEPT ![n] = a]
  BY DEF Transmit, TypeOK
<1>2. /\ 1 \in 1 .. Len(q) /\ f = q[1]
      /\ \A k \in 1 .. Len(Tail(q)) :
           k \in Nat /\ k + 1 \in 1 .. Len(q) /\ k + 1 # 1 /\ Tail(q)[k] = q[k+1]
  BY <1>1, SMT
<1>3. a.to = R /\ (R = {} => a.frame = NoFrame) /\ (a.frame = f \/ a.frame = NoFrame)
  OBVIOUS
<1>4. Addressed(n, f)
  BY <1>2 DEF LinkInv, Shape, OutShape
<1>5. n \notin R
  BY DEF Receivers, LinkInv, NodeInv
<1>6. ASSUME f.type = "LINK", ~ Wiped(n) PROVE R \subseteq {f.dst}
  <2>1. f.dst \in Node \ {n} /\ ~ Sent(n, "LINK", f.dst)
    BY <1>2, <1>4, <1>6 DEF Addressed, Sent
  <2>2. Justified(n, f.dst)
    BY <2>1 DEF LinkInv, PairInv
  <2>3. f.dst # None
    BY <2>1, NoneAssumption
  <2>4. f.dst = pending[n] \/ f.dst \in Links(n)
    BY <1>6, <2>1, <2>2, <2>3 DEF Justified, Open, Links
  <2> QED
    BY <2>3, <2>4 DEF Receivers
<1> HIDE DEF a, R, f
<1>7. out'[n] = Tail(q) /\ air'[n] = a /\ (Wiped(n)' <=> Wiped(n))
  BY <1>1 DEF Transmit, nodeVars, Wiped, TypeOK
<1>8. AirShape(n)'
  <2>1. a.frame.type = "LINK" => f.type = "LINK" /\ a.frame = f
    BY <1>3, NoFrameUntracked
  <2> QED
    BY <1>3, <1>4, <1>5, <1>6, <1>7, <2>1, NoFrameUntracked DEF AirShape, Addressed
<1>9. OutShape(n)'
  <2> SUFFICES ASSUME NEW k \in 1 .. Len(Tail(q))
               PROVE  /\ Addressed(n, Tail(q)[k])
                      /\ ~ SameFrame(Tail(q)[k], a.frame)
                      /\ \A j \in 1 .. Len(Tail(q)) : SameFrame(Tail(q)[k], Tail(q)[j]) => j = k
    BY <1>7 DEF OutShape, Addressed
  <2>0. OutShape(n)
    BY DEF LinkInv, Shape
  <2>1. Addressed(n, Tail(q)[k])
    BY <1>2, <2>0 DEF OutShape
  <2>2. ~ SameFrame(Tail(q)[k], f)
    BY <1>2, <2>0 DEF OutShape
  <2>3. ~ SameFrame(Tail(q)[k], a.frame)
    BY <1>3, <2>2, NoFrameUntracked DEF SameFrame, Tracked
  <2>4. ASSUME NEW j \in 1 .. Len(Tail(q)), SameFrame(Tail(q)[k], Tail(q)[j]) PROVE j = k
    <3>1. j + 1 = k + 1
      BY <1>2, <2>0, <2>4 DEF OutShape
    <3> QED
      BY <1>2, <3>1
  <2> QED
    BY <2>1, <2>3, <2>4
<1>10. ASSUME NEW type \in {"LOCATE", "LINK"}, NEW d, Sent(n, type, d) PROVE Sent(n, type, d)'
  <2>1. ~ (f.type = type /\ f.dst = d)
    BY <1>2, <1>10 DEF Sent
  <2>2. ~ (a.frame.type = type /\ a.frame.dst = d)
    BY <1>3, <2>1, NoFrameUntracked
  <2> QED
    BY <1>2, <1>7, <1>10, <2>2 DEF Sent
<1>11. ASSUME NEW m \in Node, Fresh(n, m)' PROVE Fresh(n, m)
  <2>1. a.frame.type = "LOCATE" => q[1].type = "LOCATE"
    BY <1>2, <1>3, NoFrameUntracked
  <2> QED
    BY <1>2, <1>7, <1>11, <2>1 DEF Fresh
<1> QED
  BY <1>8, <1>9, <1>10, <1>11 DEF Shape, NoNew

-----------------------------------------------------------------------------
(***************************************************************************)
(* Steps that do not concern the search for a parent.                      *)
(***************************************************************************)

LEMMA UnheardStep ==
  ASSUME IInv, SearchInv, [Next]_vars
  PROVE  SearchInv'
<1>0. TypeOK
  BY DEF IInv
<1> SUFFICES ASSUME NEW k \in Node PROVE Unheard(k)'
  BY DEF SearchInv
<1>1. ASSUME Searching(k)' PROVE NoLinkFrames(k)'
  BY <1>1, QuietFrames, NoNewLinkLemma DEF SearchInv, Unheard
<1>2. ASSUME "locate" \in timers'[k], NEW m \in Node PROVE k \notin responses'[m]
  <2>1. CASE Settled(k) /\ UNCHANGED <<up, responses>>
    BY <2>1 DEF Settled
  <2>2. CASE "locate" \in timers[k]
    <3>1. Searching(k)
      BY <2>2 DEF Searching
    <3>2. k \notin responses[m] /\ air[k].frame.type # "LINK"
      BY <2>2, <3>1 DEF SearchInv, Unheard, NoLinkFrames
    <3> QED
      BY <1>0, <3>2, ResponseStep
  <2> QED
    BY <1>0, <1>2, <2>1, <2>2, LocateStep
<1> QED
  BY <1>1, <1>2 DEF Unheard

\* A step that leaves the links, the proposals and the searches alone.
Calm ==
  /\ UNCHANGED <<up, down, peers, pending, pendingMac, responses, raced>>
  /\ \A n \in Node :
       /\ "PENDING_LINK" \in flags'[n] <=> "PENDING_LINK" \in flags[n]
       /\ \A t \in {"join", "locate", "pending"} : t \in timers'[n] <=> t \in timers[n]

LEMMA CalmStep ==
  ASSUME LinkInv, Calm, \A n \in Node : Shape(n)' /\ NoNew(n)
  PROVE  LinkInv'
<1>0. \A n \in Node : (Wiped(n)' <=> Wiped(n)) /\ (Stuck(n)' <=> Stuck(n))
  BY DEF Calm, Wiped, Stuck
<1>1. ASSUME NEW n \in Node PROVE NodeInv(n)'
  BY <1>0 DEF LinkInv, Calm, NoNew, NodeInv
<1>2. ASSUME NEW n \in Node PROVE TableInv(n)' /\ PeersInv(n)'
  <2>1. Used(n)' = Used(n) /\ Children(n)' = Children(n) /\ Links(n)' = Links(n)
    BY DEF Calm, Links, Children, Used
  <2> QED
    BY <1>0, <2>1 DEF LinkInv, Calm, TableInv, PeersInv
<1>3. ASSUME NEW m \in Node, NEW d \in Node, m # d PROVE PairInv(m, d)'
  <2>1. PairInv(m, d) /\ NoNew(m) /\ NoNew(d)
    BY <1>3 DEF LinkInv
  <2>2. Open(m, d)' <=> Open(m, d)
    BY DEF Calm, Open
  <2>3. Justified(m, d)' /\ Unasked(m, d)'
    BY <1>0, <2>1, <2>2 DEF PairInv, Justified, Unasked, NoNew, Calm
  <2>4. Undecided(m, d)' /\ Refused(m, d)'
    BY <2>1, <2>2 DEF PairInv, Undecided, Refused, NoNew, Calm
  <2>5. Unlinked(m, d)'
    BY <2>1, <2>2 DEF PairInv, Unlinked, Calm, Links, Children, Used
  <2> QED
    BY <2>3, <2>4, <2>5 DEF PairInv
<1> QED
  BY <1>1, <1>2, <1>3 DEF LinkInv

LEMMA CalmHandle ==
  ASSUME IInv, LinkInv, NEW n \in Node, NEW m \in Node,
         StatusFromParent(n, m) \/ StatusFromChild(n, m) \/ ObeyBlackout(n, m) \/ Lose(n, m)
  PROVE  LinkInv'
<1>0. TypeOK /\ QueuesBounded
  BY DEF IInv
<1>1. Consume(n, m)
  BY DEF StatusFromParent, StatusFromChild, ObeyBlackout, Lose, Receive
<1>2. Calm
  <2>1. flags \in [Node -> SUBSET Flag] /\ timers \in [Node -> SUBSET Timer]
    BY <1>0 DEF TypeOK
  <2>2. CASE StatusFromParent(n, m)
    BY <2>1, <2>2 DEF StatusFromParent, Calm
  <2>3. CASE ~ StatusFromParent(n, m)
    BY <2>3 DEF StatusFromChild, ObeyBlackout, Lose, nodeVars, Calm
  <2> QED
    BY <2>2, <2>3
<1>3. ASSUME NEW x \in Node PROVE Shape(x)' /\ NoNew(x)
  <2>1. Shape(x)
    BY DEF LinkInv
  <2>2. AirKept(x)
    BY <1>0, <1>1, <2>1, ConsumeKept
  <2>3. OutKept(x)
    <3>1. CASE StatusFromChild(n, m)
      BY <1>0, <3>1, SendKept DEF StatusFromChild
    <3>2. CASE ObeyBlackout(n, m)
      BY <1>0, <3>2, BlackoutKept DEF ObeyBlackout
    <3>3. CASE StatusFromParent(n, m) \/ Lose(n, m)
      BY <3>3 DEF StatusFromParent, Lose, OutKept
    <3> QED
      BY <3>1, <3>2, <3>3
  <2>4. StrayKept(x)
    BY <1>2 DEF Calm, StrayKept, Wiped
  <2> QED
    BY <2>1, <2>2, <2>3, <2>4, KeptLemma
<1> QED
  BY <1>2, <1>3, CalmStep

LEMMA CalmTimer ==
  ASSUME IInv, LinkInv, NEW n \in Node, CheckParent(n) \/ ParentLost(n)
  PROVE  LinkInv'
<1>0. TypeOK /\ QueuesBounded
  BY DEF IInv
<1>1. Calm
  <2>1. /\ UNCHANGED <<up, down, peers, pending, pendingMac, responses, raced>>
        /\ \/ flags' = flags
           \/ flags' = [flags EXCEPT ![n] = @ \cup {"UPLINK_STATUS"}]
        /\ \/ timers' = [timers EXCEPT ![n] = @ \ {"status"}]
           \/ timers' = [timers EXCEPT ![n] = @ \cup {"status"}]
    BY DEF CheckParent, ParentLost
  <2>2. flags \in [Node -> SUBSET Flag] /\ timers \in [Node -> SUBSET Timer]
    BY <1>0 DEF TypeOK
  <2> QED
    BY <2>1, <2>2 DEF Calm
<1>2. ASSUME NEW x \in Node PROVE Shape(x)' /\ NoNew(x)
  <2>1. Shape(x) /\ AirKept(x)
    BY DEF LinkInv, CheckParent, ParentLost, AirKept, Shape, AirShape
  <2>2. OutKept(x)
    <3>1. CASE CheckParent(n)
      <4>1. up[n] \in Node \cup {None} /\ Send(n, "STATUS", up[n], 0)
        BY <1>0, <3>1 DEF CheckParent, TypeOK
      <4> QED
        BY <1>0, <4>1, SendKept
    <3>2. CASE ParentLost(n)
      BY <1>0, <3>2, BlackoutKept DEF ParentLost
    <3> QED
      BY <3>1, <3>2
  <2>3. StrayKept(x)
    BY <1>1 DEF Calm, StrayKept, Wiped
  <2> QED
    BY <2>1, <2>2, <2>3, KeptLemma
<1> QED
  BY <1>1, <1>2, CalmStep

LEMMA CalmRest ==
  ASSUME IInv, LinkInv, NEW n \in Node, Transmit(n) \/ Freeze(n) \/ Unfreeze(n) \/ UNCHANGED vars
  PROVE  LinkInv'
<1>0. TypeOK
  BY DEF IInv
<1>1. Calm
  <2>1. flags \in [Node -> SUBSET Flag] /\ timers \in [Node -> SUBSET Timer]
    BY <1>0 DEF TypeOK
  <2>2. CASE Freeze(n)
    BY <2>1, <2>2 DEF Freeze, Calm
  <2>3. CASE Unfreeze(n)
    BY <2>1, <2>3 DEF Unfreeze, Calm
  <2>4. CASE Transmit(n) \/ UNCHANGED vars
    BY <2>4 DEF Transmit, vars, nodeVars, Calm
  <2> QED
    BY <2>2, <2>3, <2>4
<1>2. ASSUME NEW x \in Node PROVE Shape(x)' /\ NoNew(x)
  <2>1. CASE Transmit(n) /\ x = n
    BY <1>0, <2>1, TransmitShape
  <2>2. CASE ~ (Transmit(n) /\ x = n)
    <3>1. out'[x] = out[x] /\ air'[x] = air[x]
      BY <1>0, <2>2 DEF Transmit, Freeze, Unfreeze, vars, TypeOK
    <3>2. StrayKept(x)
      BY <1>1 DEF Calm, StrayKept, Wiped
    <3> QED
      BY <3>1, <3>2, UntouchedLemma DEF LinkInv
  <2> QED
    BY <2>1, <2>2
<1> QED
  BY <1>1, <1>2, CalmStep

-----------------------------------------------------------------------------
(***************************************************************************)
(* The steps of the search for a parent.                                   *)
(***************************************************************************)

\* A LOCATE that someone has yet to hear, and a LINK on the air, are on their way.
LEMMA FreshIsSent ==
  ASSUME NEW d \in Node, NEW m \in Node, Shape(d), Fresh(d, m)
  PROVE  ~ Sent(d, "LOCATE", None)
  BY DEF Fresh, Shape, AirShape, OutShape, Addressed, Sent

\* A node whose LOCATE is on its way has no link, no proposal and no proposer
\* that has chosen it.
LEMMA LocatingLemma ==
  ASSUME IInv, SearchInv, LinkInv, NEW n \in Node, ~ Sent(n, "LOCATE", None)
  PROVE  /\ "locate" \in timers[n] /\ up[n] = None /\ n # Root
         /\ "PENDING_LINK" \notin flags[n] /\ "pending" \notin timers[n] /\ ~ Wiped(n)
         /\ \A d \in Node : ~ Open(n, d) /\ n \notin responses[d]
<1>1. "locate" \in timers[n]
  BY DEF LinkInv, NodeInv
<1>2. LocalInv(n)
  BY DEF IInv
<1>3. up[n] = None /\ n # Root /\ "PENDING_LINK" \notin flags[n]
  BY <1>1, <1>2 DEF LocalInv, HasUplink
<1>4. "pending" \notin timers[n]
  BY <1>2, <1>3 DEF LocalInv
<1> QED
  BY <1>1, <1>3, <1>4 DEF Open, Wiped, SearchInv, Unheard

\* A node that has proposed or has a parent is not searching.
LEMMA OpenLemma ==
  ASSUME IInv, SearchInv, LinkInv, NEW m \in Node, "pending" \in timers[m] \/ "PENDING_LINK" \in flags[m]
  PROVE  /\ "PENDING_LINK" \in flags[m] /\ Sent(m, "LOCATE", None)
         /\ "locate" \notin timers[m] /\ "join" \notin timers[m]
         /\ \A x \in Node : ~ Fresh(m, x)
<1>1. LocalInv(m)
  BY DEF IInv
<1>2. "PENDING_LINK" \in flags[m]
  BY <1>1 DEF LocalInv
<1>3. "locate" \notin timers[m] /\ "join" \notin timers[m]
  BY <1>1, <1>2 DEF LocalInv
<1>4. Sent(m, "LOCATE", None)
  BY <1>3 DEF LinkInv, NodeInv
<1> QED
  BY <1>2, <1>3, <1>4, FreshIsSent DEF LinkInv

LEMMA LinkProposeLink ==
  ASSUME IInv, SearchInv, LinkInv, NEW n \in Node, NEW m \in Node, ProposeLink(n, m)
  PROVE  LinkInv'
<1>0. TypeOK /\ QueuesBounded
  BY DEF IInv
<1>1. /\ Consume(n, m) /\ m \in air[n].to /\ air[n].frame.type = "LOCATE"
      /\ "PENDING_LINK" \notin flags[m]
      /\ UNCHANGED <<up, down, responses, raced>>
  BY DEF ProposeLink, Receive, MayPropose
<1>2. m # n
  BY <1>1 DEF LinkInv, Shape, AirShape
<1>3. Fresh(n, m) /\ ~ Sent(n, "LOCATE", None)
  <2>1. Fresh(n, m)
    BY <1>1 DEF Fresh
  <2> QED
    BY <2>1, FreshIsSent DEF LinkInv
<1>4. /\ up[n] = None /\ "PENDING_LINK" \notin flags[n] /\ "pending" \notin timers[n]
      /\ \A d \in Node : ~ Open(n, d)
  BY <1>3, LocatingLemma
<1>6. "pending" \notin timers[m] /\ ~ Wiped(m) /\ \A d \in Node : ~ Open(m, d)
  BY <1>1 DEF IInv, LocalInv, Open, Wiped
<1>5. Sent(m, "LINK", n) /\ m \notin responses[n]
  BY <1>2, <1>3, <1>6 DEF LinkInv, PairInv, Unasked
<1>7. /\ flags'[m] = flags[m] \cup {"PENDING_LINK"} /\ pending'[m] = n /\ pendingMac'[m] = n
      /\ \A x \in Node \ {m} : /\ flags'[x] = flags[x] /\ pending'[x] = pending[x]
                               /\ pendingMac'[x] = pendingMac[x]
  BY <1>0 DEF ProposeLink, TypeOK
<1>11. ASSUME NEW x \in Node PROVE (Wiped(x)' <=> Wiped(x)) /\ StrayKept(x)
  <2>1. CASE x = m
    BY <1>6, <1>7, <2>1, NoneAssumption DEF Wiped, StrayKept
  <2>2. CASE x # m
    <3>1. timers'[x] = timers[x]
      BY <1>0, <2>2 DEF ProposeLink, TypeOK
    <3> QED
      BY <1>7, <2>2, <3>1 DEF Wiped, StrayKept
  <2> QED
    BY <2>1, <2>2
<1>12. ASSUME NEW x \in Node, Wiped(x)' PROVE \A y \in Node : pending'[y] # x
  <2>1. Wiped(x) /\ x # n
    BY <1>4, <1>11, <1>12 DEF Wiped
  <2> QED
    BY <1>7, <2>1 DEF LinkInv, NodeInv
<1>13. Links(m) \subseteq peers[m]
  BY <1>1 DEF LinkInv, PeersInv, Stuck
<1>8. \A x \in Node : AirKept(x) /\ (x # n => air'[x] = air[x])
  BY <1>0, <1>1, ConsumeKept DEF LinkInv
<1>9. CASE AddRefused(m, n)
  <2>1. UNCHANGED <<peers, timers, out>>
    BY <1>9 DEF ProposeLink
  <2>2. \A x \in Node : Shape(x)' /\ NoNew(x)
    BY <1>8, <1>11, <2>1, KeptLemma DEF LinkInv, OutKept
  <2>3. ASSUME NEW x \in Node PROVE NodeInv(x)' /\ TableInv(x)'
    BY <1>1, <1>12, <2>1, <2>2 DEF LinkInv, NodeInv, NoNew, TableInv, Links, Children, Used
  <2>4. ASSUME NEW x \in Node PROVE PeersInv(x)'
    <3>1. Links(x)' = Links(x) /\ PeersInv(x) /\ (x \in raced' <=> x \in raced)
      BY <1>1 DEF LinkInv, Links, Children, Used
    <3> QED
      BY <1>6, <1>7, <1>13, <2>1, <3>1 DEF PeersInv, Stuck
  <2>5. ASSUME NEW a \in Node, NEW b \in Node, a # b PROVE PairInv(a, b)'
    <3>0. PairInv(a, b) /\ NoNew(a) /\ NoNew(b)
      BY <2>2, <2>5 DEF LinkInv
    <3>1. Open(a, b)' <=> Open(a, b)
      BY <1>6, <1>7, <2>1 DEF Open
    <3>2. Justified(a, b)' /\ Unasked(a, b)'
      BY <1>1, <1>11, <3>0, <3>1 DEF PairInv, Justified, Unasked, NoNew
    <3>3. Undecided(a, b)'
      BY <1>1, <1>4, <1>7, <3>0, <3>1 DEF PairInv, Undecided, NoNew
    <3>4. Refused(a, b)'
      <4>1. CASE a = m /\ b = n
        BY <1>1, <1>4, <1>5, <3>0, <4>1, NoneAssumption DEF Refused, NoNew
      <4>2. CASE a # m
        BY <1>1, <1>7, <2>1, <3>0, <4>2 DEF PairInv, Refused, NoNew
      <4>3. CASE a = m /\ b # n
        BY <1>7, <4>3 DEF Refused
      <4> QED
        BY <4>1, <4>2, <4>3
    <3>5. Unlinked(a, b)'
      BY <1>1, <3>0, <3>1 DEF PairInv, Unlinked, Links, Children, Used
    <3> QED
      BY <3>2, <3>3, <3>4, <3>5 DEF PairInv
  <2> QED
    BY <2>2, <2>3, <2>4, <2>5 DEF LinkInv
<1>10. CASE ~ AddRefused(m, n)
  <2> DEFINE id == air[n].frame.ident
  <2>1. /\ peers' = [peers EXCEPT ![m] = @ \cup {n}]
        /\ timers' = [timers EXCEPT ![m] = @ \cup {"pending"}]
        /\ Send(m, "LINK", n, id) /\ id \in Ident
    BY <1>0, <1>1, <1>10, AirLemma DEF ProposeLink
  <2> HIDE DEF id
  <2>2. /\ n \notin peers[m] /\ peers'[m] = peers[m] \cup {n}
        /\ timers'[m] = timers[m] \cup {"pending"}
        /\ \A x \in Node \ {m} : peers'[x] = peers[x] /\ timers'[x] = timers[x]
    BY <1>0, <1>10, <2>1 DEF AddRefused, TypeOK
  <2>3. /\ Shape(m)' /\ \A x \in Node \ {m} : out'[x] = out[x]
        /\ \A t \in {"LOCATE", "LINK"}, d \in Node \cup {None} :
             Sent(m, t, d) /\ ~ (t = "LINK" /\ d = n) => Sent(m, t, d)'
        /\ \A x \in Node : Fresh(m, x)' => Fresh(m, x)
    BY <1>0, <1>2, <1>5, <1>8, <1>11, <2>1, SendTracked DEF LinkInv
  <2>4. \A x \in Node \ {m} : Shape(x)' /\ NoNew(x)
    BY <1>8, <1>11, <2>3, KeptLemma DEF LinkInv, OutKept
  <2>5. \A x \in Node : (Sent(x, "LOCATE", None) => Sent(x, "LOCATE", None)')
    BY <2>3, <2>4 DEF NoNew
  <2>6. ~ Fresh(n, m)'
    <3>1. m \notin air'[n].to
      BY <1>0, <1>1, ConsumeKept DEF LinkInv
    <3>2. \A k \in 1 .. Len(out[n]) : out[n][k].type # "LOCATE"
      BY <1>1 DEF LinkInv, Shape, OutShape, AirShape, Addressed, SameFrame, Tracked
    <3>3. out'[n] = out[n]
      BY <1>2, <2>3
    <3> QED
      BY <3>1, <3>2, <3>3 DEF Fresh
  <2>7. ASSUME NEW x \in Node PROVE NodeInv(x)' /\ TableInv(x)'
    <3>1. \A t \in {"join", "locate"} : t \in timers'[x] <=> t \in timers[x]
      BY <2>2
    <3>2. x \notin peers'[x]
      BY <1>2, <2>2 DEF LinkInv, NodeInv
    <3> QED
      BY <1>1, <1>12, <2>5, <3>1, <3>2 DEF LinkInv, NodeInv, TableInv, Links, Children, Used
  <2>8. ASSUME NEW x \in Node PROVE PeersInv(x)'
    <3>1. Links(x)' = Links(x) /\ PeersInv(x) /\ (x \in raced' <=> x \in raced)
      BY <1>1 DEF LinkInv, Links, Children, Used
    <3>2. CASE x = m
      <4>1. n \notin Links(m) /\ Links(m) \subseteq peers'[m] /\ n \in peers'[m]
        BY <1>13, <2>2
      <4> QED
        BY <1>6, <1>7, <2>2, <3>1, <3>2, <4>1 DEF PeersInv, Stuck
    <3>3. CASE x # m
      BY <1>7, <2>2, <3>1, <3>3 DEF PeersInv, Stuck
    <3> QED
      BY <3>2, <3>3
  <2>9. ASSUME NEW a \in Node, NEW b \in Node, a # b PROVE PairInv(a, b)'
    <3>0. PairInv(a, b)
      BY <2>9 DEF LinkInv
    <3>1. CASE a = m /\ b = n
      <4>1. Open(m, n)'
        BY <1>7, <2>2 DEF Open
      <4>2. n \notin Links(m)'
        BY <1>1, <1>13, <2>2 DEF Links, Children, Used
      <4>3. Justified(m, n)' /\ Unasked(m, n)' /\ Unlinked(m, n)'
        BY <2>6, <4>1, <4>2 DEF Justified, Unasked, Unlinked
      <4>4. Undecided(m, n)'
        BY <1>1, <1>2, <1>4, <1>5, <1>7, NoneAssumption DEF Undecided
      <4>5. Refused(m, n)'
        BY <2>2 DEF Refused
      <4> QED
        BY <3>1, <4>3, <4>4, <4>5 DEF PairInv
    <3>2. CASE a = m /\ b # n
      <4>1. /\ ~ Open(m, b)' /\ pending'[m] # b
            /\ Sent(m, "LINK", b) => Sent(m, "LINK", b)'
            /\ Fresh(b, m)' => Fresh(b, m)
        BY <1>7, <2>3, <2>4, <2>9, <3>2 DEF Open, NoNew
      <4>2. ~ Open(m, b)
        BY <1>6
      <4> QED
        BY <1>1, <1>6, <1>11, <3>0, <3>2, <4>1, <4>2
        DEF PairInv, Justified, Unasked, Undecided, Refused, Unlinked
    <3>3. CASE a # m
      <4>1. /\ Open(a, b)' <=> Open(a, b)
            /\ Sent(a, "LINK", b) => Sent(a, "LINK", b)'
            /\ Fresh(b, a)' => Fresh(b, a)
        BY <1>7, <2>2, <2>3, <2>4, <3>3 DEF Open, NoNew
      <4>2. Justified(a, b)' /\ Unasked(a, b)' /\ Unlinked(a, b)'
        BY <1>1, <1>11, <3>0, <4>1
        DEF PairInv, Justified, Unasked, Unlinked, Links, Children, Used
      <4>3. Refused(a, b)'
        BY <1>1, <1>7, <2>2, <3>0, <3>3, <4>1 DEF PairInv, Refused
      <4>4. Undecided(a, b)'
        BY <1>1, <1>4, <1>7, <3>0, <3>3, <4>1 DEF PairInv, Undecided
      <4> QED
        BY <4>2, <4>3, <4>4 DEF PairInv
    <3> QED
      BY <3>1, <3>2, <3>3
  <2> QED
    BY <2>3, <2>4, <2>7, <2>8, <2>9 DEF LinkInv
<1> QED
  BY <1>9, <1>10

\* The LINK that m receives is for m, unless it strays, and is gone from the air then.
LEMMA LinkReceived ==
  ASSUME TypeOK, LinkInv, NEW n \in Node, NEW m \in Node, Receive(n, m, "LINK"), ~ Wiped(n)
  PROVE  /\ m # n /\ ~ Sent(n, "LINK", m)
         /\ UNCHANGED out => Sent(n, "LINK", m)'
<1>1. /\ Consume(n, m) /\ m \in air[n].to /\ air[n].frame.type = "LINK"
      /\ Shape(n) /\ AirShape(n) /\ OutShape(n)
  BY DEF Receive, LinkInv, Shape
<1>2. m # n /\ air[n].frame.dst = m /\ air[n].to = {m}
  BY <1>1 DEF AirShape
<1>3. ~ Sent(n, "LINK", m)
  BY <1>1, <1>2 DEF Sent
<1>4. air'[n].frame = NoFrame
  <2>1. air'[n].to = {} /\ AirKept(n)
    BY <1>1, <1>2, ConsumeKept
  <2> QED
    BY <2>1 DEF AirKept
<1>5. ASSUME UNCHANGED out PROVE Sent(n, "LINK", m)'
  <2>1. \A k \in 1 .. Len(out[n]) : ~ (out[n][k].type = "LINK" /\ out[n][k].dst = m)
    BY <1>1, <1>2 DEF OutShape, SameFrame, Tracked
  <2> QED
    BY <1>4, <1>5, <2>1, NoFrameUntracked DEF Sent
<1> QED
  BY <1>2, <1>3, <1>5

LEMMA LinkNoteProposal ==
  ASSUME IInv, SearchInv, LinkInv, NEW n \in Node, NEW m \in Node, NoteProposal(n, m)
  PROVE  LinkInv'
<1>0. TypeOK
  BY DEF IInv
<1>1. /\ Receive(n, m, "LINK") /\ Consume(n, m) /\ "LOCATING" \in flags[m]
      /\ UNCHANGED <<flags, up, down, peers, pending, pendingMac, timers, raced, out>>
      /\ responses' = [responses EXCEPT ![m] = @ \cup {n}]
  BY DEF NoteProposal, Receive, Answers
<1>2. m # n /\ (~ Wiped(n) => ~ Sent(n, "LINK", m) /\ Sent(n, "LINK", m)')
  <2>1. m # n
    BY <1>1 DEF Receive, LinkInv, Shape, AirShape
  <2> QED
    BY <1>0, <1>1, <2>1, LinkReceived
<1>8. \A x \in Node : (Wiped(x)' <=> Wiped(x)) /\ StrayKept(x)
  BY <1>1 DEF Wiped, StrayKept
<1>3. "join" \notin timers[m]
  BY <1>1 DEF IInv, LocalInv
<1>4. responses'[m] = responses[m] \cup {n} /\ \A x \in Node \ {m} : responses'[x] = responses[x]
  BY <1>0, <1>1 DEF TypeOK
<1>5. \A x \in Node : Shape(x)' /\ NoNew(x)
  <2> TAKE x \in Node
  <2>1. AirKept(x) /\ OutKept(x)
    BY <1>0, <1>1, ConsumeKept DEF LinkInv, OutKept
  <2> QED
    BY <1>8, <2>1, KeptLemma DEF LinkInv
<1>6. ASSUME NEW x \in Node PROVE NodeInv(x)' /\ TableInv(x)' /\ PeersInv(x)'
  <2>1. NodeInv(x)'
    BY <1>1, <1>2, <1>3, <1>4, <1>5, <1>8 DEF LinkInv, NodeInv, NoNew
  <2>2. Used(x)' = Used(x) /\ Children(x)' = Children(x) /\ Links(x)' = Links(x)
    BY <1>1 DEF Links, Children, Used
  <2> QED
    BY <1>1, <2>1, <2>2 DEF LinkInv, TableInv, PeersInv, Stuck
<1>7. ASSUME NEW a \in Node, NEW b \in Node, a # b PROVE PairInv(a, b)'
  <2>0. /\ PairInv(a, b) /\ (Open(a, b)' <=> Open(a, b))
        /\ Sent(a, "LINK", b) => Sent(a, "LINK", b)'
        /\ Fresh(b, a)' => Fresh(b, a)
    BY <1>1, <1>5, <1>7 DEF LinkInv, Open, NoNew
  <2>1. Justified(a, b)' /\ Unlinked(a, b)'
    BY <1>1, <1>8, <2>0 DEF PairInv, Justified, Unlinked, Links, Children, Used
  <2>2. CASE a = n /\ b = m
    <3>1. CASE Wiped(n)
      <4>1. ~ Open(a, b) /\ "pending" \in timers[a]
        BY <2>2, <3>1, NoneAssumption DEF Wiped, Open
      <4> QED
        BY <1>1, <1>8, <2>0, <2>1, <2>2, <3>1, <4>1 DEF PairInv, Unasked, Undecided, Refused
    <3>2. CASE ~ Wiped(n)
      <4>1. ~ Fresh(b, a)
        BY <1>2, <2>0, <2>2, <3>2 DEF PairInv, Unasked
      <4>2. ~ ("PENDING_LINK" \in flags[a] /\ pending[a] = b /\ "pending" \notin timers[a])
        BY <1>2, <2>0, <2>2, <3>2 DEF PairInv, Refused
      <4> QED
        BY <1>1, <1>2, <2>0, <2>1, <2>2, <3>2, <4>1, <4>2
        DEF PairInv, Unasked, Undecided, Refused
    <3> QED
      BY <3>1, <3>2
  <2>3. CASE ~ (a = n /\ b = m)
    <3>1. a \in responses'[b] <=> a \in responses[b]
      BY <1>4, <2>3
    <3> QED
      BY <1>1, <1>8, <2>0, <2>1, <3>1 DEF PairInv, Unasked, Undecided, Refused
  <2> QED
    BY <2>2, <2>3
<1> QED
  BY <1>5, <1>6, <1>7 DEF LinkInv

\* A LINK that passes for the confirmation of a child is one, and it is the answer
\* to a proposal that is still open.
LEMMA ConfirmLemma ==
  ASSUME IInv, SearchInv, LinkInv, NEW n \in Node, NEW m \in Node,
         Receive(n, m, "LINK"), Confirms(n, m)
  PROVE  /\ m # n /\ up[n] = m /\ Open(m, n) /\ n \notin Links(m)
         /\ Sent(m, "LINK", n) /\ FreeSlots(m) # {}
<1>2. "PENDING_LINK" \in flags[m] /\ pending[m] = n
  BY DEF Confirms
<1>6. ~ Wiped(n)
  BY <1>2 DEF LinkInv, NodeInv
<1>1. m # n /\ ~ Sent(n, "LINK", m)
  BY <1>6, LinkReceived DEF IInv
<1>3. PairInv(n, m) /\ PairInv(m, n)
  BY <1>1 DEF LinkInv
<1>4. up[n] = m
  <2>1. ~ Open(n, m)
    BY <1>1, <1>2, <1>3 DEF PairInv, Undecided
  <2> QED
    BY <1>1, <1>3, <1>6, <2>1 DEF PairInv, Justified
<1>5. Open(m, n)
  BY <1>2, <1>3, <1>4 DEF PairInv, Refused, Open
<1>7. n \notin Links(m) /\ Sent(m, "LINK", n)
  BY <1>3, <1>4, <1>5 DEF PairInv, Unlinked, Undecided
<1> QED
  BY <1>1, <1>2, <1>4, <1>5, <1>7 DEF IInv, LocalInv

LEMMA LinkAdoptChild ==
  ASSUME IInv, SearchInv, LinkInv, NEW n \in Node, NEW m \in Node, AdoptChild(n, m)
  PROVE  LinkInv'
<1>0. TypeOK
  BY DEF IInv
<1> DEFINE s == FreeSlot(m)
<1>1. /\ Receive(n, m, "LINK") /\ Consume(n, m) /\ Confirms(n, m)
      /\ UNCHANGED <<up, peers, responses, raced, out>>
      /\ timers' = [timers EXCEPT ![m] = @ \ {"pending"}]
      /\ flags' = [flags EXCEPT ![m] = @ \ {"PENDING_LINK"}]
      /\ pending' = [pending EXCEPT ![m] = None]
      /\ pendingMac' = [pendingMac EXCEPT ![m] = None]
  BY DEF AdoptChild, FormDownlink, Receive
<1>2. /\ m # n /\ up[n] = m /\ Open(m, n) /\ n \notin Links(m)
      /\ Sent(m, "LINK", n) /\ FreeSlots(m) # {}
  BY <1>1, ConfirmLemma
<1>3. s \in Slot /\ s \notin Used(m) /\ down[m][s] = None
  BY <1>2, FreeSlotIsFree DEF FreeSlots, Used
<1>4. down' = [down EXCEPT ![m] = [down[m] EXCEPT ![s] = n]]
  BY <1>2 DEF AdoptChild, FormDownlink
<1> HIDE DEF s
<1>5. /\ down'[m] = [down[m] EXCEPT ![s] = n] /\ down[m] \in [Slot -> Node \cup {None}]
      /\ \A x \in Node \ {m} : down'[x] = down[x]
  BY <1>0, <1>4 DEF TypeOK
<1>6. /\ timers'[m] = timers[m] \ {"pending"} /\ flags'[m] = flags[m] \ {"PENDING_LINK"}
      /\ pending'[m] = None
      /\ \A x \in Node \ {m} : /\ timers'[x] = timers[x] /\ flags'[x] = flags[x]
                               /\ pending'[x] = pending[x] /\ pendingMac'[x] = pendingMac[x]
  BY <1>0, <1>1 DEF TypeOK
<1>15. ASSUME NEW x \in Node PROVE (Wiped(x)' <=> Wiped(x)) /\ StrayKept(x)
  <2>1. ~ Wiped(m)
    BY <1>2, NoneAssumption DEF Open, Wiped
  <2> QED
    BY <1>6, <2>1 DEF Wiped, StrayKept
<1>7. \A x \in Node : Shape(x)' /\ NoNew(x)
  <2> TAKE x \in Node
  <2>1. AirKept(x) /\ OutKept(x)
    BY <1>0, <1>1, ConsumeKept DEF LinkInv, OutKept
  <2> QED
    BY <1>15, <2>1, KeptLemma DEF LinkInv
<1>8. /\ Used(m)' = Used(m) \cup {s}
      /\ \A i \in Used(m) : down'[m][i] = down[m][i]
      /\ down'[m][s] = n
  BY <1>3, <1>5, NoneAssumption DEF Used
<1>9. Children(m)' = Children(m) \cup {n} /\ Links(m)' = Links(m) \cup {n}
  <2>1. Children(m)' = Children(m) \cup {n}
    BY <1>8 DEF Children
  <2> QED
    BY <1>1, <2>1 DEF Links
<1>10. \A x \in Node \ {m} :
         Used(x)' = Used(x) /\ Children(x)' = Children(x) /\ Links(x)' = Links(x)
  BY <1>1, <1>5 DEF Links, Children, Used
<1>11. ASSUME NEW x \in Node PROVE NodeInv(x)'
  <2>1. \A t \in {"join", "locate"} : t \in timers'[x] <=> t \in timers[x]
    BY <1>6
  <2>2. Wiped(x)' => \A y \in Node : pending'[y] # x
    BY <1>6, <1>15, NoneAssumption DEF LinkInv, NodeInv
  <2> QED
    BY <1>1, <1>7, <2>1, <2>2 DEF LinkInv, NodeInv, NoNew
<1>12. ASSUME NEW x \in Node PROVE TableInv(x)'
  <2>1. CASE x # m
    BY <1>1, <1>5, <1>10, <2>1 DEF LinkInv, TableInv
  <2>2. CASE x = m
    <3>1. \A i \in Used(m) : down[m][i] # n
      BY <1>2 DEF Links, Children
    <3>2. \A i, j \in Used(m)' : i # j => down'[m][i] # down'[m][j]
      BY <1>8, <3>1 DEF LinkInv, TableInv
    <3>3. up[m] # n /\ up[m] \notin Children(m) /\ m \notin Links(m)
      BY <1>2, NoneAssumption DEF LinkInv, TableInv, Links
    <3> QED
      BY <1>1, <1>2, <1>9, <2>2, <3>2, <3>3 DEF TableInv
  <2> QED
    BY <2>1, <2>2
<1>13. ASSUME NEW x \in Node PROVE PeersInv(x)'
  <2>1. CASE x # m
    BY <1>1, <1>6, <1>10, <2>1 DEF LinkInv, PeersInv, Stuck
  <2>2. CASE x = m
    <3>1. pendingMac[m] = n /\ n \in peers[m] /\ Links(m) \subseteq peers[m]
      BY <1>2, NoneAssumption DEF LinkInv, PeersInv, Stuck, Open
    <3> QED
      BY <1>1, <1>2, <1>6, <1>9, <2>2, <3>1 DEF LinkInv, PeersInv, Open
  <2> QED
    BY <2>1, <2>2
<1>14. ASSUME NEW a \in Node, NEW b \in Node, a # b PROVE PairInv(a, b)'
  <2>0. /\ PairInv(a, b)
        /\ Sent(a, "LINK", b) => Sent(a, "LINK", b)'
        /\ Fresh(b, a)' => Fresh(b, a)
    BY <1>7, <1>14 DEF LinkInv, NoNew
  <2>1. CASE a = m
    <3>1. ~ Open(m, b)'
      BY <1>6 DEF Open
    <3>2. Justified(m, b)'
      BY <1>1, <1>2, <1>15, <2>0, <2>1 DEF PairInv, Justified, Open
    <3>3. Unasked(m, b)' /\ Undecided(m, b)' /\ Unlinked(m, b)'
      BY <1>1, <1>15, <2>0, <2>1, <3>1 DEF PairInv, Unasked, Undecided, Unlinked
    <3>4. Refused(m, b)'
      BY <1>6 DEF Refused
    <3> QED
      BY <2>1, <3>2, <3>3, <3>4 DEF PairInv
  <2>2. CASE a # m
    <3>1. Open(a, b)' <=> Open(a, b)
      BY <1>6, <2>2 DEF Open
    <3>2. Justified(a, b)' /\ Unasked(a, b)' /\ Unlinked(a, b)'
      BY <1>1, <1>10, <1>15, <2>0, <2>2, <3>1 DEF PairInv, Justified, Unasked, Unlinked
    <3>3. Refused(a, b)'
      BY <1>1, <1>6, <2>0, <2>2 DEF PairInv, Refused
    <3>4. Undecided(a, b)'
      BY <1>1, <1>6, <2>0, <3>1 DEF PairInv, Undecided
    <3> QED
      BY <3>2, <3>3, <3>4 DEF PairInv
  <2> QED
    BY <2>1, <2>2
<1> QED
  BY <1>7, <1>11, <1>12, <1>13, <1>14 DEF LinkInv

LEMMA LinkJoin ==
  ASSUME IInv, SearchInv, LinkInv, NEW n \in Node, Join(n)
  PROVE  LinkInv'
<1>0. TypeOK /\ QueuesBounded
  BY DEF IInv
<1>1. /\ "join" \in timers[n] /\ Settled(n)
      /\ flags' = [flags EXCEPT ![n] = @ \cup {"LOCATING"}]
      /\ timers' = [timers EXCEPT ![n] = (@ \ {"join"}) \cup {"locate"}]
      /\ Send(n, "LOCATE", None, NextIdent(n)) /\ NextIdent(n) \in Ident
      /\ UNCHANGED <<up, down, peers, pending, pendingMac, responses, raced, air>>
  BY <1>0, IdentAssumption DEF Join, Fires, NextIdent, Ident, TypeOK
<1>2. /\ timers'[n] = (timers[n] \ {"join"}) \cup {"locate"}
      /\ \A x \in Node : "PENDING_LINK" \in flags'[x] <=> "PENDING_LINK" \in flags[x]
      /\ \A x \in Node : "pending" \in timers'[x] <=> "pending" \in timers[x]
      /\ \A x \in Node \ {n} : timers'[x] = timers[x]
  BY <1>0, <1>1 DEF TypeOK
<1>3. Sent(n, "LOCATE", None)
  BY <1>1 DEF IInv, LocalInv, LinkInv, NodeInv
<1>9. \A x \in Node : /\ (Wiped(x)' <=> Wiped(x)) /\ StrayKept(x)
                      /\ (Stuck(x)' <=> Stuck(x))
  BY <1>1, <1>2 DEF Wiped, StrayKept, Stuck
<1>4. /\ Shape(n)' /\ \A x \in Node \ {n} : out'[x] = out[x]
      /\ \A d \in Node : Sent(n, "LINK", d) => Sent(n, "LINK", d)'
  BY <1>0, <1>1, <1>3, <1>9, SendTracked DEF LinkInv
<1>5. \A x \in Node \ {n} : Shape(x)' /\ NoNew(x)
  BY <1>1, <1>4, <1>9, UntouchedLemma DEF LinkInv
<1>6. ASSUME NEW x \in Node PROVE NodeInv(x)' /\ TableInv(x)' /\ PeersInv(x)'
  <2>1. NodeInv(x)'
    BY <1>1, <1>2, <1>5, <1>9 DEF LinkInv, NodeInv, NoNew
  <2>2. Used(x)' = Used(x) /\ Children(x)' = Children(x) /\ Links(x)' = Links(x)
    BY <1>1 DEF Links, Children, Used
  <2> QED
    BY <1>1, <1>2, <1>9, <2>1, <2>2 DEF LinkInv, TableInv, PeersInv
<1>7. ASSUME NEW a \in Node, a # n PROVE Unasked(a, n)'
  <2>1. ~ Open(a, n) /\ a \notin responses[n]
    BY <1>1 DEF Settled, Open, LinkInv, NodeInv
  <2>2. Sent(a, "LINK", n) \/ Wiped(a)
    <3>1. \A k \in 1 .. Len(out[a]) : out[a][k].dst # n
      BY <1>1 DEF Settled
    <3>2. n \notin air[a].to
      BY <1>1 DEF Settled
    <3>3. ~ (air[a].frame.type = "LINK" /\ air[a].frame.dst = n) \/ Wiped(a)
      BY <3>2, NoFrameUntracked DEF LinkInv, Shape, AirShape
    <3> QED
      BY <3>1, <3>3 DEF Sent
  <2> QED
    BY <1>1, <1>2, <1>5, <1>7, <1>9, <2>1, <2>2 DEF Unasked, Open, NoNew
<1>8. ASSUME NEW a \in Node, NEW b \in Node, a # b PROVE PairInv(a, b)'
  <2>0. /\ PairInv(a, b) /\ (Open(a, b)' <=> Open(a, b))
        /\ Sent(a, "LINK", b) => Sent(a, "LINK", b)'
    BY <1>1, <1>2, <1>4, <1>5, <1>8 DEF LinkInv, Open, NoNew
  <2>1. Unasked(a, b)'
    <3>1. CASE b = n
      BY <1>7, <1>8, <3>1
    <3>2. CASE b # n
      BY <1>1, <1>5, <1>9, <2>0, <3>2 DEF PairInv, Unasked, NoNew
    <3> QED
      BY <3>1, <3>2
  <2>2. Justified(a, b)' /\ Unlinked(a, b)'
    BY <1>1, <1>9, <2>0 DEF PairInv, Justified, Unlinked, Links, Children, Used
  <2>3. Undecided(a, b)' /\ Refused(a, b)'
    BY <1>1, <1>2, <2>0 DEF PairInv, Undecided, Refused
  <2> QED
    BY <2>1, <2>2, <2>3 DEF PairInv
<1> QED
  BY <1>4, <1>5, <1>6, <1>8 DEF LinkInv

LEMMA LinkNobodyProposed ==
  ASSUME IInv, SearchInv, LinkInv, NEW n \in Node, NobodyProposed(n)
  PROVE  LinkInv'
<1>0. TypeOK
  BY DEF IInv
<1>1. /\ responses[n] = {} /\ Sent(n, "LOCATE", None)
      /\ UNCHANGED <<up, down, peers, pending, pendingMac, responses, raced, out, air>>
      /\ flags' = [flags EXCEPT ![n] = @ \ {"LOCATING"}]
      /\ timers' = [timers EXCEPT ![n] = (@ \ {"locate"}) \cup {"join"}]
  BY DEF NobodyProposed
<1>2. /\ \A x \in Node : "PENDING_LINK" \in flags'[x] <=> "PENDING_LINK" \in flags[x]
      /\ \A x \in Node : "pending" \in timers'[x] <=> "pending" \in timers[x]
      /\ \A x \in Node \ {n} : timers'[x] = timers[x]
  BY <1>0, <1>1 DEF TypeOK
<1>6. \A x \in Node : /\ (Wiped(x)' <=> Wiped(x)) /\ StrayKept(x)
                      /\ (Stuck(x)' <=> Stuck(x))
  BY <1>1, <1>2 DEF Wiped, StrayKept, Stuck
<1>3. \A x \in Node : Shape(x)' /\ NoNew(x)
  BY <1>1, <1>6, UntouchedLemma DEF LinkInv
<1>4. ASSUME NEW x \in Node PROVE NodeInv(x)' /\ TableInv(x)' /\ PeersInv(x)'
  <2>1. NodeInv(x)'
    BY <1>1, <1>2, <1>3, <1>6 DEF LinkInv, NodeInv, NoNew
  <2>2. Used(x)' = Used(x) /\ Children(x)' = Children(x) /\ Links(x)' = Links(x)
    BY <1>1 DEF Links, Children, Used
  <2> QED
    BY <1>1, <1>2, <1>6, <2>1, <2>2 DEF LinkInv, TableInv, PeersInv
<1>5. ASSUME NEW a \in Node, NEW b \in Node, a # b PROVE PairInv(a, b)'
  <2>0. /\ PairInv(a, b) /\ (Open(a, b)' <=> Open(a, b))
        /\ Sent(a, "LINK", b) => Sent(a, "LINK", b)'
        /\ Fresh(b, a)' => Fresh(b, a)
    BY <1>1, <1>2, <1>3, <1>5 DEF LinkInv, Open, NoNew
  <2>1. Justified(a, b)' /\ Unasked(a, b)' /\ Unlinked(a, b)'
    BY <1>1, <1>6, <2>0 DEF PairInv, Justified, Unasked, Unlinked, Links, Children, Used
  <2>2. Undecided(a, b)' /\ Refused(a, b)'
    BY <1>1, <1>2, <2>0 DEF PairInv, Undecided, Refused
  <2> QED
    BY <2>1, <2>2 DEF PairInv
<1> QED
  BY <1>3, <1>4, <1>5 DEF LinkInv

\* A searching node has no peers: esp_now_add_peer does not refuse the parent.
LEMMA LinkChooseParent ==
  ASSUME IInv, SearchInv, LinkInv, NEW n \in Node, ChooseParent(n)
  PROVE  LinkInv'
<1>0. TypeOK /\ QueuesBounded /\ LocalInv(n)
  BY DEF IInv
<1>1. "locate" \in timers[n] /\ Sent(n, "LOCATE", None)
  BY DEF ChooseParent, Fires
<1>2. /\ up[n] = None /\ n # Root /\ Children(n) = {} /\ "PENDING_LINK" \notin flags[n]
      /\ "pending" \notin timers[n] /\ "join" \notin timers[n]
  BY <1>0, <1>1 DEF LocalInv, HasUplink
<1>3. peers[n] = {} /\ ~ Wiped(n) /\ \A d \in Node : ~ Open(n, d)
  <2>1. n \notin raced
    BY <1>0, <1>2 DEF LocalInv, HasUplink
  <2> QED
    BY <1>2, <2>1 DEF LinkInv, PeersInv, Links, Open, Wiped
<1>4. PICK p \in responses[n] :
        /\ peers' = [peers EXCEPT ![n] = @ \cup {p}]
        /\ FormUplink(n, p)
        /\ timers' = [timers EXCEPT ![n] = (@ \ {"locate"}) \cup {"up"}]
        /\ Send(n, "LINK", p, ident[n])
        /\ responses' = [responses EXCEPT ![n] = {}]
  BY <1>3 DEF ChooseParent, AddRefused
<1>5. /\ p \in Node \ {n}
      /\ flags' = [flags EXCEPT ![n] = @ \ {"LOCATING"}]
      /\ UNCHANGED <<down, pending, pendingMac, raced, air>>
  BY <1>0, <1>4 DEF ChooseParent, LinkInv, NodeInv, TypeOK
<1>6. /\ up'[n] = p /\ peers'[n] = {p} /\ responses'[n] = {}
      /\ timers'[n] = (timers[n] \ {"locate"}) \cup {"up"}
      /\ \A x \in Node \ {n} : /\ up'[x] = up[x] /\ peers'[x] = peers[x]
                               /\ responses'[x] = responses[x] /\ timers'[x] = timers[x]
      /\ \A x \in Node : "PENDING_LINK" \in flags'[x] <=> "PENDING_LINK" \in flags[x]
  BY <1>0, <1>2, <1>3, <1>4, <1>5 DEF FormUplink, TypeOK
<1>14. \A x \in Node : /\ (Wiped(x)' <=> Wiped(x)) /\ StrayKept(x)
                       /\ (Stuck(x)' <=> Stuck(x))
  BY <1>5, <1>6 DEF Wiped, StrayKept, Stuck
<1>7. \A d \in Node : Sent(n, "LINK", d)
  <2>1. NoLinkFrames(n)
    BY <1>1 DEF SearchInv, Unheard, Searching
  <2> QED
    BY <2>1 DEF NoLinkFrames, Sent
<1>8. /\ Shape(n)' /\ \A x \in Node \ {n} : out'[x] = out[x]
      /\ Sent(n, "LOCATE", None)'
      /\ \A d \in Node \ {p} : Sent(n, "LINK", d)'
      /\ \A m \in Node : Fresh(n, m)' => Fresh(n, m)
  <2>1. ident[n] \in Ident
    BY <1>0 DEF TypeOK
  <2>2. /\ Shape(n)' /\ \A x \in Node \ {n} : out'[x] = out[x]
        /\ \A t \in {"LOCATE", "LINK"}, d \in Node \cup {None} :
             Sent(n, t, d) /\ ~ (t = "LINK" /\ d = p) => Sent(n, t, d)'
        /\ \A m \in Node : Fresh(n, m)' => Fresh(n, m)
    BY <1>0, <1>4, <1>5, <1>7, <1>14, <2>1, SendTracked DEF LinkInv
  <2> QED
    BY <1>1, <1>7, <2>2
<1>9. \A x \in Node \ {n} : Shape(x)' /\ NoNew(x)
  BY <1>5, <1>8, <1>14, UntouchedLemma DEF LinkInv
<1>10. \A x \in Node : /\ Used(x)' = Used(x) /\ Children(x)' = Children(x)
                       /\ x # n => Links(x)' = Links(x)
  BY <1>5, <1>6 DEF Links, Children, Used
<1>11. Links(n)' = {p}
  BY <1>2, <1>5, <1>6, <1>10, NoneAssumption DEF Links
<1>12. ASSUME NEW x \in Node PROVE NodeInv(x)' /\ TableInv(x)' /\ PeersInv(x)'
  <2>1. CASE x # n
    <3>1. NodeInv(x)'
      BY <1>5, <1>6, <1>9, <1>14, <2>1 DEF LinkInv, NodeInv, NoNew
    <3> QED
      BY <1>5, <1>6, <1>10, <1>14, <2>1, <3>1 DEF LinkInv, TableInv, PeersInv
  <2>2. CASE x = n
    <3>1. NodeInv(n)'
      BY <1>2, <1>3, <1>5, <1>6, <1>8, <1>14 DEF NodeInv
    <3>2. TableInv(n)'
      BY <1>2, <1>5, <1>6, <1>10, <1>11 DEF LinkInv, TableInv
    <3>3. PeersInv(n)'
      BY <1>2, <1>6, <1>11 DEF PeersInv
    <3> QED
      BY <2>2, <3>1, <3>2, <3>3
  <2> QED
    BY <2>1, <2>2
<1>13. ASSUME NEW a \in Node, NEW b \in Node, a # b PROVE PairInv(a, b)'
  <2>0. PairInv(a, b) /\ (Open(a, b)' <=> Open(a, b)) /\ (Fresh(b, a)' => Fresh(b, a))
    BY <1>5, <1>6, <1>8, <1>9, <1>13 DEF LinkInv, Open, NoNew
  <2>1. CASE a = n
    <3>1. ~ Open(n, b)'
      BY <1>3, <2>0, <2>1
    <3>2. Justified(n, b)' /\ Undecided(n, b)' /\ Unlinked(n, b)'
      BY <1>6, <1>8, <2>1, <3>1 DEF Justified, Undecided, Unlinked
    <3>3. Refused(n, b)'
      BY <1>2, <1>6 DEF Refused
    <3>4. ASSUME Fresh(b, n) PROVE Sent(n, "LINK", b)' /\ n \notin responses'[b]
      <4>1. b \notin responses[n]
        BY <3>4, FreshIsSent, LocatingLemma DEF LinkInv
      <4>2. n \notin responses[b]
        BY <1>3, <2>0, <2>1, <3>4 DEF PairInv, Unasked
      <4> QED
        BY <1>6, <1>8, <1>13, <2>1, <4>1, <4>2
    <3> QED
      BY <2>0, <2>1, <3>1, <3>2, <3>3, <3>4 DEF PairInv, Unasked
  <2>2. CASE a # n
    <3>0. /\ Sent(a, "LINK", b) => Sent(a, "LINK", b)'
          /\ a \in responses'[b] => a \in responses[b]
      BY <1>6, <1>9, <2>2 DEF NoNew
    <3>1. Justified(a, b)' /\ Unasked(a, b)' /\ Unlinked(a, b)'
      BY <1>6, <1>10, <1>14, <2>0, <2>2, <3>0 DEF PairInv, Justified, Unasked, Unlinked
    <3>2. up'[b] = a => up[b] = a \/ a \in responses[b]
      BY <1>4, <1>6
    <3>3. Undecided(a, b)'
      BY <1>5, <1>6, <2>0, <3>0, <3>2 DEF PairInv, Undecided
    <3>4. Refused(a, b)'
      BY <1>5, <1>6, <2>0, <2>2, <3>0, <3>2 DEF PairInv, Refused
    <3> QED
      BY <3>1, <3>3, <3>4 DEF PairInv
  <2> QED
    BY <2>1, <2>2
<1> QED
  BY <1>8, <1>9, <1>12, <1>13 DEF LinkInv

\* When timer_cb_pending_link begins its LINK is gone, and so is the LOCATE of every
\* node that has noted it.
LEMMA EndsLemma ==
  ASSUME LinkInv, NEW n \in Node, ProposalEnds(n)
  PROVE  /\ "pending" \in timers[n] /\ air[n].frame.type # "LINK"
         /\ \A x \in Node : Sent(n, "LINK", x) /\ (Fresh(x, n) => n \notin responses[x])
<1>1. ASSUME NEW x \in Node, Fresh(x, n) PROVE n \notin responses[x]
  BY <1>1, FreshIsSent DEF LinkInv, ProposalEnds, Heard
<1>2. air[n].frame.type # "LINK"
  BY DEF LinkInv, Shape, AirShape, Addressed, ProposalEnds, Sent
<1> QED
  BY <1>1, <1>2 DEF ProposalEnds, Fires

LEMMA LinkProposalTimeout ==
  ASSUME IInv, SearchInv, LinkInv, NEW n \in Node, ProposalTimeout(n)
  PROVE  LinkInv'
<1> DEFINE d == pendingMac[n]
<1>0. TypeOK
  BY DEF IInv
<1>1. /\ "pending" \in timers[n] /\ ProposalEnds(n)
      /\ UNCHANGED <<up, down, responses, raced, out, air>>
      /\ flags' = [flags EXCEPT ![n] = @ \ {"PENDING_LINK"}]
      /\ timers' = [timers EXCEPT ![n] = @ \ {"pending"}]
      /\ peers' = [peers EXCEPT ![n] = @ \ {d}]
      /\ pending' = [pending EXCEPT ![n] = None]
      /\ pendingMac' = [pendingMac EXCEPT ![n] = None]
  BY DEF ProposalTimeout, ProposalEnds, Fires, DelPeer
<1>2. /\ flags'[n] = flags[n] \ {"PENDING_LINK"} /\ timers'[n] = timers[n] \ {"pending"}
      /\ peers'[n] = peers[n] \ {d} /\ pending'[n] = None
      /\ \A x \in Node \ {n} : /\ flags'[x] = flags[x] /\ timers'[x] = timers[x]
                               /\ peers'[x] = peers[x] /\ pending'[x] = pending[x]
                               /\ pendingMac'[x] = pendingMac[x]
  BY <1>0, <1>1 DEF TypeOK
<1>3. /\ \A x \in Node : Sent(n, "LINK", x) /\ (Fresh(x, n) => n \notin responses[x])
      /\ air[n].frame.type # "LINK"
  BY <1>1, EndsLemma
<1>4. d \notin Links(n) /\ ~ Stuck(n)
  BY <1>1 DEF LinkInv, PeersInv, Stuck
<1> HIDE DEF d
<1>5. ASSUME NEW x \in Node
      PROVE  /\ StrayKept(x) /\ (Wiped(x)' => x # n /\ Wiped(x))
             /\ x # n => (Wiped(x)' <=> Wiped(x)) /\ (Stuck(x)' <=> Stuck(x))
  BY <1>2, <1>3 DEF StrayKept, Wiped, Stuck
<1>6. \A x \in Node : Shape(x)' /\ NoNew(x)
  BY <1>1, <1>5, UntouchedLemma DEF LinkInv
<1>7. \A x \in Node : /\ Used(x)' = Used(x) /\ Children(x)' = Children(x)
                      /\ Links(x)' = Links(x)
  BY <1>1 DEF Links, Children, Used
<1>8. ASSUME NEW x \in Node PROVE NodeInv(x)'
  <2>1. \A t \in {"join", "locate"} : t \in timers'[x] <=> t \in timers[x]
    BY <1>2
  <2>2. peers'[x] \subseteq peers[x]
    BY <1>2
  <2>3. Wiped(x)' => \A y \in Node : pending'[y] # x
    BY <1>2, <1>5, NoneAssumption DEF LinkInv, NodeInv
  <2> QED
    BY <1>1, <1>6, <2>1, <2>2, <2>3 DEF LinkInv, NodeInv, NoNew
<1>9. ASSUME NEW x \in Node PROVE TableInv(x)'
  BY <1>1, <1>7 DEF LinkInv, TableInv
<1>10. ASSUME NEW x \in Node PROVE PeersInv(x)'
  <2>1. CASE x = n
    BY <1>1, <1>2, <1>4, <1>7, <2>1 DEF LinkInv, PeersInv, d
  <2>2. CASE x # n
    BY <1>1, <1>2, <1>5, <1>7, <2>2 DEF LinkInv, PeersInv
  <2> QED
    BY <2>1, <2>2
<1>11. ASSUME NEW a \in Node, NEW b \in Node, a # b PROVE PairInv(a, b)'
  <2>0. /\ PairInv(a, b)
        /\ Sent(a, "LINK", b) => Sent(a, "LINK", b)'
        /\ Fresh(b, a)' => Fresh(b, a)
    BY <1>6, <1>11 DEF LinkInv, NoNew
  <2>1. CASE a = n
    <3>1. ~ Open(n, b)'
      BY <1>2 DEF Open
    <3>2. Justified(n, b)'
      BY <1>3, <2>0, <2>1 DEF Justified
    <3>3. Unasked(n, b)' /\ Undecided(n, b)' /\ Unlinked(n, b)'
      BY <1>1, <1>3, <2>0, <2>1, <3>1 DEF Unasked, Undecided, Unlinked
    <3>4. Refused(n, b)'
      BY <1>2 DEF Refused
    <3> QED
      BY <2>1, <3>2, <3>3, <3>4 DEF PairInv
  <2>2. CASE a # n
    <3>1. Open(a, b)' <=> Open(a, b)
      BY <1>2, <2>2 DEF Open
    <3>2. Justified(a, b)' /\ Unasked(a, b)' /\ Unlinked(a, b)'
      BY <1>1, <1>5, <1>7, <2>0, <2>2, <3>1 DEF PairInv, Justified, Unasked, Unlinked
    <3>3. Refused(a, b)'
      BY <1>1, <1>2, <2>0, <2>2 DEF PairInv, Refused
    <3>4. Undecided(a, b)'
      BY <1>1, <1>2, <2>0, <3>1 DEF PairInv, Undecided
    <3> QED
      BY <3>2, <3>3, <3>4 DEF PairInv
  <2> QED
    BY <2>1, <2>2
<1> QED
  BY <1>6, <1>8, <1>9, <1>10, <1>11 DEF LinkInv

\* What a LOCATE met in the middle of timer_cb_pending_link leaves.  Unless it was
\* refused, the timer of the new proposal runs, whose address has been wiped.
LEMMA LinkInterrupted ==
  ASSUME IInv, SearchInv, LinkInv, NEW n \in Node, NEW m \in Node, InterruptedTimeout(n, m)
  PROVE  LinkInv'
<1> DEFINE id == air[n].frame.ident
           e == pendingMac[m]
<1>0. TypeOK /\ QueuesBounded
  BY DEF IInv
<1>1. /\ ProposalEnds(m) /\ n # e /\ Consume(n, m) /\ (\A x \in Node : pending[x] # m)
      /\ m \in air[n].to /\ air[n].frame.type = "LOCATE" /\ id \in Ident
      /\ UNCHANGED <<flags, up, down, responses>>
      /\ pending' = [pending EXCEPT ![m] = None]
      /\ IF n \in peers[m]
         THEN timers' = [timers EXCEPT ![m] = @ \ {"pending"}] /\ out' = out
         ELSE timers' = timers /\ Send(m, "LINK", n, id)
  BY <1>0, AirLemma DEF InterruptedTimeout, Receive, AddRefused
<1>2. /\ \/ peers' = [peers EXCEPT ![m] = @ \ {n}] /\ raced' = raced \cup {m}
         \/ peers' = [peers EXCEPT ![m] = (@ \ {e}) \cup {n}]
      /\ \/ pendingMac' = [pendingMac EXCEPT ![m] = None] /\ raced' = raced \cup {m}
         \/ /\ pendingMac' = [pendingMac EXCEPT ![m] = n] /\ raced' = raced
            /\ peers' = [peers EXCEPT ![m] = (@ \ {e}) \cup {n}]
  BY DEF InterruptedTimeout
<1> HIDE DEF id
<1>3. m # n
  BY <1>1 DEF LinkInv, Shape, AirShape
<1>4. /\ "pending" \in timers[m] /\ "PENDING_LINK" \in flags[m] /\ air[m].frame.type # "LINK"
      /\ \A x \in Node : Sent(m, "LINK", x) /\ (Fresh(x, m) => m \notin responses[x])
  BY <1>1, EndsLemma DEF IInv, LocalInv
<1>5. /\ pending'[m] = None /\ \A x \in Node \ {m} : pending'[x] = pending[x]
      /\ "pending" \in timers'[m] <=> n \notin peers[m]
      /\ \A x \in Node : \A t \in {"join", "locate"} : t \in timers'[x] <=> t \in timers[x]
      /\ \A x \in Node \ {m} : timers'[x] = timers[x] /\ peers'[x] = peers[x]
                               /\ pendingMac'[x] = pendingMac[x] /\ (x \in raced' <=> x \in raced)
  <2>1. pending'[m] = None /\ \A x \in Node \ {m} : pending'[x] = pending[x]
    BY <1>0, <1>1 DEF TypeOK
  <2>2. /\ "pending" \in timers'[m] <=> n \notin peers[m]
        /\ \A x \in Node : \A t \in {"join", "locate"} : t \in timers'[x] <=> t \in timers[x]
        /\ \A x \in Node \ {m} : timers'[x] = timers[x]
    <3>1. timers \in [Node -> SUBSET Timer]
      BY <1>0 DEF TypeOK
    <3>2. CASE n \in peers[m]
      <4>1. timers' = [timers EXCEPT ![m] = @ \ {"pending"}]
        BY <1>1, <3>2
      <4> QED
        BY <3>1, <3>2, <4>1
    <3>3. CASE n \notin peers[m]
      BY <1>1, <1>4, <3>3
    <3> QED
      BY <3>2, <3>3
  <2>3. \A x \in Node \ {m} : peers'[x] = peers[x] /\ pendingMac'[x] = pendingMac[x]
    <3>1. peers \in [Node -> SUBSET Node] /\ pendingMac \in [Node -> Node \cup {None}]
      BY <1>0 DEF TypeOK
    <3> QED
      BY <1>2, <3>1
  <2>4. \A x \in Node \ {m} : x \in raced' <=> x \in raced
    BY <1>2
  <2> QED
    BY <2>1, <2>2, <2>3, <2>4
<1>6. /\ Wiped(m)' <=> n \notin peers[m]
      /\ \A x \in Node : StrayKept(x)
      /\ \A x \in Node \ {m} : (Wiped(x)' <=> Wiped(x)) /\ (Stuck(x)' <=> Stuck(x))
  BY <1>1, <1>4, <1>5 DEF Wiped, StrayKept, Stuck
<1>7. \A x \in Node : AirKept(x) /\ (x # n => air'[x] = air[x])
  BY <1>0, <1>1, ConsumeKept DEF LinkInv
<1>8. /\ Shape(m)' /\ \A x \in Node \ {m} : out'[x] = out[x]
      /\ Sent(m, "LOCATE", None) => Sent(m, "LOCATE", None)'
      /\ \A x \in Node : Fresh(m, x)' => Fresh(m, x)
      /\ n \in peers[m] => \A x \in Node : Sent(m, "LINK", x)'
  <2>1. CASE n \in peers[m]
    <3>1. OutKept(m)
      BY <1>1, <2>1 DEF OutKept
    <3>2. Shape(m)' /\ NoNew(m)
      BY <1>6, <1>7, <3>1, KeptLemma DEF LinkInv
    <3> QED
      BY <1>1, <1>4, <2>1, <3>2 DEF NoNew
  <2>2. CASE n \notin peers[m]
    <3>1. Send(m, "LINK", n, id) /\ Sent(m, "LINK", n) /\ air'[m] = air[m] /\ Shape(m)
      BY <1>1, <1>3, <1>4, <1>7, <2>2 DEF LinkInv
    <3>2. /\ Shape(m)'
          /\ \A t \in {"LOCATE", "LINK"}, d \in Node \cup {None} :
               Sent(m, t, d) /\ ~ (t = "LINK" /\ d = n) => Sent(m, t, d)'
          /\ \A x \in Node : Fresh(m, x)' => Fresh(m, x)
          /\ \A x \in Node \ {m} : out'[x] = out[x]
      BY <1>0, <1>1, <1>3, <1>6, <3>1, SendTracked
    <3> QED
      BY <2>2, <3>2
  <2> QED
    BY <2>1, <2>2
<1>9. \A x \in Node \ {m} : Shape(x)' /\ NoNew(x)
  BY <1>6, <1>7, <1>8, KeptLemma DEF LinkInv, OutKept
<1>10. \A x \in Node : Used(x)' = Used(x) /\ Children(x)' = Children(x) /\ Links(x)' = Links(x)
  BY <1>1 DEF Links, Children, Used
<1>11. ASSUME NEW x \in Node PROVE NodeInv(x)' /\ TableInv(x)'
  <2>1. x \notin peers'[x]
    <3>1. CASE x = m
      <4>1. peers'[m] \subseteq peers[m] \cup {n}
        BY <1>0, <1>2 DEF TypeOK
      <4> QED
        BY <1>3, <3>1, <4>1 DEF LinkInv, NodeInv
    <3> QED
      BY <1>5, <3>1 DEF LinkInv, NodeInv
  <2>2. Wiped(x)' => \A y \in Node : pending'[y] # x
    BY <1>1, <1>5, <1>6, NoneAssumption DEF LinkInv, NodeInv
  <2>3. Sent(x, "LOCATE", None) => Sent(x, "LOCATE", None)'
    BY <1>8, <1>9 DEF NoNew
  <2>4. NodeInv(x)'
    BY <1>1, <1>5, <2>1, <2>2, <2>3 DEF LinkInv, NodeInv
  <2> QED
    BY <1>1, <1>10, <2>4 DEF LinkInv, TableInv
<1>12. PeersInv(m)'
  <2>1. /\ e \notin Links(m) /\ Links(m) \subseteq peers[m] /\ None \notin Links(m)
        /\ m \notin raced => peers[m] = Links(m) \cup {e}
    BY <1>4 DEF LinkInv, PeersInv, Stuck, Links, Children, Used
  <2>2. \/ /\ m \in raced' /\ pendingMac'[m] = None
           /\ peers'[m] = peers[m] \ {n} \/ peers'[m] = (peers[m] \ {e}) \cup {n}
        \/ /\ (m \in raced' <=> m \in raced) /\ pendingMac'[m] = n
           /\ peers'[m] = (peers[m] \ {e}) \cup {n}
    BY <1>0, <1>2 DEF TypeOK
  <2> HIDE DEF e
  <2>3. CASE n \in peers[m]
    <3>1. "pending" \notin timers'[m] /\ Stuck(m)'
      BY <1>1, <1>4, <1>5, <2>3 DEF Stuck
    <3>2. ASSUME m \notin raced' PROVE peers'[m] = Links(m)
      <4>1. peers[m] = Links(m) \cup {e} /\ peers'[m] = (peers[m] \ {e}) \cup {n}
        BY <2>1, <2>2, <3>2
      <4>2. n # e
        BY <1>1
      <4> QED
        BY <2>1, <2>3, <4>1, <4>2
    <3> QED
      BY <1>10, <3>1, <3>2 DEF PeersInv
  <2>4. CASE n \notin peers[m]
    <3>1. "pending" \in timers'[m] /\ pending'[m] = None
      BY <1>5, <2>4
    <3>2. Links(m) \subseteq peers'[m] /\ pendingMac'[m] \notin Links(m)
      BY <2>1, <2>2, <2>4
    <3>3. ASSUME m \notin raced' PROVE peers'[m] = Links(m) \cup {pendingMac'[m]}
      <4>1. /\ peers[m] = Links(m) \cup {e} /\ peers'[m] = (peers[m] \ {e}) \cup {n}
            /\ pendingMac'[m] = n
        BY <2>1, <2>2, <3>3
      <4> QED
        BY <2>1, <4>1
    <3> QED
      BY <1>10, <3>1, <3>2, <3>3 DEF PeersInv
  <2> QED
    BY <2>3, <2>4
<1>13. ASSUME NEW x \in Node, x # m PROVE PeersInv(x)'
  BY <1>5, <1>6, <1>10, <1>13 DEF LinkInv, PeersInv
<1>14. ASSUME NEW a \in Node, NEW b \in Node, a # b PROVE PairInv(a, b)'
  <2>0. PairInv(a, b) /\ (Fresh(b, a)' => Fresh(b, a))
    BY <1>8, <1>9, <1>14 DEF LinkInv, NoNew
  <2>1. CASE a = m
    <3>1. ~ Open(m, b)' /\ pending'[m] # b
      BY <1>5, NoneAssumption DEF Open
    <3>2. Justified(m, b)'
      BY <1>6, <1>8 DEF Justified
    <3>3. Unasked(m, b)'
      BY <1>1, <1>4, <1>6, <1>8, <2>0, <2>1, <3>1 DEF Unasked
    <3> QED
      BY <2>1, <3>1, <3>2, <3>3 DEF PairInv, Undecided, Refused, Unlinked
  <2>2. CASE a # m
    <3>1. /\ Open(a, b)' <=> Open(a, b)
          /\ Sent(a, "LINK", b) => Sent(a, "LINK", b)'
          /\ pending'[b] = a => pending[b] = a
      BY <1>5, <1>9, <2>2, NoneAssumption DEF Open, NoNew
    <3>2. Justified(a, b)' /\ Unasked(a, b)' /\ Unlinked(a, b)'
      BY <1>1, <1>6, <1>10, <2>0, <2>2, <3>1 DEF PairInv, Justified, Unasked, Unlinked
    <3>3. Undecided(a, b)' /\ Refused(a, b)'
      BY <1>1, <1>5, <2>0, <2>2, <3>1 DEF PairInv, Undecided, Refused
    <3> QED
      BY <3>2, <3>3 DEF PairInv
  <2> QED
    BY <2>1, <2>2
<1> QED
  BY <1>8, <1>9, <1>11, <1>12, <1>13, <1>14 DEF LinkInv

\* The peer of a decayed entry has no other entry and is not being proposed to.
LEMMA LinkDecay ==
  ASSUME IInv, SearchInv, LinkInv, NEW n \in Node, NEW i \in Slot, Decay(n, i)
  PROVE  LinkInv'
<1> DEFINE c == down[n][i]
<1>0. TypeOK
  BY DEF IInv
<1>1. /\ UNCHANGED <<flags, up, pending, pendingMac, responses, timers, raced, out, air>>
      /\ peers' = [peers EXCEPT ![n] = @ \ {c}]
      /\ down' = [down EXCEPT ![n] = [down[n] EXCEPT ![i] = None]]
  BY DEF Decay, DelPeer
<1>2. i \in Used(n)
  BY DEF Decay, IInv, LocalInv
<1>3. c \in Node /\ c \in Children(n) /\ c \in Links(n)
  BY <1>0, <1>2 DEF Used, Children, Links, TypeOK
<1>4. c # n /\ up[n] # c /\ \A j \in Used(n) : j # i => down[n][j] # c
  BY <1>2, <1>3 DEF LinkInv, TableInv
<1>5. /\ peers'[n] = peers[n] \ {c} /\ down'[n] = [down[n] EXCEPT ![i] = None]
      /\ \A x \in Node \ {n} : peers'[x] = peers[x] /\ down'[x] = down[x]
  BY <1>0, <1>1 DEF TypeOK
<1>6. /\ Used(n)' = Used(n) \ {i} /\ \A j \in Used(n)' : down'[n][j] = down[n][j]
      /\ \A x \in Node \ {n} : Used(x)' = Used(x)
  BY <1>0, <1>5 DEF Used, TypeOK
<1>7. Children(n)' = Children(n) \ {c}
  BY <1>4, <1>6 DEF Children
<1> HIDE DEF c
<1>8. /\ Links(n)' = Links(n) \ {c}
      /\ \A x \in Node \ {n} : Children(x)' = Children(x) /\ Links(x)' = Links(x)
  BY <1>1, <1>4, <1>5, <1>6, <1>7 DEF Links, Children
<1>14. ASSUME NEW x \in Node
       PROVE  (Wiped(x)' <=> Wiped(x)) /\ StrayKept(x) /\ (Stuck(x)' <=> Stuck(x))
  BY <1>1 DEF Wiped, StrayKept, Stuck
<1>9. \A x \in Node : Shape(x)' /\ NoNew(x)
  BY <1>1, <1>14, UntouchedLemma DEF LinkInv
<1>10. ASSUME NEW x \in Node PROVE NodeInv(x)'
  <2>1. peers'[x] \subseteq peers[x]
    BY <1>5
  <2> QED
    BY <1>1, <1>9, <1>14, <2>1 DEF LinkInv, NodeInv, NoNew
<1>11. ASSUME NEW x \in Node PROVE TableInv(x)'
  <2>1. CASE x = n
    BY <1>1, <1>6, <1>7, <1>8, <2>1 DEF LinkInv, TableInv
  <2>2. CASE x # n
    BY <1>1, <1>5, <1>6, <1>8, <2>2 DEF LinkInv, TableInv
  <2> QED
    BY <2>1, <2>2
<1>12. ASSUME NEW x \in Node PROVE PeersInv(x)'
  <2>1. CASE x = n
    <3>1. "pending" \in timers[n] => pendingMac[n] # c
      BY <1>3 DEF LinkInv, PeersInv
    <3> QED
      BY <1>1, <1>5, <1>8, <1>14, <2>1, <3>1 DEF LinkInv, PeersInv
  <2>2. CASE x # n
    BY <1>1, <1>5, <1>8, <1>14, <2>2 DEF LinkInv, PeersInv
  <2> QED
    BY <2>1, <2>2
<1>13. ASSUME NEW a \in Node, NEW b \in Node, a # b PROVE PairInv(a, b)'
  <2>0. /\ PairInv(a, b) /\ (Open(a, b)' <=> Open(a, b))
        /\ Sent(a, "LINK", b) => Sent(a, "LINK", b)'
        /\ Fresh(b, a)' => Fresh(b, a)
        /\ Links(a)' \subseteq Links(a)
    BY <1>1, <1>8, <1>9, <1>13 DEF LinkInv, Open, NoNew
  <2>1. Justified(a, b)' /\ Unasked(a, b)' /\ Unlinked(a, b)'
    BY <1>1, <1>14, <2>0 DEF PairInv, Justified, Unasked, Unlinked
  <2>2. Undecided(a, b)' /\ Refused(a, b)'
    BY <1>1, <2>0 DEF PairInv, Undecided, Refused
  <2> QED
    BY <2>1, <2>2 DEF PairInv
<1> QED
  BY <1>9, <1>10, <1>11, <1>12, <1>13 DEF LinkInv

LEMMA LinkBoot ==
  ASSUME IInv, SearchInv, LinkInv, NEW n \in Node, Boot(n)
  PROVE  LinkInv'
<1>0. TypeOK
  BY DEF IInv
<1>1. /\ flags'[n] = {} /\ up'[n] = None /\ down'[n] = [i \in Slot |-> None]
      /\ peers'[n] = {} /\ pending'[n] = None /\ responses'[n] = {} /\ n \notin raced'
      /\ timers'[n] = FirstTimers(n) /\ out'[n] = << >> /\ air'[n] = Silence
      /\ "pending" \notin timers'[n] /\ "locate" \notin timers'[n]
  BY <1>0 DEF Boot, TypeOK, FirstTimers
<1>2. ASSUME NEW x \in Node, x # n
      PROVE  /\ flags'[x] = flags[x] /\ up'[x] = up[x] /\ down'[x] = down[x]
             /\ peers'[x] = peers[x] /\ pending'[x] = pending[x]
             /\ pendingMac'[x] = pendingMac[x] /\ (x \in raced' <=> x \in raced)
             /\ responses'[x] = responses[x] /\ timers'[x] = timers[x]
             /\ out'[x] = out[x] /\ air'[x] = air[x]
  BY <1>0, <1>2 DEF Boot, TypeOK
<1>3. /\ Len(out'[n]) = 0 /\ air'[n].to = {} /\ air'[n].frame = NoFrame
      /\ \A t \in {"LOCATE", "LINK"}, d \in Node \cup {None} : Sent(n, t, d)'
      /\ \A x \in Node : ~ Fresh(n, x)'
  <2>1. Len(out'[n]) = 0 /\ air'[n].to = {} /\ air'[n].frame = NoFrame
    BY <1>1 DEF Silence
  <2> QED
    BY <2>1, NoFrameUntracked DEF Sent, Fresh
<1>8. /\ ~ Wiped(n)'
      /\ \A x \in Node \ {n} : (Wiped(x)' <=> Wiped(x)) /\ StrayKept(x) /\ (Stuck(x)' <=> Stuck(x))
  BY <1>1, <1>2 DEF Wiped, StrayKept, Stuck
<1>9. \A x \in Node : Fresh(x, n) => n \notin responses[x]
  BY FreshIsSent DEF LinkInv, Boot, Heard
<1>4. ASSUME NEW x \in Node PROVE Shape(x)' /\ (x # n => NoNew(x))
  <2>1. CASE x = n
    BY <1>3, <2>1, NoFrameUntracked DEF Shape, AirShape, OutShape, Addressed
  <2>2. CASE x # n
    BY <1>2, <1>8, <2>2, UntouchedLemma DEF LinkInv
  <2> QED
    BY <2>1, <2>2
<1>5. /\ Used(n)' = {} /\ Children(n)' = {} /\ Links(n)' = {}
      /\ \A x \in Node \ {n} :
           Used(x)' = Used(x) /\ Children(x)' = Children(x) /\ Links(x)' = Links(x)
  <2>1. Used(n)' = {}
    BY <1>1 DEF Used
  <2>2. Children(n)' = {} /\ Links(n)' = {}
    BY <1>1, <2>1 DEF Children, Links
  <2> QED
    BY <1>2, <2>1, <2>2 DEF Used, Children, Links
<1>6. ASSUME NEW x \in Node PROVE NodeInv(x)' /\ TableInv(x)' /\ PeersInv(x)'
  <2>1. CASE x = n
    BY <1>1, <1>3, <1>5, <1>8, <2>1 DEF NodeInv, TableInv, PeersInv
  <2>2. CASE x # n
    <3>1. Wiped(x)' => \A y \in Node : pending'[y] # x
      BY <1>1, <1>2, <1>8, <2>2, NoneAssumption DEF LinkInv, NodeInv
    <3>2. NodeInv(x)'
      BY <1>2, <1>4, <2>2, <3>1 DEF LinkInv, NodeInv, NoNew
    <3> QED
      BY <1>2, <1>5, <1>8, <2>2, <3>2 DEF LinkInv, TableInv, PeersInv
  <2> QED
    BY <2>1, <2>2
<1>7. ASSUME NEW a \in Node, NEW b \in Node, a # b PROVE PairInv(a, b)'
  <2>0. PairInv(a, b)
    BY <1>7 DEF LinkInv
  <2>1. CASE a = n
    <3>1. ~ Open(n, b)' /\ Sent(n, "LINK", b)' /\ "PENDING_LINK" \notin flags'[n]
      BY <1>1, <1>3 DEF Open
    <3>2. Fresh(b, n)' => n \notin responses'[b]
      BY <1>2, <1>4, <1>7, <1>9, <2>1 DEF NoNew
    <3> QED
      BY <2>1, <3>1, <3>2 DEF PairInv, Justified, Unasked, Undecided, Refused, Unlinked
  <2>2. CASE a # n
    <3>0. /\ Open(a, b)' <=> Open(a, b)
          /\ Sent(a, "LINK", b) => Sent(a, "LINK", b)'
          /\ Fresh(b, a)' => Fresh(b, a)
          /\ a \in responses'[b] => a \in responses[b]
          /\ up'[b] = a => up[b] = a
          /\ "PENDING_LINK" \in flags'[b] /\ pending'[b] = a =>
               "PENDING_LINK" \in flags[b] /\ pending[b] = a
      <4>1. Open(a, b)' <=> Open(a, b)
        BY <1>2, <2>2 DEF Open
      <4>2. /\ Sent(a, "LINK", b) => Sent(a, "LINK", b)'
            /\ Fresh(b, a)' => Fresh(b, a)
        BY <1>3, <1>4, <2>2 DEF NoNew
      <4>3. CASE b = n
        BY <1>1, <4>1, <4>2, <4>3, NoneAssumption
      <4>4. CASE b # n
        BY <1>2, <4>1, <4>2, <4>4
      <4> QED
        BY <4>3, <4>4
    <3>1. Justified(a, b)' /\ Unasked(a, b)' /\ Unlinked(a, b)'
      BY <1>2, <1>5, <1>8, <2>0, <2>2, <3>0 DEF PairInv, Justified, Unasked, Unlinked
    <3>2. Undecided(a, b)' /\ Refused(a, b)'
      BY <1>2, <2>0, <2>2, <3>0 DEF PairInv, Undecided, Refused
    <3> QED
      BY <3>1, <3>2 DEF PairInv
  <2> QED
    BY <2>1, <2>2
<1> QED
  BY <1>4, <1>6, <1>7 DEF LinkInv

-----------------------------------------------------------------------------
(***************************************************************************)
(* The theorems.                                                           *)
(***************************************************************************)

LEMMA LinkInit == Init => LinkInv /\ SearchInv
<1> SUFFICES ASSUME Init PROVE LinkInv /\ SearchInv
  OBVIOUS
<1>1. ASSUME NEW n \in Node
      PROVE  /\ flags[n] = {} /\ up[n] = None /\ down[n] = [i \in Slot |-> None]
             /\ peers[n] = {} /\ responses[n] = {} /\ ~ Wiped(n)
             /\ "pending" \notin timers[n] /\ "locate" \notin timers[n]
             /\ out[n] = << >> /\ Len(out[n]) = 0
             /\ air[n].to = {} /\ air[n].frame = NoFrame
  BY DEF Init, FirstTimers, Silence, Wiped
<1>2. ASSUME NEW n \in Node
      PROVE  Shape(n) /\ Unheard(n) /\ NodeInv(n) /\ TableInv(n) /\ PeersInv(n)
  <2>1. Used(n) = {}
    BY <1>1 DEF Used
  <2>2. Children(n) = {} /\ Links(n) = {}
    BY <1>1, <2>1 DEF Children, Links
  <2>3. Shape(n)
    BY <1>1, NoFrameUntracked DEF Shape, AirShape, OutShape, Addressed
  <2>4. Unheard(n)
    BY <1>1, NoFrameUntracked DEF Unheard, NoLinkFrames
  <2>5. Sent(n, "LOCATE", None)
    BY <1>1, NoFrameUntracked DEF Sent
  <2> QED
    BY <1>1, <2>1, <2>2, <2>3, <2>4, <2>5 DEF NodeInv, TableInv, PeersInv
<1>3. ASSUME NEW m \in Node, NEW d \in Node PROVE PairInv(m, d)
  <2>1. ~ Open(m, d) /\ Sent(m, "LINK", d)
    BY <1>1, NoFrameUntracked DEF Open, Sent
  <2> QED
    BY <1>1, <2>1 DEF PairInv, Justified, Unasked, Undecided, Refused, Unlinked
<1> QED
  BY <1>2, <1>3 DEF LinkInv, SearchInv

LEMMA LinkStep ==
  ASSUME IInv, SearchInv, LinkInv, [Next]_vars
  PROVE  LinkInv'
<1>1. ASSUME NEW n \in Node, NEW m \in Node, Handle(n, m) \/ Lose(n, m) PROVE LinkInv'
  BY <1>1, CalmHandle, LinkProposeLink, LinkNoteProposal, LinkAdoptChild DEF Handle
<1>2. ASSUME NEW n \in Node, TimerFires(n) PROVE LinkInv'
  BY <1>2, CalmTimer, LinkJoin, LinkNobodyProposed, LinkChooseParent, LinkProposalTimeout,
     LinkDecay DEF TimerFires
<1>3. ASSUME NEW n \in Node, Transmit(n) \/ Freeze(n) \/ Unfreeze(n) PROVE LinkInv'
  BY <1>3, CalmRest
<1>4. ASSUME NEW n \in Node, Restart(n) \/ PowerCycle(n) PROVE LinkInv'
  BY <1>4, LinkBoot DEF Restart, PowerCycle
<1>5. CASE UNCHANGED vars
  BY <1>5, CalmRest, RootAssumption
<1> QED
  BY <1>1, <1>2, <1>3, <1>4, <1>5, LinkInterrupted DEF Next

LEMMA LinkInvariance == Spec => [](IInv /\ SearchInv /\ LinkInv)
<1>1. IInv /\ SearchInv /\ LinkInv /\ [Next]_vars => (SearchInv /\ LinkInv)'
  BY UnheardStep, LinkStep
<1> QED
  BY <1>1, LinkInit, Invariance, PTL DEF Spec

\* find_entry and find_mac are never ambiguous: no node is in a link table twice.
THEOREM NoDuplicates == Spec => []NoDuplicateLink
<1>1. LinkInv => NoDuplicateLink
  BY DEF LinkInv, TableInv, NoDuplicateLink
<1> QED
  BY <1>1, LinkInvariance, PTL

\* Every esp_now_add_peer of net_layer.c is matched by its esp_now_del_peer, through
\* lost frames, expired proposals, decay and restarts, on a node on which no LOCATE has
\* met the end of a proposal since it booted; what such a meeting does to a node, its
\* peers and all it sends included, disturbs no other node's list.
THEOREM PeersAreLinks == Spec => []PeersMatchLinks
<1>1. LinkInv => PeersMatchLinks
  BY DEF LinkInv, PeersInv, PeersMatchLinks
<1> QED
  BY <1>1, LinkInvariance, PTL

\* How the down-links change: form_downlink on a confirmation, decay, boot.
LEMMA DownStep ==
  ASSUME TypeOK, [Next]_vars, NEW p \in Node, NEW c \in Node,
         c \notin Children(p), c \in Children(p)'
  PROVE  AdoptChild(c, p)
<1>1. ASSUME NEW n \in Node, NEW m \in Node, Handle(n, m) \/ Lose(n, m) PROVE AdoptChild(c, p)
  <2>1. CASE AdoptChild(n, m)
    <3>1. down' # down
      BY DEF Children, Used
    <3>2. FreeSlots(m) # {}
      BY <2>1, <3>1 DEF AdoptChild, FormDownlink
    <3>3. FreeSlot(m) \in Slot
      BY <3>2, FreeSlotIsFree DEF FreeSlots
    <3>4. down' = [down EXCEPT ![m] = [down[m] EXCEPT ![FreeSlot(m)] = n]]
      BY <2>1, <3>2 DEF AdoptChild, FormDownlink
    <3>5. /\ down'[m] = [down[m] EXCEPT ![FreeSlot(m)] = n]
          /\ \A x \in Node \ {m} : down'[x] = down[x]
      BY <3>4 DEF TypeOK
    <3>6. m = p
      BY <3>5 DEF Children, Used
    <3>7. PICK i \in Slot : down'[p][i] = c /\ down[p][i] # c
      BY NoneAssumption DEF Children, Used
    <3>8. n = c
      BY <3>3, <3>5, <3>6, <3>7 DEF TypeOK
    <3> QED
      BY <2>1, <3>6, <3>8
  <2>2. CASE ~ AdoptChild(n, m)
    <3>1. down' = down
      BY <1>1, <2>2 DEF Handle, ProposeLink, NoteProposal, StatusFromParent,
                        StatusFromChild, ObeyBlackout, Lose, nodeVars
    <3> QED
      BY <3>1 DEF Children, Used
  <2> QED
    BY <2>1, <2>2
<1>5. ASSUME NEW n \in Node, NEW m \in Node, InterruptedTimeout(n, m) PROVE FALSE
  BY <1>5 DEF InterruptedTimeout, Children, Used
<1>2. ASSUME NEW n \in Node, TimerFires(n) PROVE FALSE
  <2>1. CASE \E i \in Slot : Decay(n, i)
    <3>1. PICK i \in Slot : down' = [down EXCEPT ![n] = [down[n] EXCEPT ![i] = None]]
      BY <2>1 DEF Decay
    <3>2. \A x \in Node, j \in Slot : down'[x][j] = down[x][j] \/ down'[x][j] = None
      BY <3>1 DEF TypeOK
    <3> QED
      BY <3>2 DEF Children, Used
  <2>2. CASE ~ \E i \in Slot : Decay(n, i)
    <3>1. down' = down
      BY <1>2, <2>2 DEF TimerFires, Join, NobodyProposed, ChooseParent, ProposalTimeout,
                        CheckParent, ParentLost
    <3> QED
      BY <3>1 DEF Children, Used
  <2> QED
    BY <2>1, <2>2
<1>3. ASSUME NEW n \in Node, Restart(n) \/ PowerCycle(n) PROVE FALSE
  <2>1. down' = [down EXCEPT ![n] = [i \in Slot |-> None]]
    BY <1>3 DEF Restart, PowerCycle, Boot
  <2>2. /\ down'[n] = [i \in Slot |-> None]
        /\ \A x \in Node \ {n} : down'[x] = down[x]
    BY <2>1 DEF TypeOK
  <2>3. CASE p = n
    <3> QED
      BY <2>2, <2>3, NoneAssumption DEF Children, Used
  <2>4. CASE p # n
    <3> QED
      BY <2>2, <2>4 DEF Children, Used
  <2> QED
    BY <2>3, <2>4
<1>4. ASSUME NEW n \in Node, Transmit(n) \/ Freeze(n) \/ Unfreeze(n) \/ UNCHANGED vars PROVE FALSE
  <2>1. down' = down
    BY <1>4 DEF Transmit, Freeze, Unfreeze, vars, nodeVars
  <2> QED
    BY <2>1 DEF Children, Used
<1> QED
  BY <1>1, <1>2, <1>3, <1>4, <1>5, RootAssumption DEF Next

\* A node takes a LINK for the confirmation of its proposal only when it is one: when
\* espnow_recv forms a down-link, the child has this node for its parent.
THEOREM AdoptedHaveChosen == Spec => AdoptsOnlyItsChildren
<1>1. ASSUME IInv, SearchInv, LinkInv, [Next]_vars, NEW p \in Node, NEW c \in Node,
             c \notin Children(p), c \in Children(p)'
      PROVE  up[c] = p
  <2>1. AdoptChild(c, p)
    BY <1>1, DownStep DEF IInv
  <2> QED
    BY <1>1, <2>1, ConfirmLemma DEF AdoptChild
<1>2. IInv /\ SearchInv /\ LinkInv /\ [Next]_vars =>
        [\A p, c \in Node : c \notin Children(p) /\ c \in Children(p)' => up[c] = p]_vars
  BY <1>1
<1> QED
  BY <1>2, LinkInvariance, PTL DEF Spec, AdoptsOnlyItsChildren

\* While a node is frozen no timer of it runs that could end a link, and it takes part
\* in no search: it leaves that state with the links it entered it with.
THEOREM FrozenLinksStay == Spec => FrozenKeepsLinks
<1>1. ASSUME IInv, [Next]_vars, NEW n \in Node, "FROZEN" \in flags[n], "FROZEN" \in flags'[n]
      PROVE  up'[n] = up[n] /\ down'[n] = down[n]
  <2>0. TypeOK /\ LocalInv(n)
    BY <1>1 DEF IInv
  <2>1. decay[n] = {} /\ "locate" \notin timers[n]
    BY <1>1, <2>0 DEF LocalInv, HasUplink
  <2>2. ASSUME NEW x \in Node, NEW m \in Node, Handle(x, m) \/ Lose(x, m)
        PROVE  up'[n] = up[n] /\ down'[n] = down[n]
    <3>1. CASE AdoptChild(x, m)
      <4>1. m # n
        BY <1>1, <3>1 DEF AdoptChild
      <4> QED
        BY <2>0, <3>1, <4>1 DEF AdoptChild, FormDownlink, TypeOK
    <3>2. CASE ~ AdoptChild(x, m)
      BY <2>2, <3>2 DEF Handle, ProposeLink, NoteProposal, StatusFromParent,
                        StatusFromChild, ObeyBlackout, Lose, nodeVars
    <3> QED
      BY <3>1, <3>2
  <2>6. ASSUME NEW x \in Node, NEW m \in Node, InterruptedTimeout(x, m)
        PROVE  up'[n] = up[n] /\ down'[n] = down[n]
    BY <2>6 DEF InterruptedTimeout
  <2>3. ASSUME NEW x \in Node, TimerFires(x)
        PROVE  up'[n] = up[n] /\ down'[n] = down[n]
    <3>1. CASE ChooseParent(x)
      <4>1. x # n
        BY <2>1, <3>1 DEF ChooseParent, Fires
      <4> QED
        BY <2>0, <3>1, <4>1 DEF ChooseParent, FormUplink, TypeOK
    <3>2. CASE \E i \in Slot : Decay(x, i)
      <4>1. x # n
        BY <2>1, <3>2 DEF Decay
      <4> QED
        BY <2>0, <3>2, <4>1 DEF Decay, TypeOK
    <3>3. CASE ~ ChooseParent(x) /\ ~ \E i \in Slot : Decay(x, i)
      BY <2>3, <3>3 DEF TimerFires, Join, NobodyProposed, ProposalTimeout, CheckParent,
                        ParentLost
    <3> QED
      BY <3>1, <3>2, <3>3
  <2>4. ASSUME NEW x \in Node, Restart(x) \/ PowerCycle(x)
        PROVE  up'[n] = up[n] /\ down'[n] = down[n]
    <3>1. x # n
      BY <1>1, <2>0, <2>4 DEF Restart, PowerCycle, Boot, TypeOK
    <3> QED
      BY <2>0, <2>4, <3>1 DEF Restart, PowerCycle, Boot, TypeOK
  <2>5. ASSUME NEW x \in Node, Transmit(x) \/ Freeze(x) \/ Unfreeze(x) \/ UNCHANGED vars
        PROVE  up'[n] = up[n] /\ down'[n] = down[n]
    BY <2>5 DEF Transmit, Freeze, Unfreeze, vars, nodeVars
  <2> QED
    BY <1>1, <2>2, <2>3, <2>4, <2>5, <2>6 DEF Next
<1>2. IInv /\ [Next]_vars =>
        [\A n \in Node : "FROZEN" \in flags[n] /\ "FROZEN" \in flags'[n] =>
            up'[n] = up[n] /\ down'[n] = down[n]]_vars
  BY <1>1
<1> QED
  BY <1>2, Invariance, PTL DEF Spec, FrozenKeepsLinks
=============================================================================
