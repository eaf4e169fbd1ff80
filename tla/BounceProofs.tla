---------------------------- MODULE BounceProofs ----------------------------
(***************************************************************************)
(* Theorems about Bounce for every tree, table, queue and bound on faults: *)
(* the types, and that every packet keeps its direction from hop to hop.   *)
(*                                                                         *)
(* The invariant speaks of frames one by one.  Good(n) are the frames that *)
(* may wait in the outbound queue of n: of those with a packet that has    *)
(* not strayed, the ones that go up are for the parent, the others for a   *)
(* child.  GoodIn are the packets that may wait for the application: they  *)
(* are marked with the direction they came from.                           *)
(***************************************************************************)
EXTENDS Bounce, FiniteSetTheorems, WellFoundedInduction, TLAPS

-----------------------------------------------------------------------------
(***************************************************************************)
(* The invariant.                                                          *)
(***************************************************************************)
DataFrames == [control : {"DEFAULT"}, dst : Node \cup {Gateway}, payload : BouncePacket]
MapFrames  == [control : {"MAP"}, dst : Node \cup {Gateway},
               origin : Node \cup {None}, upstream : Node \cup {Gateway, None}]

\* A packet p that n sends to d goes its way.
Directed(n, d, p) ==
  p.strayed \/ (IF p.up THEN d = up[n] ELSE d \in Node /\ Parent[d] = n)

Sound(n) == MapFrames \cup {f \in DataFrames : Directed(n, f.dst, f.payload)}
Good(n)  == IF added THEN Sound(n) ELSE MapFrames
GoodIn  == {h \in [payload : BouncePacket, fromUp : BOOLEAN] :
              added /\ (h.payload.strayed \/ (h.fromUp <=> ~ h.payload.up))}

Tree ==
  /\ up \in [Node -> Node \cup {Gateway, None}]
  /\ \A n \in Node : up[n] \in {None, Parent[n]}
  /\ down \in [Node -> [Slot -> Node \cup {None}]]
  /\ \A n \in Node : \A c \in Children(n) : Parent[c] = n

Outs == /\ DOMAIN out = Node
        /\ \A n \in Node : out[n] \in Seq(Good(n)) /\ Len(out[n]) <= OutCap
Ins  == /\ DOMAIN inbox = Node
        /\ \A n \in Node : inbox[n] \in Seq(GoodIn) /\ Len(inbox[n]) <= InCap

Rest ==
  /\ isRoot \in BOOLEAN /\ hosts \subseteq Node
  /\ mapped \subseteq (Node \cup {None}) \X (Node \cup {Gateway, None})
  /\ asked \in BOOLEAN /\ lost \in BOOLEAN /\ added \in BOOLEAN
  /\ faults \in 0 .. MaxFaults

IInv == Tree /\ Outs /\ Ins /\ Rest

-----------------------------------------------------------------------------
(***************************************************************************)
(* Lemmas about the tree.                                                  *)
(***************************************************************************)
LEMMA NoTwoCycle == \A n, p \in Node : Parent[n] = p => Parent[p] # n
<1> SUFFICES ASSUME NEW n \in Node, NEW p \in Node, Parent[n] = p PROVE Parent[p] # n
  OBVIOUS
<1>1. PICK x \in {n, p} : Parent[x] \notin {n, p}
  BY AcyclicAssumption
<1> QED
  BY <1>1

\* AtOrAbove is the set of the nodes that every set with n in it has, which with a
\* node has its parent.
LEMMA AboveDef ==
  /\ AtOrAbove[Gateway] = {Gateway}
  /\ \A n \in Node : AtOrAbove[n] = {n} \cup AtOrAbove[Parent[n]]
<1> DEFINE N == Node \cup {Gateway}
           Upward(S) == \A x \in S : x \in Node => Parent[x] \in S
           F == [n \in N |-> {m \in N : \A S \in SUBSET N : n \in S /\ Upward(S) => m \in S}]
           G(f) == [n \in N |-> IF n = Gateway THEN {n} ELSE {n} \cup f[Parent[n]]]
<1>1. F[Gateway] = {Gateway}
  <2>1. Upward({Gateway})
    BY NodeAssumption
  <2> QED
    BY <2>1
<1>2. ASSUME NEW n \in Node PROVE F[n] = {n} \cup F[Parent[n]]
  <2>1. Parent[n] \in N
    BY TreeAssumption
  <2>2. F[n] \subseteq {n} \cup F[Parent[n]]
    <3> DEFINE T == {n} \cup F[Parent[n]]
    <3>1. Parent[n] \in F[Parent[n]]
      BY <2>1
    <3>2. ASSUME NEW x \in F[Parent[n]], x \in Node PROVE Parent[x] \in F[Parent[n]]
      <4>1. Parent[x] \in N
        BY <3>2, TreeAssumption
      <4>2. ASSUME NEW S \in SUBSET N, Parent[n] \in S, Upward(S) PROVE Parent[x] \in S
        BY <2>1, <3>2, <4>2
      <4> QED
        BY <2>1, <4>1, <4>2
    <3>3. T \in SUBSET N /\ n \in T
      BY <2>1
    <3>4. ASSUME NEW x \in T, x \in Node PROVE Parent[x] \in T
      <4>1. CASE x = n
        BY <3>1, <4>1
      <4>2. CASE x # n
        <5>1. x \in F[Parent[n]]
          BY <4>2
        <5> QED
          BY <3>2, <3>4, <5>1
      <4> QED
        BY <4>1, <4>2
    <3>5. Upward(T)
      <4> HIDE DEF T
      <4> QED
        BY <3>4
    <3>6. \A m \in F[n] : m \in T
      <4> HIDE DEF T
      <4> QED
        BY <3>3, <3>5
    <3> QED
      BY <3>6
  <2>3. n \in F[n]
    OBVIOUS
  <2>4. F[Parent[n]] \subseteq F[n]
    BY <2>1
  <2> QED
    BY <2>2, <2>3, <2>4
<1>3. F = G(F)
  <2>1. \A n \in N : F[n] = G(F)[n]
    BY <1>1, <1>2
  <2> HIDE DEF F
  <2> QED
    BY <2>1 DEF F
<1>4. AtOrAbove = CHOOSE f : f = G(f)
  BY DEF AtOrAbove
<1> HIDE DEF F, G
<1>5. AtOrAbove = G(AtOrAbove)
  BY <1>3, <1>4
<1> QED
  BY <1>5, NodeAssumption DEF G

\* What is above n is above what is below n.
LEMMA AboveUpward ==
  ASSUME NEW b \in Node \cup {Gateway}, NEW x \in Node, x \in AtOrAbove[b]
  PROVE  Parent[x] \in AtOrAbove[b]
<1> DEFINE S == {n \in Node : \E y \in Node : y \in AtOrAbove[n] /\ Parent[y] \notin AtOrAbove[n]}
<1>1. S = {}
  <2> SUFFICES ASSUME S # {} PROVE FALSE
    OBVIOUS
  <2>1. PICK n \in S : Parent[n] \notin S
    BY AcyclicAssumption
  <2>2. PICK y \in Node : y \in AtOrAbove[n] /\ Parent[y] \notin AtOrAbove[n]
    BY <2>1
  <2>3. AtOrAbove[n] = {n} \cup AtOrAbove[Parent[n]] /\ Parent[n] \in Node \cup {Gateway}
    BY AboveDef, TreeAssumption
  <2>4. Parent[n] \in AtOrAbove[Parent[n]]
    BY <2>3, AboveDef
  <2>5. y # n /\ y \in AtOrAbove[Parent[n]]
    BY <2>2, <2>3, <2>4
  <2>6. Parent[n] # Gateway
    BY <2>5, AboveDef, NodeAssumption
  <2>7. Parent[y] \in AtOrAbove[Parent[n]]
    BY <2>1, <2>3, <2>5, <2>6
  <2> QED
    BY <2>2, <2>3, <2>7
<1> QED
  BY <1>1, AboveDef, NodeAssumption

\* No node is above its parent.
LEMMA NotAboveParent ==
  ASSUME NEW c \in Node
  PROVE  c \notin AtOrAbove[Parent[c]]
<1> SUFFICES ASSUME c \in AtOrAbove[Parent[c]] PROVE FALSE
  OBVIOUS
<1> DEFINE S == {n \in Node : c \in AtOrAbove[Parent[n]]}
<1>1. PICK n \in S : Parent[n] \notin S
  BY AcyclicAssumption
<1>2. Parent[n] \in Node
  BY <1>1, TreeAssumption, AboveDef, NodeAssumption
<1>3. Parent[n] = c
  BY <1>1, <1>2, AboveDef
<1> QED
  BY <1>1, <1>3

\* Neither of two places is on the way from the other to the gateway.
Apart(a, b) == a \notin AtOrAbove[b] /\ b \notin AtOrAbove[a]

LEMMA SiblingsApart ==
  ASSUME NEW c \in Node, NEW d \in Node, c # d, Parent[c] = Parent[d]
  PROVE  Apart(c, d)
  BY AboveDef, NotAboveParent DEF Apart

\* Places that are apart stay so when what is there goes down.
LEMMA DownApart ==
  ASSUME NEW a \in Node \cup {Gateway}, NEW b \in Node \cup {Gateway}, Apart(a, b),
         NEW x \in Node \cup {Gateway}, x = a \/ (x \in Node /\ Parent[x] = a),
         NEW y \in Node \cup {Gateway}, y = b \/ (y \in Node /\ Parent[y] = b)
  PROVE  Apart(x, y)
<1>1. ASSUME NEW p \in Node \cup {Gateway}, NEW q \in Node \cup {Gateway}, Apart(p, q),
             NEW u \in Node \cup {Gateway}, u = p \/ (u \in Node /\ Parent[u] = p),
             NEW v \in Node \cup {Gateway}, v = q \/ (v \in Node /\ Parent[v] = q),
             u \in AtOrAbove[v]
      PROVE  FALSE
  <2>1. p \in AtOrAbove[v]
    BY <1>1, AboveUpward
  <2>2. v \in Node /\ Parent[v] = q
    BY <1>1, <2>1 DEF Apart
  <2>3. AtOrAbove[v] = {v} \cup AtOrAbove[q]
    BY <2>2, AboveDef
  <2>4. p = v
    BY <1>1, <2>1, <2>3 DEF Apart
  <2>5. v \in AtOrAbove[v]
    BY <2>3
  <2> QED
    BY <1>1, <2>2, <2>4, <2>5, AboveUpward DEF Apart
<1>2. Apart(b, a)
  BY DEF Apart
<1> QED
  BY <1>1, <1>2 DEF Apart

-----------------------------------------------------------------------------
(***************************************************************************)
(* Lemmas about the operators of NetData.                                  *)
(***************************************************************************)
LEMMA UsedFinite ==
  ASSUME NEW n \in Node
  PROVE  Used(n) \subseteq Slot /\ IsFiniteSet(Used(n)) /\ Cardinality(Used(n)) \in Nat
<1>1. IsFiniteSet(Slot)
  BY FS_Interval, TableAssumption DEF Slot
<1>2. Used(n) \subseteq Slot
  BY DEF Used
<1> QED
  BY <1>1, <1>2, FS_Subset, FS_CardinalityType

\* A set of numbers has a least element.
LEMMA LeastElement ==
  ASSUME NEW S \in SUBSET Nat, S # {}
  PROVE  \E i \in S : \A j \in S : i <= j
<1>1. PICK i \in S : \A j \in S : <<j, i>> \notin OpToRel(<, Nat)
  BY NatLessThanWellFounded, WFMin
<1>2. \A j \in S : i <= j
  <2> TAKE j \in S
  <2>1. i \in Nat /\ j \in Nat
    OBVIOUS
  <2>2. ~ (j < i)
    BY <1>1, <2>1 DEF OpToRel
  <2> QED
    BY <2>1, <2>2, SMT
<1> QED
  BY <1>2

\* The loop over the link table finds as many used entries as there are.
LEMMA NthExists ==
  ASSUME NEW n \in Node, NEW k \in 1 .. Cardinality(Used(n))
  PROVE  \E i \in Used(n) : Cardinality({j \in Used(n) : j < i}) = k - 1
<1> DEFINE U == Used(n)
           Below(m) == {j \in U : j < m}
           M == {m \in Nat : Cardinality(Below(m)) >= k}
<1>1. U \subseteq Slot /\ U \subseteq Nat /\ IsFiniteSet(U) /\ Cardinality(U) \in Nat
  BY UsedFinite, TableAssumption, SMT DEF Slot
<1>2. \A m \in Nat : IsFiniteSet(Below(m)) /\ Cardinality(Below(m)) \in Nat
  <2> TAKE m \in Nat
  <2>1. Below(m) \subseteq U
    OBVIOUS
  <2> QED
    BY <1>1, <2>1, FS_Subset, FS_CardinalityType
<1>3. LINK_TABLE_SIZE \in M
  <2>1. LINK_TABLE_SIZE \in Nat
    BY TableAssumption
  <2>2. Below(LINK_TABLE_SIZE) = U
    BY <1>1, <2>1, SMT DEF Slot
  <2> QED
    BY <1>1, <2>1, <2>2, SMT
<1>4. PICK m \in M : \A x \in M : m <= x
  BY <1>3, LeastElement
<1>5. m \in Nat \ {0}
  <2>1. Below(0) = {}
    BY <1>1, SMT
  <2>2. Cardinality(Below(0)) = 0
    BY <2>1, FS_EmptySet
  <2>3. 0 \notin M
    BY <2>2, SMT
  <2> QED
    BY <1>4, <2>3
<1>6. m - 1 \in Nat /\ m - 1 \notin M
  BY <1>4, <1>5, SMT
<1>7. Cardinality(Below(m-1)) < k
  BY <1>1, <1>2, <1>6, SMT
<1>8. m - 1 \in U
  <2> SUFFICES ASSUME m - 1 \notin U PROVE FALSE
    OBVIOUS
  <2>1. Below(m) = Below(m-1)
    BY <1>1, <1>5, SMT
  <2> QED
    BY <1>2, <1>4, <1>6, <1>7, <2>1, SMT
<1>9. Cardinality(Below(m-1)) = k - 1
  <2>1. Below(m) = Below(m-1) \cup {m-1} /\ m - 1 \notin Below(m-1)
    BY <1>1, <1>5, <1>8, SMT
  <2>2. Cardinality(Below(m)) = Cardinality(Below(m-1)) + 1
    BY <1>2, <1>6, <2>1, FS_AddElement
  <2>3. Cardinality(Below(m)) >= k
    BY <1>4
  <2> QED
    BY <1>1, <1>2, <1>6, <1>7, <2>2, <2>3, SMT
<1> QED
  BY <1>8, <1>9

LEMMA NthIsUsed ==
  ASSUME NEW n \in Node, NEW k \in 1 .. Cardinality(Used(n))
  PROVE  Nth(n, k) \in Used(n)
  BY NthExists DEF Nth

LEMMA EntriesLemma ==
  ASSUME Tree, NEW n \in Node, NEW k \in 1 .. Cardinality(Used(n))
  PROVE  Entries(n)[k] \in Node /\ Parent[Entries(n)[k]] = n
<1>1. Nth(n, k) \in Used(n)
  BY NthIsUsed
<1>2. Entries(n)[k] = down[n][Nth(n, k)]
  BY DEF Entries
<1>3. Entries(n)[k] \in Children(n)
  BY <1>1, <1>2 DEF Children
<1>4. Nth(n, k) \in Slot /\ down[n][Nth(n, k)] # None
  BY <1>1 DEF Used
<1> QED
  BY <1>2, <1>3, <1>4 DEF Tree

\* Queues of frames.
LEMMA SeqMonotone ==
  ASSUME NEW S, NEW T, S \subseteq T, NEW s \in Seq(S)
  PROVE  s \in Seq(T)
  BY SMT

LEMMA EnqueueAllLemma ==
  ASSUME NEW S, NEW q \in Seq(S), Len(q) <= OutCap, NEW s \in Seq(S)
  PROVE  EnqueueAll(q, s) \in Seq(S) /\ Len(EnqueueAll(q, s)) <= OutCap
<1> DEFINE k == IF Len(s) < OutCap - Len(q) THEN Len(s) ELSE OutCap - Len(q)
<1>1. k \in 0 .. Len(s) /\ Len(q) + k <= OutCap
  BY QueueAssumption, SMT
<1>2. SubSeq(s, 1, k) \in Seq(S) /\ Len(SubSeq(s, 1, k)) = k
  <2> HIDE DEF k
  <2> QED
    BY <1>1, SMT
<1> HIDE DEF k
<1>3. q \o SubSeq(s, 1, k) \in Seq(S) /\ Len(q \o SubSeq(s, 1, k)) = Len(q) + k
  BY <1>1, <1>2, SMT
<1> QED
  BY <1>1, <1>3 DEF EnqueueAll, k

\* net_send_up and net_send_down send a packet its way.
LEMMA SendLemma ==
  ASSUME Tree, NEW n \in Node, NEW p \in BouncePacket
  PROVE  /\ p.strayed \/ p.up => SendUp(n, p) \in Seq(Sound(n))
         /\ p.strayed \/ ~ p.up => SendDown(n, p) \in Seq(Sound(n))
<1>1. ASSUME p.strayed \/ p.up
      PROVE  SendUp(n, p) \in Seq(Sound(n))
  <2>1. CASE up[n] = None
    BY <2>1, SMT DEF SendUp
  <2>2. CASE up[n] # None
    <3>1. DataFrame(up[n], p) \in Sound(n)
      BY <1>1, <2>2 DEF DataFrame, Sound, DataFrames, Directed, Tree
    <3>2. << DataFrame(up[n], p) >> \in Seq(Sound(n))
      BY <3>1, SMT
    <3> QED
      BY <2>2, <3>2 DEF SendUp
  <2> QED
    BY <2>1, <2>2
<1>2. ASSUME p.strayed \/ ~ p.up
      PROVE  SendDown(n, p) \in Seq(Sound(n))
  <2>1. ASSUME NEW k \in 1 .. Cardinality(Used(n))
        PROVE  [DataFrame(None, p) EXCEPT !.dst = Entries(n)[k]] \in Sound(n)
    <3>1. [DataFrame(None, p) EXCEPT !.dst = Entries(n)[k]]
            = [control |-> "DEFAULT", dst |-> Entries(n)[k], payload |-> p]
      BY DEF DataFrame
    <3> QED
      BY <1>2, <3>1, EntriesLemma DEF Sound, DataFrames, Directed
  <2>2. SendDown(n, p) \in [1 .. Cardinality(Used(n)) -> Sound(n)]
    BY <2>1 DEF SendDown, ToChildren
  <2> QED
    BY <2>2, UsedFinite, SMT
<1> QED
  BY <1>1, <1>2

\* Answers to MAP frames are MAP frames.
LEMMA MapLemma ==
  ASSUME Tree, NEW m \in Node, NEW src \in Node \cup {Gateway}, NEW f \in MapFrames
  PROVE  MapReplies(m, src, f) \in Seq(MapFrames)
<1>1. << MapFrame(src, m, src) >> \in Seq(MapFrames)
  <2>1. MapFrame(src, m, src) \in MapFrames
    BY DEF MapFrame, MapFrames
  <2> QED
    BY <2>1, SMT
<1>2. ToChildren(m, f) \in Seq(MapFrames)
  <2>1. ASSUME NEW k \in 1 .. Cardinality(Used(m))
        PROVE  [f EXCEPT !.dst = Entries(m)[k]] \in MapFrames
    BY EntriesLemma DEF MapFrames
  <2>2. ToChildren(m, f) \in [1 .. Cardinality(Used(m)) -> MapFrames]
    BY <2>1 DEF ToChildren
  <2> QED
    BY <2>2, UsedFinite, SMT
<1>3. << MapFrame(src, m, src) >> \o ToChildren(m, f) \in Seq(MapFrames)
  BY <1>1, <1>2, SMT
<1>4. ASSUME up[m] # None
      PROVE  << [f EXCEPT !.dst = up[m]] >> \in Seq(MapFrames)
  <2>1. [f EXCEPT !.dst = up[m]] \in MapFrames
    BY <1>4 DEF MapFrames, Tree
  <2> QED
    BY <2>1, SMT
<1>5. << >> \in Seq(MapFrames)
  BY SMT
<1> QED
  BY <1>3, <1>4, <1>5 DEF MapReplies


\* When the up-links stay, a sound frame stays sound.
LEMMA GoodLemma ==
  ASSUME UNCHANGED up, added => added', NEW n \in Node
  PROVE  /\ Good(n) \subseteq Good(n)' /\ GoodIn \subseteq GoodIn'
         /\ MapFrames \subseteq Good(n)'
         /\ added' => Sound(n) \subseteq Good(n)'
<1>1. Sound(n)' = Sound(n)
  BY DEF Sound, Directed
<1>2. MapFrames \subseteq Sound(n)
  BY DEF Sound
<1> QED
  BY <1>1, <1>2 DEF Good, GoodIn

\* The frame f that src sends may be handled by m: m finds the direction it has.
MayHandle(src, m, f) ==
  f.control = "DEFAULT" =>
    added' /\ (IsLinked(m, src) => f.payload.strayed \/ (IsUpstream(m, src) <=> ~ f.payload.up))

LEMMA RepliesLemma ==
  ASSUME Tree, UNCHANGED up, added => added',
         NEW m \in Node, NEW src \in Node \cup {Gateway},
         NEW f \in MapFrames \cup DataFrames, MayHandle(src, m, f), NEW found
  PROVE  Replies(m, src, f, found) \in Seq(Good(m)')
<1>1. << >> \in Seq(Good(m)')
  BY SMT
<1>2. CASE ~ IsLinked(m, src)
  BY <1>1, <1>2 DEF Replies
<1>3. CASE IsLinked(m, src) /\ f.control = "MAP"
  <2>1. f \in MapFrames
    BY <1>3 DEF DataFrames
  <2>2. MapReplies(m, src, f) \in Seq(Good(m)')
    BY <2>1, MapLemma, GoodLemma, SeqMonotone
  <2> QED
    BY <1>3, <2>2 DEF Replies
<1>4. CASE IsLinked(m, src) /\ f.control # "MAP"
  <2>1. f \in DataFrames /\ f.control = "DEFAULT" /\ f.payload \in BouncePacket
    BY <1>4 DEF MapFrames, DataFrames
  <2>2. added' /\ (f.payload.strayed \/ (IsUpstream(m, src) <=> ~ f.payload.up))
    BY <1>4, <2>1 DEF MayHandle
  <2>3. Sound(m) \subseteq Good(m)'
    BY <2>2, GoodLemma
  <2>4. CASE found
    BY <1>1, <1>4, <2>4 DEF Replies, Forward
  <2>5. CASE ~ found /\ IsUpstream(m, src)
    <3>1. SendDown(m, f.payload) \in Seq(Sound(m))
      BY <2>1, <2>2, <2>5, SendLemma
    <3> QED
      BY <1>4, <2>3, <2>5, <3>1, SeqMonotone DEF Replies, Forward
  <2>6. CASE ~ found /\ ~ IsUpstream(m, src)
    <3>1. SendUp(m, f.payload) \in Seq(Sound(m))
      BY <2>1, <2>2, <2>6, SendLemma
    <3> QED
      BY <1>4, <2>3, <2>6, <3>1, SeqMonotone DEF Replies, Forward
  <2> QED
    BY <2>4, <2>5, <2>6
<1> QED
  BY <1>2, <1>3, <1>4

LEMMA InboundLemma ==
  ASSUME Ins, UNCHANGED up, added => added',
         NEW m \in Node, NEW src \in Node \cup {Gateway},
         NEW f \in MapFrames \cup DataFrames, MayHandle(src, m, f), NEW found
  PROVE  /\ Inbound(m, src, f, found) \in Seq(GoodIn')
         /\ Len(Inbound(m, src, f, found)) <= InCap
<1>1. inbox[m] \in Seq(GoodIn') /\ Len(inbox[m]) <= InCap
  BY GoodLemma, SeqMonotone DEF Ins
<1>2. CASE IsLinked(m, src) /\ f.control = "DEFAULT" /\ found /\ Len(inbox[m]) < InCap
  <2> DEFINE h == [payload |-> f.payload, fromUp |-> IsUpstream(m, src)]
  <2>1. f.payload \in BouncePacket
    BY <1>2 DEF MapFrames, DataFrames
  <2>2. added' /\ (f.payload.strayed \/ (IsUpstream(m, src) <=> ~ f.payload.up))
    BY <1>2 DEF MayHandle
  <2>3. IsUpstream(m, src) \in BOOLEAN
    BY DEF IsUpstream
  <2>4. h \in GoodIn'
    BY <2>1, <2>2, <2>3 DEF GoodIn
  <2> HIDE DEF h
  <2>5. Append(inbox[m], h) \in Seq(GoodIn') /\ Len(Append(inbox[m], h)) <= InCap
    BY <1>1, <1>2, <2>4, QueueAssumption, SMT
  <2> QED
    BY <1>2, <2>5 DEF Inbound, Deliver, h
<1>3. CASE ~ (IsLinked(m, src) /\ f.control = "DEFAULT" /\ found /\ Len(inbox[m]) < InCap)
  BY <1>1, <1>3 DEF Inbound, Deliver
<1> QED
  BY <1>2, <1>3

\* A frame that is handled leaves sound queues behind.
LEMMA HandleLemma ==
  ASSUME Tree, Ins, UNCHANGED up, added => added',
         NEW R, NEW src \in Node \cup {Gateway}, NEW late,
         NEW f \in MapFrames \cup DataFrames,
         \A m \in R \cap Node : MayHandle(src, m, f),
         NEW q, \A n \in Node : q[n] \in Seq(Good(n)) /\ Len(q[n]) <= OutCap,
         Handle(R, src, f, late, q)
  PROVE  Outs' /\ Ins'
<1>1. ASSUME NEW m \in Node
      PROVE  out'[m] \in Seq(Good(m)') /\ Len(out'[m]) <= OutCap
  <2>1. q[m] \in Seq(Good(m)') /\ Len(q[m]) <= OutCap
    BY GoodLemma, SeqMonotone
  <2>2. CASE m \in R
    <3>1. Replies(m, src, f, m \in hosts \ late) \in Seq(Good(m)')
      BY <2>2, RepliesLemma
    <3>2. out'[m] = EnqueueAll(q[m], Replies(m, src, f, m \in hosts \ late))
      BY <2>2 DEF Handle
    <3> QED
      BY <2>1, <3>1, <3>2, EnqueueAllLemma
  <2>3. CASE m \notin R
    BY <2>1, <2>3 DEF Handle
  <2> QED
    BY <2>2, <2>3
<1>2. ASSUME NEW m \in Node
      PROVE  inbox'[m] \in Seq(GoodIn') /\ Len(inbox'[m]) <= InCap
  <2>1. CASE m \in R
    <3>1. inbox'[m] = Inbound(m, src, f, m \in hosts \ late)
      BY <2>1 DEF Handle
    <3> QED
      BY <2>1, <3>1, InboundLemma
  <2>2. CASE m \notin R
    <3>1. inbox'[m] = inbox[m]
      BY <2>2 DEF Handle
    <3> QED
      BY <3>1, GoodLemma, SeqMonotone DEF Ins
  <2> QED
    BY <2>1, <2>2
<1>3. DOMAIN out' = Node /\ DOMAIN inbox' = Node
  BY DEF Handle
<1> QED
  BY <1>1, <1>2, <1>3 DEF Outs, Ins


-----------------------------------------------------------------------------
(***************************************************************************)
(* Frames on their way.                                                    *)
(***************************************************************************)

\* The head and the rest of a queue.
LEMMA TailLemma ==
  ASSUME NEW S, NEW s \in Seq(S), s # << >>
  PROVE  Head(s) \in S /\ Tail(s) \in Seq(S) /\ Len(Tail(s)) = Len(s) - 1 /\ Len(s) \in Nat
  BY SMT

\* The mark of a frame that went to all peers.
LEMMA StrayedLemma ==
  ASSUME NEW f \in MapFrames \cup DataFrames
  PROVE  /\ Strayed(f) \in MapFrames \cup DataFrames
         /\ Strayed(f).control = f.control
         /\ f.control = "DEFAULT" => Strayed(f).payload.strayed
<1>1. CASE f.control # "DEFAULT"
  BY <1>1 DEF Strayed
<1>2. CASE f.control = "DEFAULT"
  <2>1. f \in DataFrames /\ f.payload \in BouncePacket
    BY <1>2 DEF MapFrames, DataFrames
  <2> DEFINE p == [f.payload EXCEPT !.strayed = TRUE]
  <2>2. p \in BouncePacket /\ p.strayed
    BY <2>1 DEF BouncePacket
  <2>3. Strayed(f) = [f EXCEPT !.payload = p]
    BY <1>2, <2>1 DEF Strayed, DataFrames
  <2> HIDE DEF p
  <2>4. [f EXCEPT !.payload = p] \in DataFrames /\ [f EXCEPT !.payload = p].payload = p
        /\ [f EXCEPT !.payload = p].control = f.control
    BY <2>1, <2>2 DEF DataFrames
  <2> QED
    BY <2>2, <2>3, <2>4
<1> QED
  BY <1>1, <1>2

\* The receiver of a frame in a sound queue finds the direction it has.
LEMMA HopLemma ==
  ASSUME Tree, NEW n \in Node, NEW f \in Good(n), added => added',
         NEW m \in Node, m = f.dst
  PROVE  MayHandle(n, m, f)
<1> SUFFICES ASSUME f.control = "DEFAULT"
             PROVE  added' /\ (IsLinked(m, n) =>
                                 f.payload.strayed \/ (IsUpstream(m, n) <=> ~ f.payload.up))
  BY DEF MayHandle
<1>1. added /\ Directed(n, f.dst, f.payload)
  BY DEF Good, Sound, MapFrames
<1>2. /\ up[n] \in {None, Parent[n]} /\ up[m] \in {None, Parent[m]}
      /\ \A c \in Children(m) : Parent[c] = m
      /\ n # None /\ m # None
  BY NodeAssumption DEF Tree
<1>3. ASSUME IsLinked(m, n), ~ f.payload.strayed, f.payload.up
      PROVE  ~ IsUpstream(m, n)
  <2>1. Parent[n] = m
    BY <1>1, <1>2, <1>3 DEF Directed
  <2>2. Parent[m] # n
    BY <2>1, NoTwoCycle
  <2> QED
    BY <1>2, <2>2 DEF IsUpstream
<1>4. ASSUME IsLinked(m, n), ~ f.payload.strayed, ~ f.payload.up
      PROVE  IsUpstream(m, n)
  <2>1. Parent[m] = n
    BY <1>1, <1>4 DEF Directed
  <2>2. Parent[n] # m
    BY <2>1, NoTwoCycle
  <2>3. n \notin Children(m)
    BY <1>2, <2>2
  <2> QED
    BY <1>4, <2>3 DEF IsLinked, Links, IsUpstream
<1> QED
  BY <1>1, <1>3, <1>4

\* The used legs are legs, so there is a number for the next one, which is not in use.
LEMMA FreeLegLemma ==
  ASSUME Outs, Ins, LegFree
  PROVE  FreeLeg \in Leg /\ \A c \in OutCopies \cup InCopies : c.payload.leg # FreeLeg
<1> DEFINE used == {c.payload.leg : c \in OutCopies \cup InCopies}
           free == Leg \ used
<1>1. ASSUME NEW c \in OutCopies
      PROVE  c.payload.leg \in Leg
  <2>1. PICK n \in Node : \E k \in DOMAIN out[n] :
          out[n][k].control = "DEFAULT" /\ c.payload = out[n][k].payload
    BY DEF OutCopies
  <2>2. PICK k \in DOMAIN out[n] :
          out[n][k].control = "DEFAULT" /\ c.payload = out[n][k].payload
    BY <2>1
  <2>3. out[n][k] \in Good(n)
    BY SMT DEF Outs
  <2>4. out[n][k].payload \in BouncePacket
    BY <2>2, <2>3 DEF Good, Sound, MapFrames, DataFrames
  <2> QED
    BY <2>2, <2>4 DEF BouncePacket
<1>2. ASSUME NEW c \in InCopies
      PROVE  c.payload.leg \in Leg
  <2>1. PICK n \in Node : \E k \in DOMAIN inbox[n] : c.payload = inbox[n][k].payload
    BY DEF InCopies
  <2>2. PICK k \in DOMAIN inbox[n] : c.payload = inbox[n][k].payload
    BY <2>1
  <2>3. inbox[n][k] \in GoodIn
    BY SMT DEF Ins
  <2> QED
    BY <2>2, <2>3 DEF GoodIn, BouncePacket
<1>3. used \subseteq Leg
  BY <1>1, <1>2
<1>4. free # {} /\ free \subseteq Nat
  BY <1>3, LegAssumption DEF LegFree
<1>5. \E l \in free : \A j \in free : l <= j
  <2> HIDE DEF free
  <2> QED
    BY <1>4, LeastElement
<1>6. FreeLeg \in free
  BY <1>5 DEF FreeLeg
<1> QED
  BY <1>6


\* Before the first message no packet is under way, so a number is free.
LEMMA NoCopies ==
  ASSUME Outs, Ins, ~ added
  PROVE  LegFree
<1>1. OutCopies = {}
  <2> SUFFICES ASSUME NEW n \in Node, NEW k \in DOMAIN out[n], out[n][k].control = "DEFAULT"
               PROVE  FALSE
    BY DEF OutCopies
  <2>1. out[n][k] \in MapFrames
    BY SMT DEF Outs, Good
  <2> QED
    BY <2>1 DEF MapFrames
<1>2. InCopies = {}
  <2> SUFFICES ASSUME NEW n \in Node, NEW k \in DOMAIN inbox[n]
               PROVE  FALSE
    BY DEF InCopies
  <2>1. inbox[n][k] \in GoodIn
    BY SMT DEF Ins
  <2> QED
    BY <2>1 DEF GoodIn
<1> QED
  BY <1>1, <1>2, LegAssumption DEF LegFree

-----------------------------------------------------------------------------
(***************************************************************************)
(* The steps.                                                              *)
(***************************************************************************)
LEMMA InitInv == Init => IInv
<1> SUFFICES ASSUME Init PROVE IInv
  OBVIOUS
<1>1. ASSUME NEW n \in Node
      PROVE  /\ down[n] \in [Slot -> Node \cup {None}]
             /\ {down[n][i] : i \in Slot} \ {None} = {c \in Node : Parent[c] = n}
  <2>1. down[n] = CHOOSE f \in Tables(n) : TRUE
    BY DEF Init, NetInit
  <2>2. down[n] \in Tables(n)
    BY <2>1, FitAssumption
  <2> QED
    BY <2>2 DEF Tables
<1>2. Tree
  <2>1. \A n \in Node : \A c \in Children(n) : Parent[c] = n
    BY <1>1 DEF Children, Used
  <2>2. down \in [Node -> [Slot -> Node \cup {None}]]
    BY <1>1 DEF Init, NetInit
  <2>3. up = [n \in Node |-> IF n = Top /\ isRoot THEN None ELSE Parent[n]]
    BY DEF Init, NetInit
  <2>4. \A n \in Node : Parent[n] \in Node \cup {Gateway}
    BY TreeAssumption
  <2>5. up \in [Node -> Node \cup {Gateway, None}]
    BY <2>3, <2>4
  <2>6. \A n \in Node : up[n] \in {None, Parent[n]}
    BY <2>3
  <2> QED
    BY <2>1, <2>2, <2>5, <2>6 DEF Tree
<1>3. Outs
  <2>1. out = [n \in Node |-> << >>]
    BY DEF Init, NetInit
  <2>2. \A n \in Node : << >> \in Seq(Good(n)) /\ Len(<< >>) <= OutCap
    BY QueueAssumption, SMT
  <2> QED
    BY <2>1, <2>2 DEF Outs
<1>4. Ins
  <2>1. inbox = [n \in Node |-> << >>]
    BY DEF Init, NetInit
  <2>2. << >> \in Seq(GoodIn) /\ Len(<< >>) <= InCap
    BY QueueAssumption, SMT
  <2> QED
    BY <2>1, <2>2 DEF Ins
<1>5. Rest
  <2>1. faults = 0 /\ 0 \in 0 .. MaxFaults
    BY QueueAssumption, SMT DEF Init, NetInit
  <2> QED
    BY <2>1 DEF Init, NetInit, Rest
<1> QED
  BY <1>2, <1>3, <1>4, <1>5 DEF IInv

\* Queues that do not change stay sound.
LEMMA OutsUnchanged ==
  ASSUME Outs, UNCHANGED <<up, out>>, added => added'
  PROVE  Outs'
<1>1. ASSUME NEW n \in Node PROVE out[n] \in Seq(Good(n)')
  BY <1>1, GoodLemma, SeqMonotone DEF Outs
<1> QED
  BY <1>1 DEF Outs

LEMMA InsUnchanged ==
  ASSUME Ins, UNCHANGED <<up, inbox>>, added => added'
  PROVE  Ins'
<1>1. ASSUME NEW n \in Node PROVE inbox[n] \in Seq(GoodIn')
  BY <1>1, GoodLemma, SeqMonotone DEF Ins
<1> QED
  BY <1>1 DEF Ins

LEMMA TreeUnchanged == Tree /\ UNCHANGED linkVars => Tree'
  BY DEF Tree, linkVars, Children, Used

LEMMA LateLemma == ASSUME Rest, NEW L, Late(L), IsFiniteSet(L) PROVE faults' \in 0 .. MaxFaults
  BY FS_CardinalityType, QueueAssumption, SMT DEF Late, Rest

\* worker_send.
LEMMA TransmitStep ==
  ASSUME IInv, NEW n \in Node, Transmit(n), UNCHANGED added
  PROVE  IInv'
<1> DEFINE f  == Head(out[n])
           to == Receivers(n, f.dst)
           g  == IF to = {f.dst} THEN f ELSE Strayed(f)
<1>1. PICK R \in SUBSET to, late \in SUBSET hosts :
        /\ late \subseteq R /\ Late(late)
        /\ Handle(R, n, g, late, [out EXCEPT ![n] = Tail(@)])
        /\ f.control = "MAP" =>
             mapped' = IF Gateway \in R THEN mapped \cup {<<f.origin, f.upstream>>} ELSE mapped
        /\ f.control = "MAP" => lost' \in BOOLEAN
        /\ f.control # "MAP" => UNCHANGED <<mapped, lost>>
  BY DEF Transmit
<1>2. Tree /\ Outs /\ Ins /\ Rest /\ UNCHANGED <<setVars, linkVars, asked>>
  BY DEF IInv, Transmit
<1>3. out[n] # << >> /\ out[n] \in Seq(Good(n))
  BY <1>2 DEF Transmit, Outs
<1>4. f \in Good(n) /\ f \in MapFrames \cup DataFrames /\ f.dst \in Node \cup {Gateway}
  <2>1. f \in Good(n)
    BY <1>3, TailLemma
  <2> HIDE DEF f
  <2>2. f \in MapFrames \cup DataFrames
    BY <2>1 DEF Good, Sound
  <2>3. f.dst \in Node \cup {Gateway}
    BY <2>2 DEF MapFrames, DataFrames
  <2> QED
    BY <2>1, <2>2, <2>3
<1>5. to \subseteq Node \cup {Gateway}
  BY <1>4 DEF Receivers
<1>6. g \in MapFrames \cup DataFrames /\ \A m \in R \cap Node : MayHandle(n, m, g)
  <2>1. CASE to = {f.dst}
    BY <1>1, <1>2, <1>4, <2>1, HopLemma
  <2>2. CASE to # {f.dst}
    <3>1. f.control = "DEFAULT" => added'
      BY <1>4 DEF Good, MapFrames
    <3> QED
      BY <1>4, <2>2, <3>1, StrayedLemma DEF MayHandle
  <2> QED
    BY <2>1, <2>2
<1> DEFINE q == [out EXCEPT ![n] = Tail(@)]
<1>7. \A m \in Node : q[m] \in Seq(Good(m)) /\ Len(q[m]) <= OutCap
  <2> TAKE m \in Node
  <2>1. CASE m = n
    <3>1. q[n] = Tail(out[n])
      BY <1>2 DEF Outs
    <3>2. Tail(out[n]) \in Seq(Good(n)) /\ Len(Tail(out[n])) = Len(out[n]) - 1
      BY <1>3, TailLemma
    <3>3. Len(out[n]) \in Nat /\ Len(out[n]) <= OutCap
      BY <1>2, <1>3, TailLemma DEF Outs
    <3> QED
      BY <2>1, <3>1, <3>2, <3>3, QueueAssumption, SMT
  <2>2. CASE m # n
    BY <1>2, <2>2 DEF Outs
  <2> QED
    BY <2>1, <2>2
<1>8. Handle(R, n, g, late, q)
  BY <1>1
<1> HIDE DEF f, to, g, q
<1>9. Outs' /\ Ins'
  BY <1>2, <1>6, <1>7, <1>8, HandleLemma DEF linkVars
<1>10. Rest'
  <2>1. faults' \in 0 .. MaxFaults
    <3>1. IsFiniteSet(late)
      BY <1>2, NodeAssumption, FS_Subset DEF Rest
    <3> QED
      BY <1>1, <1>2, <3>1, LateLemma
  <2>2. mapped' \subseteq (Node \cup {None}) \X (Node \cup {Gateway, None})
    <3>1. f.control = "MAP" => f.origin \in Node \cup {None} /\ f.upstream \in Node \cup {Gateway, None}
      BY <1>4 DEF MapFrames, DataFrames
    <3> QED
      BY <1>1, <1>2, <3>1 DEF Rest
  <2>3. lost' \in BOOLEAN
    BY <1>1, <1>2 DEF Rest
  <2> QED
    BY <1>2, <2>1, <2>2, <2>3 DEF Rest, setVars
<1> QED
  BY <1>2, <1>9, <1>10, TreeUnchanged DEF IInv

\* Frames of the gateway.
LEMMA GatewayStep ==
  ASSUME IInv, added => added', UNCHANGED up,
         NEW f \in MapFrames \cup DataFrames, NEW late,
         f.control = "DEFAULT" => added' /\ ~ f.payload.up,
         Handle({Top}, Gateway, f, late, out)
  PROVE  Outs' /\ Ins'
<1>1. Tree /\ Outs /\ Ins
  BY DEF IInv
<1>2. \A m \in {Top} \cap Node : MayHandle(Gateway, m, f)
  <2>1. Gateway \notin Children(Top)
    BY <1>1, NodeAssumption DEF Tree, Children, Used
  <2>2. IsLinked(Top, Gateway) => IsUpstream(Top, Gateway)
    BY <2>1 DEF IsLinked, Links, IsUpstream
  <2> QED
    BY <2>2 DEF MayHandle
<1>3. \A n \in Node : out[n] \in Seq(Good(n)) /\ Len(out[n]) <= OutCap
  BY <1>1 DEF Outs
<1> QED
  BY <1>1, <1>2, <1>3, HandleLemma

LEMMA MapRequestStep ==
  ASSUME IInv, MapRequest, UNCHANGED added
  PROVE  IInv'
<1>1. MapFrame(Top, None, None) \in MapFrames
  BY NodeAssumption DEF MapFrame, MapFrames
<1>2. MapFrame(Top, None, None).control # "DEFAULT"
  BY DEF MapFrame
<1>3. Handle({Top}, Gateway, MapFrame(Top, None, None), {}, out)
  BY DEF MapRequest
<1>4. Outs' /\ Ins'
  BY <1>1, <1>2, <1>3, GatewayStep DEF MapRequest, linkVars
<1>5. Rest'
  BY DEF IInv, Rest, MapRequest, setVars
<1>6. Tree'
  BY TreeUnchanged DEF IInv, MapRequest
<1> QED
  BY <1>4, <1>5, <1>6 DEF IInv

LEMMA GatewayMessageStep ==
  ASSUME IInv, NEW life \in 1 .. MaxLife, GatewayMessage(life)
  PROVE  IInv'
<1> DEFINE p == [left |-> life, leg |-> FreeLeg, up |-> FALSE, strayed |-> FALSE]
<1>1. p \in BouncePacket
  <2>1. FreeLeg \in Leg
    BY NoCopies, FreeLegLemma DEF IInv, GatewayMessage
  <2>2. life \in 0 .. MaxLife
    BY SMT
  <2> QED
    BY <2>1, <2>2 DEF BouncePacket
<1>2. DataFrame(Top, p) \in DataFrames /\ DataFrame(Top, p).payload = p
  BY <1>1, NodeAssumption DEF DataFrame, DataFrames
<1>3. PICK late \in SUBSET (hosts \cap {Top}) :
        Late(late) /\ Handle({Top}, Gateway, DataFrame(Top, p), late, out)
  BY DEF GatewayMessage
<1>4. added' /\ UNCHANGED <<setVars, linkVars, mapVars>> /\ ~ p.up
  BY DEF GatewayMessage
<1> HIDE DEF p
<1>5. Outs' /\ Ins'
  BY <1>2, <1>3, <1>4, GatewayStep DEF linkVars
<1>6. Rest'
  <2>1. IsFiniteSet(late)
    BY <1>3, NodeAssumption, FS_Subset DEF IInv, Rest
  <2>2. faults' \in 0 .. MaxFaults
    BY <1>3, <2>1, LateLemma DEF IInv
  <2>3. added' \in BOOLEAN
    BY DEF GatewayMessage
  <2> QED
    BY <1>4, <2>2, <2>3 DEF IInv, Rest, setVars, mapVars
<1> QED
  BY <1>4, <1>5, <1>6, TreeUnchanged DEF IInv

\* n puts frames into its own queue.
LEMMA OwnQueueLemma ==
  ASSUME IInv, UNCHANGED up, added', NEW n \in Node,
         NEW s \in Seq(Sound(n)), out' = [out EXCEPT ![n] = EnqueueAll(@, s)]
  PROVE  Outs'
<1>1. /\ DOMAIN out = Node
      /\ \A m \in Node : out[m] \in Seq(Good(m)') /\ Len(out[m]) <= OutCap
  BY GoodLemma, SeqMonotone DEF IInv, Outs
<1>2. s \in Seq(Good(n)')
  BY GoodLemma, SeqMonotone
<1>3. EnqueueAll(out[n], s) \in Seq(Good(n)') /\ Len(EnqueueAll(out[n], s)) <= OutCap
  BY <1>1, <1>2, EnqueueAllLemma
<1> QED
  BY <1>1, <1>3 DEF Outs

LEMMA AddMessageStep ==
  ASSUME IInv, NEW n \in Node, NEW goUp \in BOOLEAN, NEW life \in 1 .. MaxLife,
         AddMessage(n, goUp, life)
  PROVE  IInv'
<1> DEFINE p == [left |-> life, leg |-> FreeLeg, up |-> goUp, strayed |-> FALSE]
<1>1. p \in BouncePacket /\ p.up = goUp
  <2>1. FreeLeg \in Leg
    BY NoCopies, FreeLegLemma DEF IInv, AddMessage
  <2>2. life \in 0 .. MaxLife
    BY SMT
  <2> QED
    BY <2>1, <2>2 DEF BouncePacket
<1>2. out' = [out EXCEPT ![n] = EnqueueAll(@, IF goUp THEN SendUp(n, p) ELSE SendDown(n, p))]
  BY DEF AddMessage
<1> HIDE DEF p
<1>3. (IF goUp THEN SendUp(n, p) ELSE SendDown(n, p)) \in Seq(Sound(n))
  BY <1>1, SendLemma DEF IInv
<1>4. added' = TRUE /\ UNCHANGED <<setVars, linkVars, inbox, mapVars, faults>>
  BY DEF AddMessage
<1>5. Outs'
  BY <1>2, <1>3, <1>4, OwnQueueLemma DEF linkVars
<1>6. Ins'
  BY <1>4, InsUnchanged DEF IInv, linkVars
<1>7. Rest'
  BY <1>4 DEF IInv, Rest, setVars, mapVars
<1> QED
  BY <1>4, <1>5, <1>6, <1>7, TreeUnchanged DEF IInv

LEMMA BouncesStep ==
  ASSUME IInv, NEW n \in Node, Bounces(n)
  PROVE  IInv'
<1> DEFINE h == Head(inbox[n])
           p == [left |-> LeftAfter(h.payload), leg |-> FreeLeg,
                 up |-> ~ h.payload.up, strayed |-> h.payload.strayed]
<1>1. Outs /\ Ins /\ Rest /\ UNCHANGED <<setVars, linkVars, mapVars, faults, added>>
  BY DEF IInv, Bounces
<1>2. inbox[n] \in Seq(GoodIn) /\ inbox[n] # << >> /\ Len(inbox[n]) <= InCap
  BY <1>1 DEF Ins, Bounces
<1>3. /\ h \in GoodIn
      /\ Tail(inbox[n]) \in Seq(GoodIn)
      /\ Len(Tail(inbox[n])) = Len(inbox[n]) - 1 /\ Len(inbox[n]) \in Nat
  BY <1>2, TailLemma
<1>4. Ins'
  <2>1. GoodIn' = GoodIn
    BY <1>1 DEF GoodIn
  <2>2. Len(Tail(inbox[n])) <= InCap
    BY <1>2, <1>3, QueueAssumption, SMT
  <2>3. inbox' = [inbox EXCEPT ![n] = Tail(@)]
    BY DEF Bounces
  <2> QED
    BY <1>1, <1>3, <2>1, <2>2, <2>3 DEF Ins
<1>5. Outs'
  <2>1. CASE h.payload.left = 0
    <3>1. UNCHANGED out
      BY <2>1 DEF Bounces
    <3> QED
      BY <1>1, <3>1, OutsUnchanged DEF linkVars
  <2>2. CASE h.payload.left # 0
    <3>1. /\ LegFree
          /\ out' = [out EXCEPT ![n] = EnqueueAll(@, IF h.fromUp THEN SendUp(n, p) ELSE SendDown(n, p))]
      BY <2>2 DEF Bounces
    <3> HIDE DEF h
    <3>2. /\ added /\ h.payload \in BouncePacket /\ h.fromUp \in BOOLEAN
          /\ h.payload.strayed \/ (h.fromUp <=> ~ h.payload.up)
      BY <1>3 DEF GoodIn
    <3>3. /\ h.payload.left \in 0 .. MaxLife /\ h.payload.up \in BOOLEAN
          /\ h.payload.strayed \in BOOLEAN
      BY <3>2 DEF BouncePacket
    <3>4. LeftAfter(h.payload) \in 0 .. MaxLife
      BY <2>2, <3>3, LegAssumption, SMT DEF LeftAfter
    <3>5. FreeLeg \in Leg
      BY <1>1, <3>1, FreeLegLemma
    <3>6. p \in BouncePacket
      BY <3>3, <3>4, <3>5 DEF BouncePacket
    <3>7. (p.up <=> ~ h.payload.up) /\ (p.strayed <=> h.payload.strayed)
      OBVIOUS
    <3> HIDE DEF p
    <3>8. (IF h.fromUp THEN SendUp(n, p) ELSE SendDown(n, p)) \in Seq(Sound(n))
      BY <3>2, <3>6, <3>7, SendLemma DEF IInv
    <3> QED
      BY <1>1, <3>1, <3>2, <3>8, OwnQueueLemma DEF linkVars
  <2> QED
    BY <2>1, <2>2
<1>6. Rest'
  BY <1>1 DEF Rest, setVars, mapVars
<1> QED
  BY <1>1, <1>4, <1>5, <1>6, TreeUnchanged DEF IInv


(***************************************************************************)
(* Links.                                                                  *)
(***************************************************************************)
LEMMA DecayStep ==
  ASSUME IInv, NEW n \in Node, NEW i \in Slot, Decay(n, i), UNCHANGED added
  PROVE  IInv'
<1>1. Tree /\ Outs /\ Ins /\ Rest /\ UNCHANGED <<setVars, up, out, inbox, mapped, asked>>
  BY DEF IInv, Decay
<1>2. Tree'
  <2>1. down' = [down EXCEPT ![n] = [@ EXCEPT ![i] = None]] /\ up' = up
    BY DEF Decay
  <2>2. down' \in [Node -> [Slot -> Node \cup {None}]]
    BY <1>1, <2>1 DEF Tree
  <2>3. \A m \in Node : \A c \in Children(m)' : c \in Children(m)
    BY <1>1, <2>1 DEF Tree, Children, Used
  <2> QED
    BY <1>1, <2>1, <2>2, <2>3 DEF Tree
<1>3. Rest'
  <2>1. faults' \in 0 .. MaxFaults
    BY <1>1, QueueAssumption, SMT DEF Rest, Decay
  <2>2. lost' = TRUE
    BY DEF Decay
  <2> QED
    BY <1>1, <2>1, <2>2 DEF Rest, setVars
<1> QED
  BY <1>1, <1>2, <1>3, OutsUnchanged, InsUnchanged DEF IInv

LEMMA RestartStep ==
  ASSUME IInv, NEW n \in Node, Restart(n), UNCHANGED added
  PROVE  IInv'
<1>1. Tree /\ Outs /\ Ins /\ Rest /\ UNCHANGED <<setVars, mapped, asked>>
  BY DEF IInv, Restart
<1>2. /\ up' = [up EXCEPT ![n] = None]
      /\ down' = [down EXCEPT ![n] = NoLinks]
      /\ out' = [out EXCEPT ![n] = << >>]
      /\ inbox' = [inbox EXCEPT ![n] = << >>]
      /\ lost' = TRUE
  BY DEF Restart
<1>3. Tree'
  <2>1. NoLinks \in [Slot -> Node \cup {None}] /\ \A i \in Slot : NoLinks[i] = None
    BY DEF NoLinks
  <2>2. down' \in [Node -> [Slot -> Node \cup {None}]]
    BY <1>1, <1>2, <2>1 DEF Tree
  <2>3. \A m \in Node : \A c \in Children(m)' : c \in Children(m)
    BY <1>1, <1>2, <2>1 DEF Tree, Children, Used
  <2>4. /\ up' \in [Node -> Node \cup {Gateway, None}]
        /\ \A m \in Node : up'[m] \in {None, Parent[m]}
    BY <1>1, <1>2 DEF Tree
  <2> QED
    BY <1>1, <2>2, <2>3, <2>4 DEF Tree
<1>4. Outs'
  <2>1. << >> \in Seq(Good(n)') /\ Len(<< >>) <= OutCap
    BY QueueAssumption, SMT
  <2>2. ASSUME NEW m \in Node \ {n} PROVE Good(m)' = Good(m)
    <3>1. up'[m] = up[m]
      BY <1>1, <1>2 DEF Tree
    <3> QED
      BY <3>1 DEF Good, Sound, Directed
  <2> QED
    BY <1>1, <1>2, <2>1, <2>2 DEF Outs
<1>5. Ins'
  <2>1. << >> \in Seq(GoodIn') /\ Len(<< >>) <= InCap
    BY QueueAssumption, SMT
  <2>2. GoodIn' = GoodIn
    BY DEF GoodIn
  <2> QED
    BY <1>1, <1>2, <2>1, <2>2 DEF Ins
<1>6. Rest'
  <2>1. faults' \in 0 .. MaxFaults
    BY <1>1, QueueAssumption, SMT DEF Rest, Restart
  <2> QED
    BY <1>1, <1>2, <2>1 DEF Rest, setVars
<1> QED
  BY <1>3, <1>4, <1>5, <1>6 DEF IInv

LEMMA RejoinStep ==
  ASSUME IInv, NEW n \in Node, Rejoin(n), UNCHANGED added
  PROVE  IInv'
<1> DEFINE p == Parent[n]
           free == {i \in Slot : down[p][i] = None}
           e == CHOOSE i \in free : \A j \in free : i <= j
<1>1. /\ Tree /\ Outs /\ Ins /\ Rest
      /\ UNCHANGED <<setVars, out, inbox, mapVars, faults>>
  BY DEF IInv, Rejoin
<1>2. /\ n # Top /\ up[n] = None /\ free # {}
      /\ down' = [down EXCEPT ![p] = [@ EXCEPT ![e] = n]]
      /\ up' = [up EXCEPT ![n] = p]
  BY DEF Rejoin
<1>3. p \in Node
  BY <1>2, TreeAssumption
<1>4. e \in Slot
  <2>1. free \subseteq Nat
    BY TableAssumption, SMT DEF Slot
  <2> HIDE DEF free
  <2>2. e \in free
    BY <1>2, <2>1, LeastElement
  <2> QED
    BY <2>2 DEF free
<1> HIDE DEF e, free
<1>5. Tree'
  <2>1. down' \in [Node -> [Slot -> Node \cup {None}]]
    BY <1>1, <1>2, <1>3, <1>4 DEF Tree
  <2>2. \A m \in Node : \A c \in Children(m)' : c \in Children(m) \/ (m = p /\ c = n)
    BY <1>1, <1>2, <1>3, <1>4 DEF Tree, Children, Used
  <2>3. /\ up' \in [Node -> Node \cup {Gateway, None}]
        /\ \A m \in Node : up'[m] \in {None, Parent[m]}
    BY <1>1, <1>2, <1>3 DEF Tree
  <2> QED
    BY <1>1, <2>1, <2>2, <2>3 DEF Tree
<1>6. Outs'
  <2>1. ASSUME NEW m \in Node PROVE Good(m) \subseteq Good(m)'
    <3>1. ASSUME NEW f \in DataFrames, Directed(m, f.dst, f.payload)
          PROVE  Directed(m, f.dst, f.payload)'
      <4>1. CASE m # n
        BY <1>1, <1>2, <3>1, <4>1 DEF Directed, Tree
      <4>2. CASE m = n
        <5>1. f.dst # None
          BY NodeAssumption DEF DataFrames
        <5> QED
          BY <1>2, <3>1, <4>2, <5>1 DEF Directed
      <4> QED
        BY <4>1, <4>2
    <3> QED
      BY <3>1 DEF Good, Sound
  <2>2. ASSUME NEW m \in Node PROVE out[m] \in Seq(Good(m)')
    BY <1>1, <2>1, <2>2, SeqMonotone DEF Outs
  <2> QED
    BY <1>1, <2>2 DEF Outs
<1>7. Ins'
  <2>1. GoodIn' = GoodIn
    BY DEF GoodIn
  <2> QED
    BY <1>1, <2>1 DEF Ins
<1>8. Rest'
  BY <1>1 DEF Rest, setVars, mapVars
<1> QED
  BY <1>5, <1>6, <1>7, <1>8 DEF IInv

-----------------------------------------------------------------------------
(***************************************************************************)
(* The theorems.                                                           *)
(***************************************************************************)
LEMMA NextInv == IInv /\ [Next]_vars => IInv'
<1> SUFFICES ASSUME IInv, [Next]_vars PROVE IInv'
  OBVIOUS
<1>1. CASE UNCHANGED vars
  <2>1. UNCHANGED <<setVars, linkVars, out, inbox, mapVars, faults, added>>
    BY <1>1 DEF vars, netVars
  <2>2. Rest'
    BY <2>1 DEF IInv, Rest, setVars, mapVars
  <2>3. Outs' /\ Ins'
    BY <2>1, OutsUnchanged, InsUnchanged DEF IInv, linkVars
  <2> QED
    BY <2>1, <2>2, <2>3, TreeUnchanged DEF IInv
<1>2. ASSUME NetStep, UNCHANGED added PROVE IInv'
  BY <1>2, TransmitStep, RestartStep, RejoinStep, DecayStep DEF NetStep
<1>3. ASSUME MapRequest, UNCHANGED added PROVE IInv'
  BY <1>3, MapRequestStep
<1>4. ASSUME NEW n \in Node, NEW goUp \in BOOLEAN, NEW life \in 1 .. MaxLife,
             AddMessage(n, goUp, life)
      PROVE  IInv'
  BY <1>4, AddMessageStep
<1>5. ASSUME NEW life \in 1 .. MaxLife, GatewayMessage(life) PROVE IInv'
  BY <1>5, GatewayMessageStep
<1>6. ASSUME NEW n \in Node, Bounces(n) PROVE IInv'
  BY <1>6, BouncesStep
<1> QED
  BY <1>1, <1>2, <1>3, <1>4, <1>5, <1>6 DEF Next

\* The inductive invariant holds in every reachable state.
THEOREM Invariance == Spec => []IInv
<1> QED
  BY InitInv, NextInv, PTL DEF Spec

\* The type invariant, for every tree, table, queue and number of faults.
THEOREM TypeCorrect == Spec => []TypeOK
<1>1. IInv => TypeOK
  <2> SUFFICES ASSUME IInv PROVE TypeOK
    OBVIOUS
  <2>1. ASSUME NEW n \in Node, NEW k \in 1 .. Len(out[n])
        PROVE  out[n][k] \in MapFrames \cup DataFrames
    <3>1. out[n][k] \in Good(n)
      BY SMT DEF IInv, Outs
    <3> QED
      BY <3>1 DEF Good, Sound
  <2>2. ASSUME NEW n \in Node, NEW k \in 1 .. Len(inbox[n])
        PROVE  inbox[n][k] \in [payload : BouncePacket, fromUp : BOOLEAN]
    <3>1. inbox[n][k] \in GoodIn
      BY SMT DEF IInv, Ins
    <3> QED
      BY <3>1 DEF GoodIn
  <2> QED
    BY <2>1, <2>2 DEF TypeOK, IInv, Tree, Outs, Ins, Rest, MapFrames, DataFrames
<1> QED
  BY <1>1, Invariance, PTL

\* A packet goes on in its direction on every hop (espnow_recv, net_layer.c:609-640)
\* and turns round exactly when the application bounces it (app_bounce.c:120-147), as
\* long as it has not been sent to all peers for want of a link (find_mac): copies
\* that strayed so are exempt: the parent sends them back up, unbounced.
THEOREM DirectionIsKept == Spec => []LegsKeepDirection
<1>1. IInv => LegsKeepDirection
  <2> SUFFICES ASSUME IInv, NEW n \in Node, NEW k \in 1 .. Len(out[n]),
                      out[n][k].control = "DEFAULT", ~ out[n][k].payload.strayed
               PROVE  out[n][k].payload.up <=> out[n][k].dst = up[n]
    BY DEF LegsKeepDirection
  <2>1. out[n][k] \in Good(n)
    BY SMT DEF IInv, Outs
  <2>2. Directed(n, out[n][k].dst, out[n][k].payload)
    BY <2>1 DEF Good, Sound, MapFrames
  <2>3. up[n] \in {None, Parent[n]}
    BY DEF IInv, Tree
  <2>4. ASSUME NEW d \in Node, Parent[d] = n PROVE d # up[n]
    BY <2>3, <2>4, NodeAssumption, NoTwoCycle
  <2> QED
    BY <2>2, <2>4 DEF Directed
<1> QED
  BY <1>1, Invariance, PTL

-----------------------------------------------------------------------------
(***************************************************************************)
(* One copy of a leg per path.  A place <<"out", n, k>> or <<"in", n, k>>  *)
(* is a position in a queue of n; Holds says that a packet is there which  *)
(* has not strayed, At where it is handled next.                           *)
(***************************************************************************)
Place == {"out", "in"} \X Node \X Nat

HoldsOut(n, k) == k \in DOMAIN out[n] /\ out[n][k].control = "DEFAULT" /\ ~ out[n][k].payload.strayed
HoldsIn(n, k)  == k \in DOMAIN inbox[n] /\ ~ inbox[n][k].payload.strayed

Holds(x)  == IF x[1] = "out" THEN HoldsOut(x[2], x[3]) ELSE HoldsIn(x[2], x[3])
Packet(x) == IF x[1] = "out" THEN out[x[2]][x[3]].payload ELSE inbox[x[2]][x[3]].payload
At(x)     == IF x[1] = "out" THEN out[x[2]][x[3]].dst ELSE x[2]

\* Of two copies of a leg neither goes up, and neither is above the other.
Paths ==
  \A x, y \in Place :
    x # y /\ Holds(x) /\ Holds(y) /\ Packet(x).leg = Packet(y).leg
    => ~ Packet(x).up /\ Apart(At(x), At(y))

Distinct == \A n \in Node : \A i, j \in Used(n) : i # j => down[n][i] # down[n][j]

PathInv == Paths /\ Distinct

\* b is a, or the next node on the way down.
Hop(a, b) == /\ a \in Node \cup {Gateway} /\ b \in Node \cup {Gateway}
             /\ b = a \/ (b \in Node /\ Parent[b] = a)

HeldTypes ==
  \A x \in Place : Holds(x) => Packet(x) \in BouncePacket /\ At(x) \in Node \cup {Gateway}

LEMMA HeldType == IInv => HeldTypes
<1> SUFFICES ASSUME IInv, NEW x \in Place, Holds(x)
             PROVE  Packet(x) \in BouncePacket /\ At(x) \in Node \cup {Gateway}
  BY DEF HeldTypes
<1>0. x[1] \in {"out", "in"} /\ x[2] \in Node
  BY DEF Place
<1>1. ASSUME NEW n \in Node, NEW k \in DOMAIN out[n], out[n][k].control = "DEFAULT"
      PROVE  out[n][k].payload \in BouncePacket /\ out[n][k].dst \in Node \cup {Gateway}
  <2>1. out[n][k] \in Good(n)
    BY SMT DEF IInv, Outs
  <2> QED
    BY <1>1, <2>1 DEF Good, Sound, MapFrames, DataFrames
<1>2. ASSUME NEW n \in Node, NEW k \in DOMAIN inbox[n]
      PROVE  inbox[n][k].payload \in BouncePacket
  <2>1. inbox[n][k] \in GoodIn
    BY SMT DEF IInv, Ins
  <2> QED
    BY <2>1 DEF GoodIn
<1>3. CASE x[1] = "out"
  BY <1>0, <1>1, <1>3 DEF Holds, HoldsOut, Packet, At
<1>4. CASE x[1] # "out"
  BY <1>0, <1>2, <1>4 DEF Holds, HoldsIn, Packet, At
<1> QED
  BY <1>3, <1>4

LEMMA HeldTypeNext == IInv' => HeldTypes'
  BY HeldType, PTL

\* The copy at x has come from o[x].
Moved(o, x) ==
  /\ Holds(o[x]) /\ Packet(x)' = Packet(o[x])
  /\ ~ Packet(o[x]).up => Hop(At(o[x]), At(x)')

\* The copies at x and y are on their ways down to different children.
Split(x, y) == ~ (Packet(x).up)' /\ Apart(At(x)', At(y)')

\* In a step the copies come from copies, o says from which, or are Fresh: of a new leg.
\* Copies that go down may split, on the way to different children.
LEMMA MoveLemma ==
  ASSUME Paths, NEW o \in [Place -> Place], NEW Fresh \in SUBSET Place,
         \A x \in Place \ Fresh : Holds(x)' => Moved(o, x),
         \A x \in Fresh, y \in Place : Holds(x)' /\ Holds(y) =>
           Packet(y).leg # (Packet(x).leg)',
         \A x, y \in Place :
           x # y /\ Holds(x)' /\ Holds(y)'
             /\ ((x \in Fresh /\ y \in Fresh) \/ (x \notin Fresh /\ y \notin Fresh /\ o[x] = o[y]))
           => Split(x, y)
  PROVE  Paths'
<1> SUFFICES ASSUME NEW x \in Place, NEW y \in Place, x # y, Holds(x)', Holds(y)',
                    (Packet(x).leg)' = (Packet(y).leg)'
             PROVE  ~ (Packet(x).up)' /\ Apart(At(x)', At(y)')
  BY DEF Paths, Apart
<1>1. CASE x \in Fresh
  <2>1. CASE y \in Fresh
    BY <1>1, <2>1 DEF Split
  <2>2. CASE y \notin Fresh
    <3>1. Holds(o[y]) /\ Packet(y)' = Packet(o[y]) /\ o[y] \in Place
      BY <2>2 DEF Moved
    <3> QED
      BY <1>1, <3>1
  <2> QED
    BY <2>1, <2>2
<1>2. CASE x \notin Fresh /\ y \in Fresh
  <2>1. Holds(o[x]) /\ Packet(x)' = Packet(o[x]) /\ o[x] \in Place
    BY <1>2 DEF Moved
  <2> QED
    BY <1>2, <2>1
<1>3. CASE x \notin Fresh /\ y \notin Fresh
  <2>1. /\ o[x] \in Place /\ Holds(o[x]) /\ Packet(x)' = Packet(o[x])
        /\ ~ Packet(o[x]).up => Hop(At(o[x]), At(x)')
    BY <1>3 DEF Moved
  <2>2. /\ o[y] \in Place /\ Holds(o[y]) /\ Packet(y)' = Packet(o[y])
        /\ ~ Packet(o[y]).up => Hop(At(o[y]), At(y)')
    BY <1>3 DEF Moved
  <2>3. CASE o[x] = o[y]
    BY <1>3, <2>3 DEF Split
  <2>4. CASE o[x] # o[y]
    <3>1. ~ Packet(o[x]).up /\ ~ Packet(o[y]).up /\ Apart(At(o[x]), At(o[y]))
      BY <2>1, <2>2, <2>4 DEF Paths
    <3>2. Hop(At(o[x]), At(x)') /\ Hop(At(o[y]), At(y)')
      BY <2>1, <2>2, <3>1
    <3>3. Apart(At(x)', At(y)')
      BY <3>1, <3>2, DownApart DEF Hop
    <3> QED
      BY <2>1, <3>1, <3>3
  <2> QED
    BY <2>3, <2>4
<1> QED
  BY <1>1, <1>2, <1>3

\* The k-th frame of a queue q that s was put on: one of q, or of s.
LEMMA EnqueueAt ==
  ASSUME NEW S, NEW q \in Seq(S), NEW s \in Seq(S), Len(q) <= OutCap,
         NEW k \in DOMAIN EnqueueAll(q, s)
  PROVE  \/ k \in DOMAIN q /\ EnqueueAll(q, s)[k] = q[k]
         \/ k > Len(q) /\ k - Len(q) \in DOMAIN s /\ EnqueueAll(q, s)[k] = s[k - Len(q)]
<1> DEFINE l == IF Len(s) < OutCap - Len(q) THEN Len(s) ELSE OutCap - Len(q)
           t == SubSeq(s, 1, l)
<1>1. l \in 0 .. Len(s) /\ Len(q) \in Nat /\ Len(s) \in Nat
  BY QueueAssumption, SMT
<1> HIDE DEF l
<1>2. t \in Seq(S) /\ Len(t) = l /\ \A i \in 1 .. l : t[i] = s[i]
  BY <1>1, SMT
<1>3. EnqueueAll(q, s) = q \o t
  BY DEF EnqueueAll, l
<1> HIDE DEF t
<1>4. k \in 1 .. Len(q) + l
  BY <1>1, <1>2, <1>3, SMT
<1>5. CASE k <= Len(q)
  BY <1>1, <1>2, <1>3, <1>4, <1>5, SMT
<1>6. CASE k > Len(q)
  <2>1. (q \o t)[k] = t[k - Len(q)] /\ k - Len(q) \in 1 .. l
    BY <1>1, <1>2, <1>4, <1>6, SMT
  <2> QED
    BY <1>1, <1>2, <1>3, <1>6, <2>1, SMT
<1> QED
  BY <1>1, <1>4, <1>5, <1>6, SMT

\* Different places of the table are different places of Entries.
LEMMA EntriesDiffer ==
  ASSUME Distinct, NEW n \in Node,
         NEW i \in 1 .. Cardinality(Used(n)), NEW j \in 1 .. Cardinality(Used(n)), i # j
  PROVE  Entries(n)[i] # Entries(n)[j]
<1>1. ASSUME NEW k \in 1 .. Cardinality(Used(n))
      PROVE  /\ Nth(n, k) \in Used(n)
             /\ Cardinality({u \in Used(n) : u < Nth(n, k)}) = k - 1
  <2> DEFINE P(u) == Cardinality({v \in Used(n) : v < u}) = k - 1
  <2>1. \E u \in Used(n) : P(u)
    BY NthExists
  <2>2. Nth(n, k) = CHOOSE u \in Used(n) : P(u)
    BY DEF Nth
  <2> HIDE DEF P
  <2>3. Nth(n, k) \in Used(n) /\ P(Nth(n, k))
    BY <2>1, <2>2
  <2> QED
    BY <2>3 DEF P
<1>2. i \in Nat /\ j \in Nat
  BY UsedFinite, SMT
<1>3. Nth(n, i) # Nth(n, j)
  <2> SUFFICES ASSUME Nth(n, i) = Nth(n, j) PROVE FALSE
    OBVIOUS
  <2>1. i - 1 = j - 1
    BY <1>1
  <2> QED
    BY <1>2, <2>1, SMT
<1> QED
  BY <1>1, <1>3 DEF Distinct, Entries

\* What net_send_up and net_send_down send: one copy, or copies to different children.
LEMMA SendUpAt ==
  ASSUME NEW n \in Node, NEW p, NEW k \in DOMAIN SendUp(n, p)
  PROVE  k = 1 /\ SendUp(n, p)[k].payload = p /\ SendUp(n, p)[k].dst = up[n]
<1>1. CASE up[n] = None
  BY <1>1, SMT DEF SendUp
<1>2. CASE up[n] # None
  <2>1. SendUp(n, p) = << DataFrame(up[n], p) >>
    BY <1>2 DEF SendUp
  <2>2. k = 1 /\ SendUp(n, p)[k] = DataFrame(up[n], p)
    BY <2>1, SMT
  <2> QED
    BY <2>2 DEF DataFrame
<1> QED
  BY <1>1, <1>2

LEMMA SendDownAt ==
  ASSUME Tree, NEW n \in Node, NEW p, NEW k \in DOMAIN SendDown(n, p)
  PROVE  /\ SendDown(n, p)[k].payload = p
         /\ SendDown(n, p)[k].dst \in Node /\ Parent[SendDown(n, p)[k].dst] = n
         /\ Distinct => \A i \in DOMAIN SendDown(n, p) :
              i # k => SendDown(n, p)[i].dst # SendDown(n, p)[k].dst
<1>1. DOMAIN SendDown(n, p) = 1 .. Cardinality(Used(n))
  BY DEF SendDown, ToChildren
<1>2. ASSUME NEW i \in 1 .. Cardinality(Used(n))
      PROVE  SendDown(n, p)[i].payload = p /\ SendDown(n, p)[i].dst = Entries(n)[i]
  BY DEF SendDown, ToChildren, DataFrame
<1> QED
  BY <1>1, <1>2, EntriesLemma, EntriesDiffer

Frames == MapFrames \cup DataFrames

LEMMA QueueOfFrames ==
  IInv => \A n \in Node : /\ out[n] \in Seq(Frames) /\ Len(out[n]) <= OutCap
                          /\ inbox[n] \in Seq(GoodIn)
<1> SUFFICES ASSUME IInv, NEW n \in Node
             PROVE  /\ out[n] \in Seq(Frames) /\ Len(out[n]) <= OutCap
                    /\ inbox[n] \in Seq(GoodIn)
  OBVIOUS
<1>1. Good(n) \subseteq Frames
  BY DEF Good, Sound, Frames
<1> QED
  BY <1>1, SeqMonotone DEF IInv, Outs, Ins

\* The k-th frame of e, which was q, is one of s.
Continues(q, s, e, k) == k > Len(q) /\ k - Len(q) \in DOMAIN s /\ e[k] = s[k - Len(q)]

PassesOn(m, src, f, found) == ~ found /\ IsLinked(m, src) /\ f.control = "DEFAULT"

\* What m sends when it has handled f: q, and copies where it passes the packet on.
LEMMA OutAfter ==
  ASSUME Tree, UNCHANGED up, added => added',
         NEW m \in Node, NEW src \in Node \cup {Gateway}, NEW f \in Frames, MayHandle(src, m, f),
         NEW found \in BOOLEAN, NEW q \in Seq(Frames), Len(q) <= OutCap,
         NEW k \in DOMAIN EnqueueAll(q, Replies(m, src, f, found)),
         EnqueueAll(q, Replies(m, src, f, found))[k].control = "DEFAULT",
         k \notin DOMAIN q
  PROVE  /\ PassesOn(m, src, f, found)
         /\ Continues(q, Forward(m, src, f.payload, FALSE),
                      EnqueueAll(q, Replies(m, src, f, found)), k)
<1> DEFINE s == Replies(m, src, f, found)
           e == EnqueueAll(q, s)
<1>0. k \in DOMAIN e /\ e[k].control = "DEFAULT"
  OBVIOUS
<1>1. s \in Seq(Frames)
  <2>1. s \in Seq(Good(m)')
    BY RepliesLemma DEF Frames
  <2>2. Good(m)' \subseteq Frames
    BY DEF Good, Sound, Frames, DataFrames, MapFrames
  <2> HIDE DEF s
  <2> QED
    BY <2>1, <2>2, SeqMonotone
<1>2. k > Len(q) /\ k - Len(q) \in DOMAIN s /\ e[k] = s[k - Len(q)]
  <2> HIDE DEF s
  <2> QED
    BY <1>0, <1>1, EnqueueAt
<1>3. s # << >>
  <2> HIDE DEF s
  <2> QED
    BY <1>1, <1>2, SMT
<1>4. IsLinked(m, src)
  BY <1>3 DEF Replies
<1>5. f.control = "DEFAULT"
  <2> SUFFICES ASSUME f \in MapFrames PROVE FALSE
    BY DEF Frames, DataFrames
  <2>1. s \in Seq(MapFrames)
    <3>1. MapReplies(m, src, f) \in Seq(MapFrames)
      BY MapLemma
    <3>2. f.control = "MAP"
      BY DEF MapFrames
    <3> QED
      BY <1>4, <3>1, <3>2 DEF Replies
  <2> HIDE DEF s
  <2>2. s[k - Len(q)] \in MapFrames
    BY <1>2, <2>1, SMT
  <2>3. e[k] \in MapFrames
    BY <1>2, <2>2
  <2> HIDE DEF e
  <2> QED
    BY <1>0, <2>3 DEF MapFrames
<1>6. s = Forward(m, src, f.payload, found)
  BY <1>4, <1>5 DEF Replies
<1>7. ~ found
  BY <1>3, <1>6 DEF Forward
<1>8. s = Forward(m, src, f.payload, FALSE)
  BY <1>6, <1>7 DEF Forward
<1> QED
  BY <1>2, <1>4, <1>5, <1>7, <1>8 DEF PassesOn, Continues

\* The places that a frame f of src fills at its receivers.
NewPlace(x, q) == IF x[1] = "out" THEN x[3] \notin DOMAIN q[x[2]] ELSE x[3] \notin DOMAIN inbox[x[2]]

Handling(R, src, f, late, q) ==
  /\ IInv /\ Distinct /\ UNCHANGED up /\ (added => added')
  /\ src \in Node \cup {Gateway} /\ f \in Frames
  /\ \A m \in R \cap Node : MayHandle(src, m, f)
  /\ \A n \in Node : q[n] \in Seq(Frames) /\ Len(q[n]) <= OutCap
  /\ Handle(R, src, f, late, q)

Kept(x, q) ==
  IF x[1] = "out" THEN out'[x[2]][x[3]] = q[x[2]][x[3]]
                  ELSE inbox'[x[2]][x[3]] = inbox[x[2]][x[3]]

Filled(x, R, src, f, late, q) ==
  /\ x[2] \in R /\ f.control = "DEFAULT" /\ ~ f.payload.strayed
  /\ Packet(x)' = f.payload /\ IsLinked(x[2], src)
  /\ IF x[1] = "in"
     THEN x[2] \in hosts \ late /\ x[3] = Len(inbox[x[2]]) + 1
     ELSE /\ x[2] \notin hosts \ late /\ x[3] > Len(q[x[2]])
          /\ x[3] - Len(q[x[2]]) \in DOMAIN Forward(x[2], src, f.payload, FALSE)
          /\ At(x)' = Forward(x[2], src, f.payload, FALSE)[x[3] - Len(q[x[2]])].dst

LEMMA HandlePlaces ==
  ASSUME NEW R, NEW src, NEW late, NEW f, NEW q, Handling(R, src, f, late, q),
         NEW x \in Place, Holds(x)'
  PROVE  IF NewPlace(x, q) THEN Filled(x, R, src, f, late, q) ELSE Kept(x, q)
<1> DEFINE m == x[2]
           k == x[3]
<1>0. x[1] \in {"out", "in"} /\ m \in Node /\ k \in Nat
  BY DEF Place
<1> PICK found \in BOOLEAN : found <=> m \in hosts \ late
  <2>1. CASE m \in hosts \ late
    BY <2>1
  <2>2. CASE m \notin hosts \ late
    BY <2>2
  <2> QED
    BY <2>1, <2>2
<1> /\ IInv /\ Distinct /\ UNCHANGED up /\ (added => added')
    /\ src \in Node \cup {Gateway} /\ f \in Frames
    /\ \A n \in R \cap Node : MayHandle(src, n, f)
    /\ \A n \in Node : q[n] \in Seq(Frames) /\ Len(q[n]) <= OutCap
    /\ Handle(R, src, f, late, q)
  BY DEF Handling
<1>1. Tree /\ Ins
  BY DEF IInv
<1>2. m \notin R => out'[m] = q[m] /\ inbox'[m] = inbox[m]
  BY <1>0 DEF Handle
<1>3. m \in R => /\ out'[m] = EnqueueAll(q[m], Replies(m, src, f, found))
                 /\ inbox'[m] = Inbound(m, src, f, found)
                 /\ MayHandle(src, m, f)
  BY <1>0, Zenon DEF Handle
<1>4. CASE x[1] = "out"
  <2>1. HoldsOut(m, k)' /\ Packet(x)' = out'[m][k].payload /\ At(x)' = out'[m][k].dst
    BY <1>0, <1>4 DEF Holds, Packet, At
  <2>2. k \in DOMAIN out'[m] /\ out'[m][k].control = "DEFAULT" /\ ~ out'[m][k].payload.strayed
    BY <2>1 DEF HoldsOut
  <2>3. q[m] \in Seq(Frames) /\ Len(q[m]) <= OutCap
    BY <1>0
  <2> HIDE DEF m, k
  <2>4. CASE k \in DOMAIN q[m]
    <3>1. out'[m][k] = q[m][k]
      <4>1. CASE m \in R
        <5>1. Replies(m, src, f, found) \in Seq(Good(m)')
          BY <1>0, <1>1, <1>3, <4>1, RepliesLemma DEF Frames
        <5>2. Good(m)' \subseteq Frames
          BY DEF Good, Sound, Frames, DataFrames, MapFrames
        <5>3. Replies(m, src, f, found) \in Seq(Frames)
          BY <5>1, <5>2, SeqMonotone
        <5>4. k <= Len(q[m])
          BY <2>3, <2>4, SMT
        <5>5. k \in DOMAIN EnqueueAll(q[m], Replies(m, src, f, found))
          BY <1>3, <2>2, <4>1
        <5>6. Len(q[m]) \in Nat /\ k \in Nat
          BY <1>0, <2>3, SMT
        <5>7. ~ (k > Len(q[m]))
          BY <5>4, <5>6, SMT
        <5>8. EnqueueAll(q[m], Replies(m, src, f, found))[k] = q[m][k]
          BY <2>3, <5>3, <5>5, <5>7, EnqueueAt
        <5> QED
          BY <1>3, <4>1, <5>8
      <4>2. CASE m \notin R
        BY <1>2, <4>2
      <4> QED
        BY <4>1, <4>2
    <3> QED
      BY <1>4, <2>4, <3>1 DEF NewPlace, Kept, Filled, m, k
  <2>5. CASE k \notin DOMAIN q[m]
    <3>1. m \in R
      BY <1>2, <2>2, <2>5
    <3>2. /\ k > Len(q[m]) /\ ~ found /\ IsLinked(m, src) /\ f.control = "DEFAULT"
          /\ k - Len(q[m]) \in DOMAIN Forward(m, src, f.payload, FALSE)
          /\ out'[m][k] = Forward(m, src, f.payload, FALSE)[k - Len(q[m])]
      <4>1. k \in DOMAIN EnqueueAll(q[m], Replies(m, src, f, found))
        BY <1>3, <2>2, <3>1
      <4>2. EnqueueAll(q[m], Replies(m, src, f, found))[k].control = "DEFAULT"
        BY <1>3, <2>2, <3>1
      <4>3. MayHandle(src, m, f) /\ q[m] \in Seq(Frames) /\ Len(q[m]) <= OutCap
        BY <1>3, <2>3, <3>1
      <4>4. /\ PassesOn(m, src, f, found)
            /\ Continues(q[m], Forward(m, src, f.payload, FALSE),
                         EnqueueAll(q[m], Replies(m, src, f, found)), k)
        BY <1>0, <1>1, <2>5, <4>1, <4>2, <4>3, OutAfter
      <4> QED
        BY <1>3, <3>1, <4>4 DEF PassesOn, Continues
    <3>3. out'[m][k].payload = f.payload
      <4>1. CASE IsUpstream(m, src)
        BY <1>0, <1>1, <3>2, <4>1, SendDownAt DEF Forward
      <4>2. CASE ~ IsUpstream(m, src)
        BY <1>0, <3>2, <4>2, SendUpAt DEF Forward
      <4> QED
        BY <4>1, <4>2
    <3> QED
      BY <1>4, <2>1, <2>2, <2>5, <3>1, <3>2, <3>3 DEF NewPlace, Kept, Filled, m, k
  <2> QED
    BY <2>4, <2>5
<1>5. CASE x[1] = "in"
  <2>1. HoldsIn(m, k)' /\ Packet(x)' = inbox'[m][k].payload
    BY <1>0, <1>5 DEF Holds, Packet
  <2>2. k \in DOMAIN inbox'[m] /\ ~ inbox'[m][k].payload.strayed
    BY <2>1 DEF HoldsIn
  <2>3. inbox[m] \in Seq(GoodIn)
    BY <1>0, <1>1 DEF Ins
  <2> HIDE DEF m, k
  <2>4. CASE inbox'[m] = inbox[m]
    BY <1>5, <2>2, <2>4 DEF NewPlace, Kept, Filled, m, k
  <2>5. CASE inbox'[m] # inbox[m]
    <3>1. /\ m \in R /\ IsLinked(m, src) /\ f.control = "DEFAULT" /\ found
          /\ inbox'[m] = Append(inbox[m], [payload |-> f.payload, fromUp |-> IsUpstream(m, src)])
      BY <1>2, <1>3, <2>5 DEF Inbound, Deliver
    <3> DEFINE h == [payload |-> f.payload, fromUp |-> IsUpstream(m, src)]
    <3>2. h.payload = f.payload
      OBVIOUS
    <3> HIDE DEF h
    <3>3. k \in 1 .. Len(inbox[m]) + 1
      BY <2>2, <2>3, <3>1, SMT
    <3>4. k # Len(inbox[m]) + 1 => k \in DOMAIN inbox[m] /\ inbox'[m][k] = inbox[m][k]
      BY <2>3, <3>1, <3>3, SMT
    <3>5. k = Len(inbox[m]) + 1 => k \notin DOMAIN inbox[m] /\ inbox'[m][k] = h
      BY <2>3, <3>1, SMT DEF h
    <3>6. CASE k # Len(inbox[m]) + 1
      BY <1>5, <3>4, <3>6 DEF NewPlace, Kept, Filled, m, k
    <3>7. CASE k = Len(inbox[m]) + 1
      BY <1>5, <2>1, <2>2, <3>1, <3>2, <3>5, <3>7 DEF NewPlace, Kept, Filled, m, k
    <3> QED
      BY <3>6, <3>7
  <2> QED
    BY <2>4, <2>5
<1> QED
  BY <1>0, <1>4, <1>5

\* From its receiver a packet that goes down may be one hop further.
LEMMA NewHop ==
  ASSUME NEW R, NEW src, NEW late, NEW f, NEW q, Handling(R, src, f, late, q),
         NEW x \in Place, Holds(x)', NewPlace(x, q), ~ f.payload.up
  PROVE  Hop(x[2], At(x)')
<1> DEFINE m == x[2]
           i == x[3] - Len(q[m])
<1>0. x[1] \in {"out", "in"} /\ m \in Node
  BY DEF Place
<1>1. CASE x[1] = "in"
  BY <1>0, <1>1 DEF Hop, At
<1>2. CASE x[1] = "out"
  <2>1. /\ m \in R /\ f.control = "DEFAULT" /\ ~ f.payload.strayed /\ IsLinked(m, src)
        /\ i \in DOMAIN Forward(m, src, f.payload, FALSE)
        /\ At(x)' = Forward(m, src, f.payload, FALSE)[i].dst
    <3>1. Filled(x, R, src, f, late, q)
      BY HandlePlaces
    <3> QED
      BY <1>2, <3>1 DEF Filled
  <2>2. IsUpstream(m, src)
    BY <1>0, <2>1 DEF Handling, MayHandle
  <2>3. Forward(m, src, f.payload, FALSE) = SendDown(m, f.payload)
    BY <2>2 DEF Forward
  <2>4. Tree
    BY DEF Handling, IInv
  <2> HIDE DEF m, i
  <2> DEFINE d == SendDown(m, f.payload)[i].dst
  <2>5. d \in Node /\ Parent[d] = m
    <3>1. i \in DOMAIN SendDown(m, f.payload)
      BY <2>1, <2>3
    <3> QED
      BY <1>0, <2>4, <3>1, SendDownAt
  <2>6. At(x)' = d
    BY <2>1, <2>3
  <2> HIDE DEF d
  <2>7. Hop(m, At(x)')
    BY <1>0, <2>5, <2>6 DEF Hop
  <2> QED
    BY <2>7 DEF m
<1> QED
  BY <1>0, <1>1, <1>2

\* If a receiver has it in two places, it goes down from there to different children.
LEMMA NewApart ==
  ASSUME NEW R, NEW src, NEW late, NEW f, NEW q, Handling(R, src, f, late, q),
         NEW x \in Place, Holds(x)', NewPlace(x, q),
         NEW y \in Place, Holds(y)', NewPlace(y, q), x # y, x[2] = y[2]
  PROVE  ~ f.payload.up /\ Apart(At(x)', At(y)')
<1> DEFINE m == x[2]
           F == Forward(m, src, f.payload, FALSE)
           i == x[3] - Len(q[m])
           j == y[3] - Len(q[m])
<1>0. /\ x[1] \in {"out", "in"} /\ y[1] \in {"out", "in"} /\ m \in Node
      /\ x[3] \in Nat /\ y[3] \in Nat
      /\ ~ (x[1] = y[1] /\ x[3] = y[3])
  BY DEF Place
<1>1. /\ m \in R /\ f.control = "DEFAULT" /\ ~ f.payload.strayed /\ IsLinked(m, src)
      /\ x[1] = "in" => m \in hosts \ late /\ x[3] = Len(inbox[m]) + 1
      /\ x[1] # "in" => m \notin hosts \ late /\ i \in DOMAIN F /\ At(x)' = F[i].dst
  <2>1. Filled(x, R, src, f, late, q)
    BY HandlePlaces
  <2> QED
    BY <2>1 DEF Filled
<1>2. /\ y[1] = "in" => m \in hosts \ late /\ y[3] = Len(inbox[m]) + 1
      /\ y[1] # "in" => m \notin hosts \ late /\ j \in DOMAIN F /\ At(y)' = F[j].dst
  <2>1. Filled(y, R, src, f, late, q)
    BY HandlePlaces
  <2> QED
    BY <2>1 DEF Filled
<1>3. /\ i \in DOMAIN F /\ At(x)' = F[i].dst
      /\ j \in DOMAIN F /\ At(y)' = F[j].dst
  BY <1>0, <1>1, <1>2
<1>4. i # j
  <2>1. q[m] \in Seq(Frames)
    BY <1>0 DEF Handling
  <2>2. Len(q[m]) \in Nat
    BY <2>1, SMT
  <2>3. x[3] # y[3]
    BY <1>0, <1>1, <1>2
  <2> QED
    BY <1>0, <2>2, <2>3, SMT
<1>5. Tree /\ Distinct
  BY DEF Handling, IInv
<1>6. IsUpstream(m, src)
  <2> SUFFICES ASSUME ~ IsUpstream(m, src) PROVE FALSE
    OBVIOUS
  <2>1. F = SendUp(m, f.payload)
    BY DEF Forward
  <2> HIDE DEF m, i, j, F
  <2>2. i = 1 /\ j = 1
    BY <1>0, <1>3, <2>1, SendUpAt
  <2> QED
    BY <1>4, <2>2
<1>7. ~ f.payload.up
  BY <1>0, <1>1, <1>6 DEF Handling, MayHandle
<1>8. F = SendDown(m, f.payload)
  BY <1>6 DEF Forward
<1> HIDE DEF m, i, j, F
<1>9. /\ F[i].dst \in Node /\ Parent[F[i].dst] = m
      /\ F[j].dst \in Node /\ Parent[F[j].dst] = m
      /\ F[i].dst # F[j].dst
  BY <1>0, <1>3, <1>4, <1>5, <1>8, SendDownAt
<1> QED
  BY <1>3, <1>7, <1>9, SiblingsApart

\* Copies that only disappear.
LEMMA ShrinkPaths ==
  ASSUME Paths,
         \A x \in Place : Holds(x)' => Holds(x) /\ Packet(x)' = Packet(x) /\ At(x)' = At(x)
  PROVE  Paths'
  BY DEF Paths, Apart

LEMMA SamePaths ==
  ASSUME Paths, UNCHANGED <<out, inbox>>
  PROVE  Paths'
<1>1. \A x \in Place : Holds(x)' => Holds(x) /\ Packet(x)' = Packet(x) /\ At(x)' = At(x)
  BY DEF Holds, HoldsOut, HoldsIn, Packet, At
<1> QED
  BY <1>1, ShrinkPaths

\* A place that a handled frame leaves alone.
LEMMA KeptIsOld ==
  ASSUME NEW q, NEW x \in Place, Holds(x)', ~ NewPlace(x, q), Kept(x, q),
         x[1] = "out" => q[x[2]] = out[x[2]]
  PROVE  Holds(x) /\ Packet(x)' = Packet(x) /\ At(x)' = At(x)
<1>1. x[1] \in {"out", "in"} /\ x[2] \in Node
  BY DEF Place
<1>2. CASE x[1] = "out"
  BY <1>1, <1>2 DEF Holds, HoldsOut, Packet, At, NewPlace, Kept
<1>3. CASE x[1] = "in"
  BY <1>1, <1>3 DEF Holds, HoldsIn, Packet, At, NewPlace, Kept
<1> QED
  BY <1>1, <1>2, <1>3

\* worker_send: the head of the queue of n is handled by its receiver, or by all peers
\* and strays; the others move up.
LEMMA TransmitPaths ==
  ASSUME IInv, Paths, Distinct, NEW n \in Node, Transmit(n), UNCHANGED added
  PROVE  Paths'
<1> DEFINE f  == Head(out[n])
           to == Receivers(n, f.dst)
           g  == IF to = {f.dst} THEN f ELSE Strayed(f)
           q  == [out EXCEPT ![n] = Tail(@)]
           h  == <<"out", n, 1>>
           o  == [x \in Place |-> IF NewPlace(x, q) THEN h
                                  ELSE IF x[1] = "out" /\ x[2] = n THEN <<"out", n, x[3] + 1>>
                                  ELSE x]
<1>1. PICK R \in SUBSET to, late \in SUBSET hosts : Handle(R, n, g, late, q)
  BY DEF Transmit
<1>2. /\ Tree /\ Outs /\ UNCHANGED up
      /\ out[n] # << >> /\ out[n] \in Seq(Good(n)) /\ DOMAIN out = Node
  BY DEF IInv, Transmit, linkVars, Outs
<1>3. f \in Good(n) /\ f \in Frames /\ f = out[n][1] /\ 1 \in DOMAIN out[n]
  <2>1. f \in Good(n)
    BY <1>2, TailLemma
  <2>2. f = out[n][1] /\ 1 \in DOMAIN out[n]
    BY <1>2, SMT
  <2> HIDE DEF f
  <2> QED
    BY <2>1, <2>2 DEF Good, Sound, Frames
<1>4. g \in Frames /\ \A m \in R \cap Node : MayHandle(n, m, g)
  <2>1. CASE to = {f.dst}
    BY <1>1, <1>2, <1>3, <2>1, HopLemma
  <2>2. CASE to # {f.dst}
    <3>1. f.control = "DEFAULT" => added'
      BY <1>3 DEF Good, MapFrames
    <3> QED
      BY <1>3, <2>2, <3>1, StrayedLemma DEF MayHandle, Frames
  <2> QED
    BY <2>1, <2>2
<1>5. /\ \A m \in Node \ {n} : q[m] = out[m]
      /\ q[n] = Tail(out[n])
      /\ \A k \in DOMAIN q[n] : k \in Nat \ {0} /\ k + 1 \in DOMAIN out[n] /\ q[n][k] = out[n][k + 1]
  <2>1. q[n] = Tail(out[n]) /\ \A m \in Node \ {n} : q[m] = out[m]
    BY <1>2
  <2> HIDE DEF q
  <2>2. \A k \in DOMAIN Tail(out[n]) :
          k \in Nat \ {0} /\ k + 1 \in DOMAIN out[n] /\ Tail(out[n])[k] = out[n][k + 1]
    BY <1>2, SMT
  <2> QED
    BY <2>1, <2>2
<1>6. Handling(R, n, g, late, q)
  <2>1. \A m \in Node : q[m] \in Seq(Frames) /\ Len(q[m]) <= OutCap
    <3> TAKE m \in Node
    <3>1. out[m] \in Seq(Frames) /\ Len(out[m]) <= OutCap
      BY QueueOfFrames
    <3>2. CASE m = n
      <4>1. q[n] = Tail(out[n])
        BY <1>5
      <4>2. Tail(out[n]) \in Seq(Frames) /\ Len(Tail(out[n])) = Len(out[n]) - 1
            /\ Len(out[n]) \in Nat
        BY <1>2, <3>1, <3>2, TailLemma
      <4> HIDE DEF q
      <4> QED
        BY <3>1, <3>2, <4>1, <4>2, QueueAssumption, SMT
    <3>3. CASE m # n
      BY <1>5, <3>1, <3>3
    <3> QED
      BY <3>2, <3>3
  <2> HIDE DEF q, g
  <2> QED
    BY <1>1, <1>2, <1>4, <2>1 DEF Handling
<1>7. h \in Place /\ o \in [Place -> Place]
  <2>1. \A x \in Place : <<"out", n, x[3] + 1>> \in Place
    BY DEF Place
  <2>2. h \in Place
    BY DEF Place
  <2> QED
    BY <2>1, <2>2
<1>8. ASSUME NEW x \in Place, Holds(x)', ~ NewPlace(x, q)
      PROVE  Holds(o[x]) /\ Packet(x)' = Packet(o[x]) /\ At(x)' = At(o[x])
  <2>1. Kept(x, q)
    BY <1>6, <1>8, HandlePlaces
  <2>2. x[1] \in {"out", "in"} /\ x[2] \in Node /\ x[3] \in Nat
    BY DEF Place
  <2>3. CASE x[1] = "out" /\ x[2] = n
    <3> DEFINE k == x[3]
    <3>1. o[x] = <<"out", n, k + 1>>
      BY <1>8, <2>3
    <3>2. k \in DOMAIN q[n]
      BY <1>8, <2>3 DEF NewPlace
    <3>3. out'[n][k] = out[n][k + 1] /\ k + 1 \in DOMAIN out[n]
      BY <1>5, <2>1, <2>3, <3>2 DEF Kept
    <3>4. /\ out'[n][k].control = "DEFAULT" /\ ~ out'[n][k].payload.strayed
          /\ Packet(x)' = out'[n][k].payload /\ At(x)' = out'[n][k].dst
      BY <1>8, <2>3 DEF Holds, HoldsOut, Packet, At
    <3> HIDE DEF o
    <3> DEFINE u == <<"out", n, k + 1>>
    <3>5. u[1] = "out" /\ u[2] = n /\ u[3] = k + 1
      OBVIOUS
    <3>6. o[x] = u
      BY <3>1
    <3> HIDE DEF u, k
    <3>7. Holds(u) /\ Packet(u) = out[n][k + 1].payload /\ At(u) = out[n][k + 1].dst
      BY <3>3, <3>4, <3>5 DEF Holds, HoldsOut, Packet, At
    <3> QED
      BY <3>3, <3>4, <3>6, <3>7
  <2>4. CASE ~ (x[1] = "out" /\ x[2] = n)
    <3>1. o[x] = x
      BY <1>8, <2>4
    <3>2. x[1] = "out" => q[x[2]] = out[x[2]]
      BY <1>5, <2>2, <2>4
    <3> HIDE DEF o, q
    <3> QED
      BY <1>8, <2>1, <3>1, <3>2, KeptIsOld
  <2> QED
    BY <2>3, <2>4
<1>9. ASSUME NEW x \in Place, Holds(x)', NewPlace(x, q)
      PROVE  /\ Holds(h) /\ Packet(x)' = Packet(h) /\ x[2] = f.dst /\ g = f
             /\ At(h) = f.dst /\ Packet(h) = f.payload
  <2>1. Filled(x, R, n, g, late, q)
    BY <1>6, <1>9, HandlePlaces
  <2>2. g.control = "DEFAULT" /\ ~ g.payload.strayed /\ Packet(x)' = g.payload /\ x[2] \in R
    BY <2>1 DEF Filled
  <2>3. to = {f.dst} /\ g = f
    <3> SUFFICES ASSUME to # {f.dst} PROVE FALSE
      OBVIOUS
    <3>1. g = Strayed(f)
      OBVIOUS
    <3> HIDE DEF g, f
    <3> QED
      BY <1>3, <2>2, <3>1, StrayedLemma DEF Frames
  <2>4. x[2] = f.dst
    BY <1>1, <2>2, <2>3
  <2>5. h[1] = "out" /\ h[2] = n /\ h[3] = 1
    OBVIOUS
  <2> HIDE DEF f, g, h
  <2> QED
    BY <1>3, <2>2, <2>3, <2>4, <2>5 DEF Holds, HoldsOut, Packet, At
<1>10. ASSUME NEW x \in Place, Holds(x)'
       PROVE  Moved(o, x)
  <2>1. CASE NewPlace(x, q)
    <3>1. o[x] = h
      BY <2>1
    <3>2. /\ Holds(h) /\ Packet(x)' = Packet(h) /\ x[2] = f.dst /\ g = f
          /\ At(h) = f.dst /\ Packet(h) = f.payload
      BY <1>9, <1>10, <2>1
    <3>3. ~ g.payload.up => Hop(x[2], At(x)')
      BY <1>6, <1>10, <2>1, NewHop
    <3> HIDE DEF o, h, f, g
    <3> QED
      BY <3>1, <3>2, <3>3 DEF Moved
  <2>2. CASE ~ NewPlace(x, q)
    <3>1. Holds(o[x]) /\ Packet(x)' = Packet(o[x]) /\ At(x)' = At(o[x])
      BY <1>8, <1>10, <2>2
    <3>2. At(o[x]) \in Node \cup {Gateway}
      BY <1>7, <3>1, HeldType DEF HeldTypes
    <3> HIDE DEF o
    <3> QED
      BY <3>1, <3>2 DEF Hop, Moved
  <2> QED
    BY <2>1, <2>2
<1>11. ASSUME NEW x \in Place, NEW y \in Place, x # y, Holds(x)', Holds(y)', o[x] = o[y]
       PROVE  Split(x, y)
  <2>1. ASSUME NEW z \in Place, Holds(z)', ~ NewPlace(z, q) PROVE o[z] # h
    <3>1. z[1] = "out" /\ z[2] = n => z[3] \in DOMAIN q[n]
      BY <2>1 DEF NewPlace
    <3>2. z[1] = "out" /\ z[2] = n => z[3] \in Nat \ {0}
      BY <1>5, <3>1
    <3>3. CASE z[1] = "out" /\ z[2] = n
      BY <2>1, <3>2, <3>3
    <3>4. CASE ~ (z[1] = "out" /\ z[2] = n)
      BY <2>1, <3>4
    <3> QED
      BY <3>3, <3>4
  <2>2. CASE NewPlace(x, q) /\ NewPlace(y, q)
    <3>1. x[2] = f.dst /\ y[2] = f.dst /\ g = f /\ Packet(x)' = f.payload
      BY <1>9, <1>11, <2>2
    <3>2. ~ g.payload.up /\ Apart(At(x)', At(y)')
      BY <1>6, <1>11, <2>2, <3>1, NewApart
    <3> HIDE DEF f, g
    <3> QED
      BY <3>1, <3>2 DEF Split
  <2>3. CASE NewPlace(x, q) /\ ~ NewPlace(y, q)
    BY <1>11, <2>1, <2>3
  <2>4. CASE ~ NewPlace(x, q) /\ NewPlace(y, q)
    BY <1>11, <2>1, <2>4
  <2>5. CASE ~ NewPlace(x, q) /\ ~ NewPlace(y, q)
    <3>1. /\ x = <<x[1], x[2], x[3]>> /\ y = <<y[1], y[2], y[3]>>
          /\ x[3] \in Nat /\ y[3] \in Nat
      BY DEF Place
    <3>2. o[x] = IF x[1] = "out" /\ x[2] = n THEN <<"out", n, x[3] + 1>> ELSE x
      BY <2>5
    <3>3. o[y] = IF y[1] = "out" /\ y[2] = n THEN <<"out", n, y[3] + 1>> ELSE y
      BY <2>5
    <3> HIDE DEF o
    <3>4. CASE x[1] = "out" /\ x[2] = n /\ y[1] = "out" /\ y[2] = n
      <4>0. <<"out", n, x[3] + 1>> = <<"out", n, y[3] + 1>>
        BY <1>11, <3>2, <3>3, <3>4
      <4>1. x[3] + 1 = y[3] + 1
        BY <4>0
      <4>2. x[3] = y[3]
        BY <3>1, <4>1, SMT
      <4> QED
        BY <1>11, <3>1, <3>4, <4>2
    <3>5. CASE x[1] = "out" /\ x[2] = n /\ ~ (y[1] = "out" /\ y[2] = n)
      <4>1. y = <<"out", n, x[3] + 1>>
        BY <1>11, <3>2, <3>3, <3>5
      <4> QED
        BY <3>5, <4>1
    <3>6. CASE ~ (x[1] = "out" /\ x[2] = n) /\ y[1] = "out" /\ y[2] = n
      <4>1. x = <<"out", n, y[3] + 1>>
        BY <1>11, <3>2, <3>3, <3>6
      <4> QED
        BY <3>6, <4>1
    <3>7. CASE ~ (x[1] = "out" /\ x[2] = n) /\ ~ (y[1] = "out" /\ y[2] = n)
      BY <1>11, <3>2, <3>3, <3>7
    <3> QED
      BY <3>4, <3>5, <3>6, <3>7
  <2> QED
    BY <2>2, <2>3, <2>4, <2>5
<1> HIDE DEF o, h, q, g, to, f
<1> DEFINE Fresh == {}
<1>12. Fresh \in SUBSET Place /\ \A x \in Place \ Fresh : Holds(x)' => Moved(o, x)
  BY <1>10
<1>13. \A x \in Fresh, y \in Place : Holds(x)' /\ Holds(y) => Packet(y).leg # (Packet(x).leg)'
  OBVIOUS
<1>14. \A x, y \in Place :
         x # y /\ Holds(x)' /\ Holds(y)'
           /\ ((x \in Fresh /\ y \in Fresh) \/ (x \notin Fresh /\ y \notin Fresh /\ o[x] = o[y]))
         => Split(x, y)
  BY <1>11
<1> HIDE DEF Fresh
<1> QED
  BY <1>7, <1>12, <1>13, <1>14, MoveLemma

\* What is held somewhere is among the copies that a new leg is compared with.
LEMMA HeldIsCopy ==
  ASSUME NEW x \in Place, Holds(x)
  PROVE  [payload |-> Packet(x), at |-> At(x)] \in OutCopies \cup InCopies
<1>1. x[1] \in {"out", "in"} /\ x[2] \in Node
  BY DEF Place
<1>2. CASE x[1] = "out"
  BY <1>1, <1>2 DEF Holds, HoldsOut, Packet, At, OutCopies
<1>3. CASE x[1] = "in"
  BY <1>1, <1>3 DEF Holds, HoldsIn, Packet, At, InCopies
<1> QED
  BY <1>1, <1>2, <1>3

LEMMA FreshLeg ==
  ASSUME Outs, Ins, LegFree, NEW x \in Place, Holds(x)
  PROVE  Packet(x).leg # FreeLeg
<1>1. [payload |-> Packet(x), at |-> At(x)] \in OutCopies \cup InCopies
  BY HeldIsCopy
<1> DEFINE c == [payload |-> Packet(x), at |-> At(x)]
<1>2. c.payload = Packet(x)
  OBVIOUS
<1> HIDE DEF c
<1> QED
  BY <1>1, <1>2, FreeLegLemma DEF c

\* Before the first message no place holds a packet.
LEMMA NothingHeld ==
  ASSUME IInv, ~ added, NEW x \in Place
  PROVE  ~ Holds(x)
<1>1. x[1] \in {"out", "in"} /\ x[2] \in Node
  BY DEF Place
<1>2. CASE x[1] = "out"
  <2> SUFFICES ASSUME HoldsOut(x[2], x[3]) PROVE FALSE
    BY <1>2 DEF Holds
  <2> DEFINE n == x[2]
             k == x[3]
  <2>1. out[n] \in Seq(MapFrames) /\ k \in DOMAIN out[n] /\ out[n][k].control = "DEFAULT"
    BY <1>1 DEF HoldsOut, IInv, Outs, Good
  <2> HIDE DEF n, k
  <2>2. out[n][k] \in MapFrames
    BY <2>1, SMT
  <2> QED
    BY <2>1, <2>2 DEF MapFrames
<1>3. CASE x[1] = "in"
  <2> SUFFICES ASSUME HoldsIn(x[2], x[3]) PROVE FALSE
    BY <1>3 DEF Holds
  <2> DEFINE n == x[2]
             k == x[3]
  <2>1. inbox[n] \in Seq(GoodIn) /\ k \in DOMAIN inbox[n]
    BY <1>1 DEF HoldsIn, IInv, Ins
  <2> HIDE DEF n, k
  <2>2. inbox[n][k] \in GoodIn
    BY <2>1, SMT
  <2> QED
    BY <2>2 DEF GoodIn
<1> QED
  BY <1>1, <1>2, <1>3

\* Frames of the gateway: all that a first message fills is new.
LEMMA GatewayHandling ==
  ASSUME IInv, Distinct, UNCHANGED up, added => added', NEW f \in Frames, NEW late,
         f.control = "DEFAULT" => added' /\ ~ f.payload.up,
         Handle({Top}, Gateway, f, late, out)
  PROVE  Handling({Top}, Gateway, f, late, out)
<1>1. \A m \in {Top} \cap Node : MayHandle(Gateway, m, f)
  <2>1. Gateway \notin Children(Top)
    BY NodeAssumption DEF IInv, Tree, Children, Used
  <2>2. IsLinked(Top, Gateway) => IsUpstream(Top, Gateway)
    BY <2>1 DEF IsLinked, Links, IsUpstream
  <2> QED
    BY <2>2 DEF MayHandle
<1> QED
  BY <1>1, QueueOfFrames DEF Handling

LEMMA MapRequestPaths ==
  ASSUME IInv, Paths, Distinct, MapRequest, UNCHANGED added
  PROVE  Paths'
<1> DEFINE f == MapFrame(Top, None, None)
<1>1. f \in Frames /\ f.control # "DEFAULT"
  BY NodeAssumption DEF MapFrame, MapFrames, Frames
<1>2. Handle({Top}, Gateway, f, {}, out) /\ UNCHANGED up
  BY DEF MapRequest, linkVars
<1> HIDE DEF f
<1>3. Handling({Top}, Gateway, f, {}, out)
  BY <1>1, <1>2, GatewayHandling
<1>4. ASSUME NEW x \in Place, Holds(x)'
      PROVE  Holds(x) /\ Packet(x)' = Packet(x) /\ At(x)' = At(x)
  <2>0. IF NewPlace(x, out) THEN Filled(x, {Top}, Gateway, f, {}, out) ELSE Kept(x, out)
    BY <1>3, <1>4, HandlePlaces
  <2>1. ~ NewPlace(x, out) /\ Kept(x, out)
    BY <1>1, <2>0 DEF Filled
  <2> QED
    BY <1>4, <2>1, KeptIsOld
<1> QED
  BY <1>4, ShrinkPaths

LEMMA GatewayMessagePaths ==
  ASSUME IInv, Distinct, NEW life \in 1 .. MaxLife, GatewayMessage(life)
  PROVE  Paths'
<1> DEFINE p == [left |-> life, leg |-> FreeLeg, up |-> FALSE, strayed |-> FALSE]
           f == DataFrame(Top, p)
<1>1. p \in BouncePacket /\ ~ p.up
  <2>1. FreeLeg \in Leg
    BY NoCopies, FreeLegLemma DEF IInv, GatewayMessage
  <2>2. life \in 0 .. MaxLife
    BY SMT
  <2> QED
    BY <2>1, <2>2 DEF BouncePacket
<1>2. PICK late \in SUBSET (hosts \cap {Top}) : Handle({Top}, Gateway, f, late, out)
  BY DEF GatewayMessage
<1>3. ~ added /\ added' /\ UNCHANGED up
  BY DEF GatewayMessage, linkVars
<1> HIDE DEF p
<1>4. f \in Frames /\ f.payload = p /\ ~ f.payload.up
  BY <1>1, NodeAssumption DEF DataFrame, DataFrames, Frames
<1> HIDE DEF f
<1>5. Handling({Top}, Gateway, f, late, out)
  BY <1>2, <1>3, <1>4, GatewayHandling
<1>6. ASSUME NEW x \in Place, Holds(x)'
      PROVE  NewPlace(x, out) /\ x[2] = Top
  <2>1. NewPlace(x, out)
    <3> SUFFICES ASSUME ~ NewPlace(x, out) PROVE FALSE
      OBVIOUS
    <3>1. Kept(x, out)
      BY <1>5, <1>6, HandlePlaces
    <3> QED
      BY <1>3, <1>6, <3>1, KeptIsOld, NothingHeld
  <2>2. Filled(x, {Top}, Gateway, f, late, out)
    BY <1>5, <1>6, <2>1, HandlePlaces
  <2> QED
    BY <2>1, <2>2 DEF Filled
<1>7. ASSUME NEW x \in Place, Holds(x)', NEW y \in Place, Holds(y)', x # y
      PROVE  ~ (Packet(x).up)' /\ Apart(At(x)', At(y)')
  <2>1. NewPlace(x, out) /\ NewPlace(y, out) /\ x[2] = y[2]
    BY <1>6, <1>7
  <2>2. Filled(x, {Top}, Gateway, f, late, out)
    BY <1>5, <1>7, <2>1, HandlePlaces
  <2>3. Packet(x)' = f.payload
    BY <2>2 DEF Filled
  <2>4. ~ f.payload.up /\ Apart(At(x)', At(y)')
    BY <1>5, <1>7, <2>1, NewApart
  <2> QED
    BY <1>4, <2>3, <2>4
<1> QED
  BY <1>7 DEF Paths, Apart

\* n puts frames with a packet p of a new leg into its own queue; it may have taken
\* the head of its inbound queue (t = 1).
LEMMA OwnPaths ==
  ASSUME Paths, NEW n \in Node, NEW p, NEW s, NEW t \in {0, 1},
         \A x \in Place : Holds(x) => Packet(x).leg # p.leg,
         \A k \in DOMAIN s : s[k].payload = p,
         \A i, j \in DOMAIN s : i # j => p.strayed \/ (~ p.up /\ Apart(s[i].dst, s[j].dst)),
         \A m \in Node \ {n} : out'[m] = out[m] /\ inbox'[m] = inbox[m],
         out[n] \in Seq(Frames), IInv',
         \A k \in DOMAIN out'[n] :
           \/ k \in DOMAIN out[n] /\ out'[n][k] = out[n][k]
           \/ Continues(out[n], s, out'[n], k),
         \A k \in DOMAIN inbox'[n] :
           k + t \in DOMAIN inbox[n] /\ inbox'[n][k] = inbox[n][k + t]
  PROVE  Paths'
<1> DEFINE Fresh == {x \in Place : x[1] = "out" /\ x[2] = n /\ x[3] \notin DOMAIN out[n]}
           o == [x \in Place |-> IF x[1] = "in" /\ x[2] = n THEN <<"in", n, x[3] + t>> ELSE x]
<1>1. Fresh \in SUBSET Place /\ o \in [Place -> Place]
  <2>1. \A x \in Place : <<"in", n, x[3] + t>> \in Place
    BY DEF Place
  <2> QED
    BY <2>1
<1>2. ASSUME NEW x \in Fresh, Holds(x)'
      PROVE  /\ x = <<"out", n, x[3]>> /\ x[3] \in Nat
             /\ x[3] - Len(out[n]) \in DOMAIN s
             /\ Packet(x)' = p /\ ~ p.strayed /\ At(x)' = s[x[3] - Len(out[n])].dst
  <2>1. x = <<x[1], x[2], x[3]>> /\ x[1] = "out" /\ x[2] = n /\ x[3] \in Nat /\ x[3] \notin DOMAIN out[n]
    BY DEF Place
  <2> DEFINE k == x[3]
  <2>2. /\ k \in DOMAIN out'[n] /\ ~ out'[n][k].payload.strayed
        /\ Packet(x)' = out'[n][k].payload /\ At(x)' = out'[n][k].dst
    BY <1>2, <2>1 DEF Holds, HoldsOut, Packet, At
  <2>3. Continues(out[n], s, out'[n], k)
    BY <2>1, <2>2
  <2> HIDE DEF Fresh
  <2> QED
    BY <2>1, <2>2, <2>3 DEF Continues
<1>3. ASSUME NEW x \in Place \ Fresh, Holds(x)'
      PROVE  Holds(o[x]) /\ Packet(x)' = Packet(o[x]) /\ At(x)' = At(o[x])
  <2>1. x[1] \in {"out", "in"} /\ x[2] \in Node /\ x[3] \in Nat
    BY DEF Place
  <2>2. CASE x[1] = "in" /\ x[2] = n
    <3> DEFINE k == x[3]
               u == <<"in", n, k + t>>
    <3>1. /\ k \in DOMAIN inbox'[n] /\ ~ inbox'[n][k].payload.strayed
          /\ Packet(x)' = inbox'[n][k].payload /\ At(x)' = n
      BY <1>3, <2>2 DEF Holds, HoldsIn, Packet, At
    <3>2. o[x] = u
      BY <2>2
    <3>3. u[1] = "in" /\ u[2] = n /\ u[3] = k + t
      OBVIOUS
    <3>4. k + t \in DOMAIN inbox[n] /\ inbox'[n][k] = inbox[n][k + t]
      BY <3>1
    <3> HIDE DEF o, u, k, Fresh
    <3> QED
      BY <3>1, <3>2, <3>3, <3>4 DEF Holds, HoldsIn, Packet, At
  <2>3. CASE ~ (x[1] = "in" /\ x[2] = n)
    <3>1. o[x] = x
      BY <2>3
    <3>2. CASE x[1] = "in"
      <4>1. inbox'[x[2]] = inbox[x[2]]
        BY <2>1, <2>3, <3>2
      <4> HIDE DEF o, Fresh
      <4> QED
        BY <1>3, <3>1, <3>2, <4>1 DEF Holds, HoldsIn, Packet, At
    <3>3. CASE x[1] = "out" /\ x[2] # n
      <4>1. out'[x[2]] = out[x[2]]
        BY <2>1, <3>3
      <4> HIDE DEF o, Fresh
      <4> QED
        BY <1>3, <3>1, <3>3, <4>1 DEF Holds, HoldsOut, Packet, At
    <3>4. CASE x[1] = "out" /\ x[2] = n
      <4> DEFINE k == x[3]
      <4>1. k \in DOMAIN out[n] /\ k \in DOMAIN out'[n]
        BY <1>3, <3>4 DEF Holds, HoldsOut
      <4>2. ~ Continues(out[n], s, out'[n], k)
        <5> HIDE DEF k
        <5>1. k \in 1 .. Len(out[n]) /\ Len(out[n]) \in Nat
          BY <4>1, SMT
        <5> QED
          BY <5>1, SMT DEF Continues
      <4>3. out'[n][k] = out[n][k]
        BY <4>1, <4>2
      <4> HIDE DEF o, Fresh
      <4> QED
        BY <1>3, <3>1, <3>4, <4>1, <4>3 DEF Holds, HoldsOut, Packet, At
    <3> QED
      BY <2>1, <3>2, <3>3, <3>4
  <2> QED
    BY <2>2, <2>3
<1>4. \A x \in Place \ Fresh : Holds(x)' => Moved(o, x)
  <2> SUFFICES ASSUME NEW x \in Place \ Fresh, Holds(x)' PROVE Moved(o, x)
    OBVIOUS
  <2>1. Holds(o[x]) /\ Packet(x)' = Packet(o[x]) /\ At(x)' = At(o[x])
    BY <1>3
  <2>2. HeldTypes'
    BY HeldTypeNext
  <2>3. At(x)' \in Node \cup {Gateway}
    BY <2>2 DEF HeldTypes
  <2> HIDE DEF o, Fresh
  <2> QED
    BY <2>1, <2>3 DEF Moved, Hop
<1>5. \A x \in Fresh, y \in Place : Holds(x)' /\ Holds(y) => Packet(y).leg # (Packet(x).leg)'
  BY <1>2
<1>6. ASSUME NEW x \in Place, NEW y \in Place, x # y, Holds(x)', Holds(y)',
             (x \in Fresh /\ y \in Fresh) \/ (x \notin Fresh /\ y \notin Fresh /\ o[x] = o[y])
      PROVE  Split(x, y)
  <2>1. CASE x \in Fresh /\ y \in Fresh
    <3> DEFINE i == x[3] - Len(out[n])
               j == y[3] - Len(out[n])
    <3>1. /\ x = <<"out", n, x[3]>> /\ x[3] \in Nat /\ i \in DOMAIN s
          /\ Packet(x)' = p /\ ~ p.strayed /\ At(x)' = s[i].dst
      BY <1>2, <1>6, <2>1
    <3>2. y = <<"out", n, y[3]>> /\ y[3] \in Nat /\ j \in DOMAIN s /\ At(y)' = s[j].dst
      BY <1>2, <1>6, <2>1
    <3>3. Len(out[n]) \in Nat
      BY SMT
    <3>4. x[3] # y[3]
      BY <1>6, <3>1, <3>2
    <3>5. i # j
      BY <3>1, <3>2, <3>3, <3>4, SMT
    <3> HIDE DEF i, j, o, Fresh
    <3>6. ~ p.up /\ Apart(s[i].dst, s[j].dst)
      BY <3>1, <3>2, <3>5
    <3> QED
      BY <3>1, <3>2, <3>6 DEF Split
  <2>2. CASE x \notin Fresh /\ y \notin Fresh /\ o[x] = o[y]
    <3>1. /\ x = <<x[1], x[2], x[3]>> /\ y = <<y[1], y[2], y[3]>>
          /\ x[3] \in Nat /\ y[3] \in Nat
      BY DEF Place
    <3>2. /\ o[x] = IF x[1] = "in" /\ x[2] = n THEN <<"in", n, x[3] + t>> ELSE x
          /\ o[y] = IF y[1] = "in" /\ y[2] = n THEN <<"in", n, y[3] + t>> ELSE y
      OBVIOUS
    <3> HIDE DEF o, Fresh
    <3>3. CASE x[1] = "in" /\ x[2] = n /\ y[1] = "in" /\ y[2] = n
      <4>1. <<"in", n, x[3] + t>> = <<"in", n, y[3] + t>>
        BY <2>2, <3>2, <3>3
      <4>2. x[3] + t = y[3] + t
        BY <4>1
      <4>3. x[3] = y[3]
        BY <3>1, <4>2, SMT
      <4> QED
        BY <1>6, <3>1, <3>3, <4>3
    <3>4. CASE x[1] = "in" /\ x[2] = n /\ ~ (y[1] = "in" /\ y[2] = n)
      <4>1. y = <<"in", n, x[3] + t>>
        BY <2>2, <3>2, <3>4
      <4> QED
        BY <3>4, <4>1
    <3>5. CASE ~ (x[1] = "in" /\ x[2] = n) /\ y[1] = "in" /\ y[2] = n
      <4>1. x = <<"in", n, y[3] + t>>
        BY <2>2, <3>2, <3>5
      <4> QED
        BY <3>5, <4>1
    <3>6. CASE ~ (x[1] = "in" /\ x[2] = n) /\ ~ (y[1] = "in" /\ y[2] = n)
      BY <1>6, <2>2, <3>2, <3>6
    <3> QED
      BY <3>3, <3>4, <3>5, <3>6
  <2> QED
    BY <1>6, <2>1, <2>2
<1>7. \A x, y \in Place :
        x # y /\ Holds(x)' /\ Holds(y)'
          /\ ((x \in Fresh /\ y \in Fresh) \/ (x \notin Fresh /\ y \notin Fresh /\ o[x] = o[y]))
        => Split(x, y)
  BY <1>6
<1> HIDE DEF o, Fresh
<1> QED
  BY <1>1, <1>4, <1>5, <1>7, MoveLemma

\* The entries node n queues for a packet of its own, and what is asked of them:
\* all carry p, they set off to subtrees that are apart, and nothing else changes.
Sends(n, p, goUp) == IF goUp THEN SendUp(n, p) ELSE SendDown(n, p)

SentApart(n, p, s) ==
  /\ \A k \in DOMAIN s : s[k].payload = p
  /\ \A i, j \in DOMAIN s : i # j => p.strayed \/ (~ p.up /\ Apart(s[i].dst, s[j].dst))
  /\ \A m \in Node \ {n} : out'[m] = out[m]
  /\ \A k \in DOMAIN out'[n] : \/ k \in DOMAIN out[n] /\ out'[n][k] = out[n][k]
                               \/ Continues(out[n], s, out'[n], k)

\* What net_send_up and net_send_down put into the queue of n.
LEMMA OwnSend ==
  ASSUME IInv, Distinct, NEW n \in Node, NEW p \in BouncePacket, NEW b \in BOOLEAN,
         b => p.strayed \/ p.up, ~ b => p.strayed \/ ~ p.up,
         out' = [out EXCEPT ![n] = EnqueueAll(@, Sends(n, p, b))]
  PROVE  SentApart(n, p, Sends(n, p, b))
<1> DEFINE s == Sends(n, p, b)
<1>1. Tree /\ DOMAIN out = Node
  BY DEF IInv, Outs
<1>2. /\ \A k \in DOMAIN s : s[k].payload = p
      /\ \A i, j \in DOMAIN s : i # j => p.strayed \/ (~ p.up /\ Apart(s[i].dst, s[j].dst))
  <2>1. CASE b
    <3>1. s = SendUp(n, p)
      BY <2>1 DEF Sends
    <3>2. \A k \in DOMAIN s : k = 1 /\ s[k].payload = p
      BY <3>1, SendUpAt
    <3> QED
      BY <3>2
  <2>2. CASE ~ b
    <3>1. s = SendDown(n, p)
      BY <2>2 DEF Sends
    <3>2. ASSUME NEW k \in DOMAIN s
          PROVE  s[k].payload = p /\ s[k].dst \in Node /\ Parent[s[k].dst] = n
      BY <1>1, <3>1, SendDownAt
    <3>3. ASSUME NEW i \in DOMAIN s, NEW j \in DOMAIN s, i # j
          PROVE  s[i].dst # s[j].dst
      BY <1>1, <3>1, <3>3, SendDownAt
    <3>4. ASSUME NEW i \in DOMAIN s, NEW j \in DOMAIN s, i # j
          PROVE  Apart(s[i].dst, s[j].dst)
      BY <3>2, <3>3, <3>4, SiblingsApart
    <3> QED
      BY <2>2, <3>2, <3>4
  <2> QED
    BY <2>1, <2>2
<1>3. /\ out'[n] = EnqueueAll(out[n], s)
      /\ \A m \in Node \ {n} : out'[m] = out[m]
  BY <1>1
<1>4. s \in Seq(Frames)
  <2>1. s \in Seq(Sound(n))
    BY <1>1, SendLemma DEF Sends
  <2>2. Sound(n) \subseteq Frames
    BY DEF Sound, Frames
  <2> QED
    BY <2>1, <2>2, SeqMonotone
<1>5. ASSUME NEW k \in DOMAIN EnqueueAll(out[n], s)
      PROVE  \/ k \in DOMAIN out[n] /\ EnqueueAll(out[n], s)[k] = out[n][k]
             \/ Continues(out[n], s, EnqueueAll(out[n], s), k)
  <2>1. out[n] \in Seq(Frames) /\ Len(out[n]) <= OutCap
    BY QueueOfFrames
  <2> QED
    BY <1>4, <2>1, EnqueueAt DEF Continues
<1> HIDE DEF s
<1>6. SentApart(n, p, s)
  BY <1>2, <1>3, <1>5 DEF SentApart
<1> QED
  BY <1>6 DEF s

LEMMA AddMessagePaths ==
  ASSUME IInv, IInv', Paths, Distinct,
         NEW n \in Node, NEW goUp \in BOOLEAN, NEW life \in 1 .. MaxLife,
         AddMessage(n, goUp, life)
  PROVE  Paths'
<1> DEFINE p == [left |-> life, leg |-> FreeLeg, up |-> goUp, strayed |-> FALSE]
           s == Sends(n, p, goUp)
<1>1. p \in BouncePacket /\ p.up = goUp
  <2>1. FreeLeg \in Leg
    BY NoCopies, FreeLegLemma DEF IInv, AddMessage
  <2>2. life \in 0 .. MaxLife
    BY SMT
  <2> QED
    BY <2>1, <2>2 DEF BouncePacket
<1>2. /\ out' = [out EXCEPT ![n] = EnqueueAll(@, s)] /\ UNCHANGED inbox /\ ~ added
  BY DEF AddMessage, Sends
<1> HIDE DEF p
<1>3. SentApart(n, p, s)
  BY <1>1, <1>2, OwnSend
<1>4. /\ \A k \in DOMAIN s : s[k].payload = p
      /\ \A i, j \in DOMAIN s : i # j => p.strayed \/ (~ p.up /\ Apart(s[i].dst, s[j].dst))
      /\ \A m \in Node \ {n} : out'[m] = out[m]
      /\ \A k \in DOMAIN out'[n] : \/ k \in DOMAIN out[n] /\ out'[n][k] = out[n][k]
                                   \/ Continues(out[n], s, out'[n], k)
  BY <1>3 DEF SentApart
<1>5. \A x \in Place : Holds(x) => Packet(x).leg # p.leg
  BY <1>2, NothingHeld
<1>6. out[n] \in Seq(Frames) /\ inbox[n] \in Seq(GoodIn)
  BY QueueOfFrames
<1>7. \A k \in DOMAIN inbox'[n] : k + 0 \in DOMAIN inbox[n] /\ inbox'[n][k] = inbox[n][k + 0]
  BY <1>2, <1>6, SMT
<1>8. \A m \in Node \ {n} : out'[m] = out[m] /\ inbox'[m] = inbox[m]
  BY <1>2, <1>4
<1> HIDE DEF s
<1> QED
  BY <1>4, <1>5, <1>6, <1>7, <1>8, OwnPaths

LEMMA BouncesPaths ==
  ASSUME IInv, IInv', Paths, Distinct, NEW n \in Node, Bounces(n)
  PROVE  Paths'
<1> DEFINE h == Head(inbox[n])
           p == [left |-> LeftAfter(h.payload), leg |-> FreeLeg,
                 up |-> ~ h.payload.up, strayed |-> h.payload.strayed]
<1>1. Outs /\ Ins /\ DOMAIN inbox = Node
  BY DEF IInv, Ins
<1>2. inbox[n] \in Seq(GoodIn) /\ inbox[n] # << >>
  BY <1>1 DEF Ins, Bounces
<1>3. h \in GoodIn
  BY <1>2, TailLemma
<1>4. /\ \A k \in DOMAIN inbox'[n] : k + 1 \in DOMAIN inbox[n] /\ inbox'[n][k] = inbox[n][k + 1]
      /\ \A m \in Node \ {n} : inbox'[m] = inbox[m]
  <2>1. inbox' = [inbox EXCEPT ![n] = Tail(@)]
    BY DEF Bounces
  <2>2. inbox'[n] = Tail(inbox[n]) /\ \A m \in Node \ {n} : inbox'[m] = inbox[m]
    BY <1>1, <2>1
  <2>3. \A k \in DOMAIN Tail(inbox[n]) :
          k + 1 \in DOMAIN inbox[n] /\ Tail(inbox[n])[k] = inbox[n][k + 1]
    BY <1>2, SMT
  <2> QED
    BY <2>2, <2>3
<1>5. out[n] \in Seq(Frames)
  BY QueueOfFrames
<1>6. CASE h.payload.left = 0
  <2> DEFINE r == [leg |-> -1]
             s == << >>
  <2>1. UNCHANGED out
    BY <1>6 DEF Bounces
  <2>2. \A x \in Place : Holds(x) => Packet(x).leg # r.leg
    <3>1. ASSUME NEW x \in Place, Holds(x) PROVE Packet(x).leg \in Nat
      BY <3>1, HeldType, LegAssumption DEF HeldTypes, BouncePacket
    <3>2. \A l \in Nat : l # -1
      BY SMT
    <3> QED
      BY <3>1, <3>2
  <2>3. /\ \A k \in DOMAIN s : s[k].payload = r
        /\ \A i, j \in DOMAIN s : i # j => r.strayed \/ (~ r.up /\ Apart(s[i].dst, s[j].dst))
    <3>1. DOMAIN s = {}
      BY SMT
    <3> HIDE DEF r, s
    <3> QED
      BY <3>1
  <2>4. \A m \in Node \ {n} : out'[m] = out[m] /\ inbox'[m] = inbox[m]
    BY <1>4, <2>1
  <2>5. \A k \in DOMAIN out'[n] : \/ k \in DOMAIN out[n] /\ out'[n][k] = out[n][k]
                                  \/ Continues(out[n], s, out'[n], k)
    BY <2>1
  <2> HIDE DEF r, s, h
  <2> QED
    BY <1>4, <1>5, <2>2, <2>3, <2>4, <2>5, OwnPaths
<1>7. CASE h.payload.left # 0
  <2>1. /\ LegFree
        /\ out' = [out EXCEPT ![n] = EnqueueAll(@, IF h.fromUp THEN SendUp(n, p) ELSE SendDown(n, p))]
    BY <1>7 DEF Bounces
  <2> HIDE DEF h
  <2>2. /\ h.payload \in BouncePacket /\ h.fromUp \in BOOLEAN
        /\ h.payload.strayed \/ (h.fromUp <=> ~ h.payload.up)
    BY <1>3 DEF GoodIn
  <2>3. /\ h.payload.left \in 0 .. MaxLife /\ h.payload.up \in BOOLEAN
        /\ h.payload.strayed \in BOOLEAN
    BY <2>2 DEF BouncePacket
  <2>4. LeftAfter(h.payload) \in 0 .. MaxLife
    BY <1>7, <2>3, LegAssumption, SMT DEF LeftAfter
  <2>5. FreeLeg \in Leg
    BY <1>1, <2>1, FreeLegLemma
  <2>6. p \in BouncePacket /\ p.leg = FreeLeg
    BY <2>3, <2>4, <2>5 DEF BouncePacket
  <2>7. (p.up <=> ~ h.payload.up) /\ (p.strayed <=> h.payload.strayed)
    OBVIOUS
  <2> DEFINE s == Sends(n, p, h.fromUp)
  <2>8. out' = [out EXCEPT ![n] = EnqueueAll(@, s)]
    BY <2>1 DEF Sends
  <2> HIDE DEF p
  <2>9. /\ h.fromUp => p.strayed \/ p.up
        /\ ~ h.fromUp => p.strayed \/ ~ p.up
    BY <2>2, <2>7
  <2>10. SentApart(n, p, s)
    BY <2>2, <2>6, <2>9, <2>8, OwnSend
  <2>11. /\ \A k \in DOMAIN s : s[k].payload = p
         /\ \A i, j \in DOMAIN s : i # j => p.strayed \/ (~ p.up /\ Apart(s[i].dst, s[j].dst))
         /\ \A m \in Node \ {n} : out'[m] = out[m]
         /\ \A k \in DOMAIN out'[n] : \/ k \in DOMAIN out[n] /\ out'[n][k] = out[n][k]
                                      \/ Continues(out[n], s, out'[n], k)
    BY <2>10 DEF SentApart
  <2>12. \A x \in Place : Holds(x) => Packet(x).leg # p.leg
    BY <1>1, <2>1, <2>6, FreshLeg
  <2>13. \A m \in Node \ {n} : out'[m] = out[m] /\ inbox'[m] = inbox[m]
    BY <1>4, <2>11
  <2> HIDE DEF s
  <2> QED
    BY <1>4, <1>5, <2>11, <2>12, <2>13, OwnPaths
<1> QED
  BY <1>6, <1>7

-----------------------------------------------------------------------------
(***************************************************************************)
(* The tables hold a child once.                                           *)
(***************************************************************************)
LEMMA FewerChildren ==
  ASSUME Distinct, \A m \in Node, i \in Slot : down'[m][i] \in {None, down[m][i]}
  PROVE  Distinct'
  BY DEF Distinct, Used

LEMMA DecayDistinct ==
  ASSUME IInv, Distinct, NEW n \in Node, NEW i \in Slot, Decay(n, i)
  PROVE  Distinct'
<1>1. down \in [Node -> [Slot -> Node \cup {None}]] /\ down' = [down EXCEPT ![n] = [@ EXCEPT ![i] = None]]
  BY DEF IInv, Tree, Decay
<1>2. \A m \in Node, j \in Slot : down'[m][j] \in {None, down[m][j]}
  BY <1>1
<1> QED
  BY <1>2, FewerChildren

LEMMA RestartDistinct ==
  ASSUME IInv, Distinct, NEW n \in Node, Restart(n)
  PROVE  Distinct'
<1>1. down \in [Node -> [Slot -> Node \cup {None}]] /\ down' = [down EXCEPT ![n] = NoLinks]
  BY DEF IInv, Tree, Restart
<1>2. \A m \in Node, j \in Slot : down'[m][j] \in {None, down[m][j]}
  BY <1>1 DEF NoLinks
<1> QED
  BY <1>2, FewerChildren

LEMMA RejoinDistinct ==
  ASSUME IInv, Distinct, NEW n \in Node, Rejoin(n)
  PROVE  Distinct'
<1> DEFINE p == Parent[n]
           free == {i \in Slot : down[p][i] = None}
           e == CHOOSE i \in free : \A j \in free : i <= j
<1>1. /\ n # Top /\ n \notin Children(p)
      /\ down' = [down EXCEPT ![p] = [@ EXCEPT ![e] = n]]
      /\ down \in [Node -> [Slot -> Node \cup {None}]]
  BY DEF Rejoin, IInv, Tree
<1>2. p \in Node
  BY <1>1, TreeAssumption
<1> HIDE DEF e, free, p
<1>3. ASSUME NEW m \in Node, NEW i \in Slot, NEW j \in Slot, i # j,
             down'[m][i] # None, down'[m][j] # None
      PROVE  down'[m][i] # down'[m][j]
  <2>1. CASE m # p
    <3>1. down'[m] = down[m]
      BY <1>1, <1>2, <2>1
    <3> QED
      BY <1>3, <3>1 DEF Distinct, Used
  <2>2. CASE m = p
    <3>1. \A k \in Slot : down'[p][k] = IF k = e THEN n ELSE down[p][k]
      BY <1>1, <1>2
    <3>2. \A k \in Slot : down[p][k] # None => down[p][k] # n
      BY <1>1, <1>2 DEF Children, Used
    <3> QED
      BY <1>2, <1>3, <2>2, <3>1, <3>2 DEF Distinct, Used
  <2> QED
    BY <2>1, <2>2
<1> QED
  BY <1>3 DEF Distinct, Used

LEMMA SameTables == Distinct /\ UNCHANGED down => Distinct'
  BY DEF Distinct, Used

-----------------------------------------------------------------------------
(***************************************************************************)
(* One copy per path.                                                      *)
(***************************************************************************)
LEMMA PathInit == Init => PathInv
<1> SUFFICES ASSUME Init PROVE PathInv
  OBVIOUS
<1>1. IInv /\ ~ added
  BY InitInv DEF Init
<1>2. Paths
  BY <1>1, NothingHeld DEF Paths
<1>3. Distinct
  <2> SUFFICES ASSUME NEW n \in Node, NEW i \in Slot, NEW j \in Slot, i # j,
                      down[n][i] # None, down[n][j] # None
               PROVE  down[n][i] # down[n][j]
    BY DEF Distinct, Used
  <2>1. down[n] = CHOOSE f \in Tables(n) : TRUE
    BY DEF Init, NetInit
  <2>2. down[n] \in Tables(n)
    BY <2>1, FitAssumption
  <2>3. \A k, l \in Slot : k < l /\ down[n][l] # None => down[n][k] # down[n][l]
    BY <2>2 DEF Tables
  <2>4. i < j \/ j < i
    BY TableAssumption, SMT DEF Slot
  <2> QED
    BY <2>3, <2>4
<1> QED
  BY <1>2, <1>3 DEF PathInv

LEMMA LinkPaths ==
  ASSUME IInv, Paths, NEW n \in Node, Restart(n) \/ Rejoin(n) \/ \E i \in Slot : Decay(n, i)
  PROVE  Paths'
<1>1. CASE Restart(n)
  <2>1. /\ DOMAIN out = Node /\ DOMAIN inbox = Node
        /\ out' = [out EXCEPT ![n] = << >>] /\ inbox' = [inbox EXCEPT ![n] = << >>]
    BY <1>1 DEF Restart, IInv, Outs, Ins
  <2>2. /\ \A m \in Node \ {n} : out'[m] = out[m] /\ inbox'[m] = inbox[m]
        /\ out'[n] = << >> /\ inbox'[n] = << >>
    BY <2>1
  <2>3. DOMAIN out'[n] = {} /\ DOMAIN inbox'[n] = {}
    BY <2>2, SMT
  <2>4. ASSUME NEW x \in Place, Holds(x)'
        PROVE  Holds(x) /\ Packet(x)' = Packet(x) /\ At(x)' = At(x)
    <3>1. x[1] \in {"out", "in"} /\ x[2] \in Node
      BY DEF Place
    <3>2. x[2] # n
      BY <2>3, <2>4 DEF Holds, HoldsOut, HoldsIn
    <3> QED
      BY <2>2, <2>4, <3>1, <3>2 DEF Holds, HoldsOut, HoldsIn, Packet, At
  <2> QED
    BY <2>4, ShrinkPaths
<1>2. CASE Rejoin(n) \/ \E i \in Slot : Decay(n, i)
  BY <1>2, SamePaths DEF Rejoin, Decay
<1> QED
  BY <1>1, <1>2

LEMMA PathNext == IInv /\ IInv' /\ PathInv /\ [Next]_vars => PathInv'
<1> SUFFICES ASSUME IInv, IInv', Paths, Distinct, [Next]_vars PROVE Paths' /\ Distinct'
  BY DEF PathInv
<1>1. CASE UNCHANGED vars
  <2>1. UNCHANGED <<out, inbox, down>>
    BY <1>1 DEF vars, netVars, linkVars
  <2> QED
    BY <2>1, SamePaths, SameTables
<1>2. ASSUME NEW n \in Node, Transmit(n), UNCHANGED added PROVE Paths' /\ Distinct'
  BY <1>2, TransmitPaths, SameTables DEF Transmit, linkVars
<1>3. ASSUME NEW n \in Node, Restart(n) \/ Rejoin(n) \/ \E i \in Slot : Decay(n, i)
      PROVE  Paths' /\ Distinct'
  BY <1>3, LinkPaths, RestartDistinct, RejoinDistinct, DecayDistinct
<1>4. ASSUME MapRequest, UNCHANGED added PROVE Paths' /\ Distinct'
  BY <1>4, MapRequestPaths, SameTables DEF MapRequest, linkVars
<1>5. ASSUME NEW n \in Node, NEW goUp \in BOOLEAN, NEW life \in 1 .. MaxLife,
             AddMessage(n, goUp, life)
      PROVE  Paths' /\ Distinct'
  BY <1>5, AddMessagePaths, SameTables DEF AddMessage, linkVars
<1>6. ASSUME NEW life \in 1 .. MaxLife, GatewayMessage(life) PROVE Paths' /\ Distinct'
  BY <1>6, GatewayMessagePaths, SameTables DEF GatewayMessage, linkVars
<1>7. ASSUME NEW n \in Node, Bounces(n) PROVE Paths' /\ Distinct'
  BY <1>7, BouncesPaths, SameTables DEF Bounces, linkVars
<1> QED
  BY <1>1, <1>2, <1>3, <1>4, <1>5, <1>6, <1>7 DEF Next, NetStep

\* Copies of a packet on the same leg are never on one path to the gateway: a node hands
\* a packet to the application or passes it on (espnow_recv, net_layer.c:609-640), and
\* down-stream it is copied once to each child (net_send_down, net_layer.c:160-188).
THEOREM CopiesStayApart == Spec => []OneCopyPerPath
<1>1. Spec => []PathInv
  BY PathInit, PathNext, Invariance, PTL DEF Spec
<1>2. IInv /\ PathInv => OneCopyPerPath
  <2> SUFFICES ASSUME IInv, Paths,
                      NEW c \in OutCopies \cup InCopies, NEW d \in OutCopies \cup InCopies,
                      c # d, c.payload.leg = d.payload.leg,
                      ~ c.payload.strayed, ~ d.payload.strayed
               PROVE  c.at \notin AtOrAbove[d.at]
    BY DEF OneCopyPerPath, PathInv
  <2>1. ASSUME NEW e \in OutCopies \cup InCopies, ~ e.payload.strayed
        PROVE  \E x \in Place : Holds(x) /\ e = [payload |-> Packet(x), at |-> At(x)]
    <3>1. CASE e \in OutCopies
      <4>1. PICK n \in Node : \E k \in DOMAIN out[n] :
              out[n][k].control = "DEFAULT" /\ e = [payload |-> out[n][k].payload, at |-> out[n][k].dst]
        BY <3>1 DEF OutCopies
      <4>2. PICK k \in DOMAIN out[n] :
              out[n][k].control = "DEFAULT" /\ e = [payload |-> out[n][k].payload, at |-> out[n][k].dst]
        BY <4>1
      <4>3. k \in Nat
        BY QueueOfFrames, SMT
      <4> DEFINE x == <<"out", n, k>>
      <4>4. x \in Place /\ x[1] = "out" /\ x[2] = n /\ x[3] = k
        BY <4>3 DEF Place
      <4> HIDE DEF x
      <4>5. Packet(x) = out[n][k].payload /\ At(x) = out[n][k].dst
        BY <4>4 DEF Packet, At
      <4>6. e.payload = out[n][k].payload
        BY <4>2
      <4>7. Holds(x)
        BY <2>1, <4>2, <4>4, <4>6 DEF Holds, HoldsOut
      <4> QED
        BY <4>2, <4>4, <4>5, <4>7
    <3>2. CASE e \in InCopies
      <4>1. PICK n \in Node : \E k \in DOMAIN inbox[n] :
              e = [payload |-> inbox[n][k].payload, at |-> n]
        BY <3>2 DEF InCopies
      <4>2. PICK k \in DOMAIN inbox[n] : e = [payload |-> inbox[n][k].payload, at |-> n]
        BY <4>1
      <4>3. k \in Nat
        BY QueueOfFrames, SMT
      <4> DEFINE x == <<"in", n, k>>
      <4>4. x \in Place /\ x[1] = "in" /\ x[2] = n /\ x[3] = k
        BY <4>3 DEF Place
      <4> HIDE DEF x
      <4>5. Packet(x) = inbox[n][k].payload /\ At(x) = n
        BY <4>4 DEF Packet, At
      <4>6. e.payload = inbox[n][k].payload
        BY <4>2
      <4>7. Holds(x)
        BY <2>1, <4>2, <4>4, <4>6 DEF Holds, HoldsIn
      <4> QED
        BY <4>2, <4>4, <4>5, <4>7
    <3> QED
      BY <2>1, <3>1, <3>2
  <2>2. PICK x \in Place : Holds(x) /\ c = [payload |-> Packet(x), at |-> At(x)]
    BY <2>1
  <2>3. PICK y \in Place : Holds(y) /\ d = [payload |-> Packet(y), at |-> At(y)]
    BY <2>1
  <2>4. x # y /\ Packet(x).leg = Packet(y).leg
    BY <2>2, <2>3
  <2>5. Apart(At(x), At(y))
    BY <2>2, <2>3, <2>4 DEF Paths
  <2> QED
    BY <2>2, <2>3, <2>5 DEF Apart
<1> QED
  BY <1>1, <1>2, Invariance, PTL
=============================================================================
