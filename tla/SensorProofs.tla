---------------------------- MODULE SensorProofs ----------------------------
(***************************************************************************)
(* Proofs about Sensor: no reading is counted twice, the periods stay in   *)
(* the bound that the depth of the tree gives them, and the inbound queue  *)
(* never drops a report of a child.                                        *)
(*                                                                         *)
(* Once is the heart of the first: at most one place carries the reading   *)
(* that is followed, be it a report on its way, an entry of a queue or the *)
(* total of the gateway.  Window is the heart of the last: how far the     *)
(* timer of a child is ahead of its parent's says how many reports of the  *)
(* child can be waiting.                                                   *)
(***************************************************************************)
EXTENDS Sensor, FiniteSetTheorems, FunctionTheorems, WellFoundedInduction, NaturalsInduction, TLAPS

\* Each level of the tree adds a second to the longest period: Limit(n) is the
\* longest of node n.
Height   == CHOOSE h \in [Node -> 0 .. MaxPeriod - DEFAULT_PERIOD] :
              \A n \in Node : Parent[n] # Gateway => h[n] < h[Parent[n]]
Limit(n) == DEFAULT_PERIOD + Height[n]

\* The reports the nodes really send; they are passed on up only.
Sent == {r \in [origin : Node, period : Nat, copies : {0, 1}, via : Node] :
           /\ r.period \in DEFAULT_PERIOD .. Limit(r.origin)
           /\ Limit(r.origin) <= Limit(r.via)}

Timers == /\ left \in [Node -> Nat] /\ period \in [Node -> Nat]
          /\ \A n \in Node : left[n] <= Limit(n) /\ period[n] \in DEFAULT_PERIOD .. Limit(n)

Queued == /\ inbox \in [Node -> Seq(Sent)]
          /\ \A n \in Node, k \in Nat : k \in DOMAIN inbox[n] => Parent[inbox[n][k].via] = n

Flags == /\ followed \in BOOLEAN /\ crowded \in BOOLEAN /\ missed \subseteq Node
         /\ losses \in 0 .. MaxLosses /\ lates \in 0 .. MaxLates /\ arrived \in {0, 1}

\* The places a report can be, and those of them that carry the followed reading.
Place == {<<"air", n, 0>> : n \in Node} \cup {<<"in", n, k>> : n \in Node, k \in Nat}
           \cup {<<"top", Gateway, 0>>}

Carries(x) ==
  \/ x[1] = "air" /\ \E r \in air : r.origin = x[2] /\ r.copies = 1
  \/ x[1] = "in" /\ x[3] \in DOMAIN inbox[x[2]] /\ inbox[x[2]][x[3]].copies = 1
  \/ x[1] = "top" /\ arrived = 1

Once == \A x, y \in Place : Carries(x) /\ Carries(y) => x = y

\* Before it is taken, nothing carries it.
Taken == \A x \in Place : Carries(x) => followed

\* A report on its way was sent within this second, and is the only one of its origin.
Recent == /\ \A r \in air : left[r.origin] >= DEFAULT_PERIOD
          /\ \A r, s \in air : r.origin = s.origin => r = s

IInv == /\ Timers /\ Queued /\ Flags
        /\ cache = [n \in Node |-> {}] /\ air \subseteq Sent
        /\ Recent /\ Once /\ Taken

\* The timer of a child c against that of its parent n, after the first of c's reports
\* in the turn of n and after the second; there is no third.
First(n, c)  == left[n] < left[c] + DEFAULT_PERIOD
Second(n, c) == left[n] < left[c]

\* Two entries of the queue of n from one child.
SameOrigin(n, i, j) ==
  i \in DOMAIN inbox[n] /\ j \in DOMAIN inbox[n] /\ inbox[n][i].origin = inbox[n][j].origin

OneWaiting ==
  \A n \in Node, i \in Nat : i \in DOMAIN inbox[n] =>
    /\ First(n, inbox[n][i].origin)
    /\ \A r \in air : r.origin = inbox[n][i].origin => Second(n, r.origin)

TwoWaiting ==
  \A n \in Node, i, j \in Nat : SameOrigin(n, i, j) /\ i # j =>
    /\ Second(n, inbox[n][i].origin)
    /\ \A r \in air : r.origin # inbox[n][i].origin

NotThree ==
  \A n \in Node, i, j, k \in Nat :
    SameOrigin(n, i, j) /\ SameOrigin(n, j, k) => i = j \/ j = k \/ i = k

\* Reports come from children only.
Direct == /\ \A n \in Node, k \in Nat : k \in DOMAIN inbox[n] => Parent[inbox[n][k].origin] = n
          /\ \A r \in air : r.via = r.origin

Window == Direct /\ OneWaiting /\ TwoWaiting /\ NotThree

\* At most ten levels (MaxPeriod), and room for two reports of each child: three
\* children (LINK_TABLE_SIZE) and INBOUND_QUEUE_SIZE = 6.
Shallow == /\ MaxPeriod < 2 * DEFAULT_PERIOD
           /\ \A n \in Node : 2 * Cardinality(Children(n)) <= INBOUND_QUEUE_SIZE

-----------------------------------------------------------------------------
(***************************************************************************)
(* The bound that the depth of the tree gives a period, and update_period. *)
(***************************************************************************)
LEMMA LimitLemma ==
  ASSUME NEW n \in Node
  PROVE  /\ Limit(n) \in Nat /\ DEFAULT_PERIOD <= Limit(n) /\ Limit(n) <= MaxPeriod
         /\ Parent[n] \in Node => Limit(n) < Limit(Parent[n])
<1>1. /\ Height \in [Node -> 0 .. MaxPeriod - DEFAULT_PERIOD]
      /\ \A m \in Node : Parent[m] # Gateway => Height[m] < Height[Parent[m]]
  BY DepthAssumption DEF Height
<1>2. ASSUME NEW m \in Node
      PROVE  Height[m] \in Nat /\ Height[m] <= MaxPeriod - DEFAULT_PERIOD
  BY <1>1, PeriodAssumption
<1>3. Parent[n] \in Node => Height[n] < Height[Parent[n]]
  BY <1>1, TreeAssumption
<1> QED
  BY <1>2, <1>3, PeriodAssumption DEF Limit

\* A set of naturals that has an upper bound has a greatest element, when it is not empty.
LEMMA Greatest ==
  ASSUME NEW S \in SUBSET Nat, S # {}, NEW B \in Nat, \A x \in S : x <= B
  PROVE  \E x \in S : \A y \in S : y <= x
<1> DEFINE U == {u \in Nat : \A x \in S : x <= u}
           R == OpToRel(<, Nat)
<1>1. PICK u \in U : \A v \in U : ~ (<<v, u>> \in R)
  <2>1. IsWellFoundedOn(R, Nat)
    BY NatLessThanWellFounded
  <2>2. U \subseteq Nat /\ B \in U
    OBVIOUS
  <2> HIDE DEF U, R
  <2> QED
    BY <2>1, <2>2, WFMin
<1>2. \A v \in U : ~ (v < u)
  BY <1>1 DEF OpToRel
<1>3. u \in S
  <2> SUFFICES ASSUME u \notin S PROVE FALSE
    OBVIOUS
  <2>1. PICK x \in S : TRUE
    OBVIOUS
  <2>2. ASSUME NEW y \in S PROVE y <= u - 1
    BY <2>2
  <2>3. u - 1 \in Nat
    BY <2>1, <2>2
  <2>4. u - 1 \in U
    BY <2>2, <2>3
  <2> QED
    BY <1>2, <2>4
<1> QED
  BY <1>3

\* The longest period of a cache, and the period it gives.
LEMMA LongestLemma ==
  ASSUME NEW c, NEW B \in Nat, \A p \in c : p.period \in 0 .. B
  PROVE  /\ Longest(c) \in 0 .. B
         /\ \A p \in c : p.period <= Longest(c)
<1> DEFINE S == {0} \cup {p.period : p \in c}
<1>1. S \in SUBSET Nat /\ S # {} /\ \A x \in S : x <= B
  OBVIOUS
<1>2. \E x \in S : \A y \in S : y <= x
  <2> HIDE DEF S
  <2> QED
    BY <1>1, Greatest
<1>3. \E x \in S : \A p \in c : p.period <= x
  BY <1>2
<1>4. Longest(c) \in S /\ \A p \in c : p.period <= Longest(c)
  BY <1>3 DEF Longest
<1> QED
  BY <1>1, <1>4

\* The period stays above those of the reports and below the limit of the node.
LEMMA PeriodLemma ==
  ASSUME NEW c, NEW n \in Node, c \subseteq Sent, \A p \in c : Parent[p.via] = n
  PROVE  /\ UpdatedPeriod(c) \in DEFAULT_PERIOD .. Limit(n)
         /\ \A p \in c : p.period < UpdatedPeriod(c)
<1> DEFINE B == Limit(n) - 1
<1>1. Limit(n) \in Nat /\ DEFAULT_PERIOD <= Limit(n) /\ B \in Nat
  BY LimitLemma, PeriodAssumption
<1>2. ASSUME NEW p \in c PROVE p.period \in 0 .. B
  <2>1. /\ p.origin \in Node /\ p.via \in Node /\ p.period \in Nat
        /\ p.period <= Limit(p.origin) /\ Limit(p.origin) <= Limit(p.via)
    BY LimitLemma DEF Sent
  <2>2. /\ Limit(p.origin) \in Nat /\ Limit(p.via) \in Nat /\ Limit(p.via) < Limit(n)
    BY <2>1, LimitLemma
  <2> QED
    BY <1>1, <2>1, <2>2
<1>3. /\ Longest(c) \in 0 .. B
      /\ \A p \in c : p.period <= Longest(c)
  <2> HIDE DEF B
  <2> QED
    BY <1>1, <1>2, LongestLemma
<1>4. UpdatedPeriod(c) \in DEFAULT_PERIOD .. Limit(n) /\ Longest(c) < UpdatedPeriod(c)
  BY <1>1, <1>3, PeriodAssumption DEF UpdatedPeriod
<1> QED
  BY <1>1, <1>2, <1>3, <1>4

-----------------------------------------------------------------------------
(***************************************************************************)
(* What a turn makes of the reports in the queue.                          *)
(***************************************************************************)
LEMMA PushedLemma ==
  ASSUME NEW n \in Node, Queued, NEW k \in 0 .. Len(inbox[n])
  PROVE  LET c == Pushed({}, SubSeq(inbox[n], 1, k)) IN
         /\ c \subseteq Sent
         /\ \A p \in c : /\ Parent[p.via] = n
                         /\ \E i \in Nat : i \in DOMAIN inbox[n] /\ i <= k /\ inbox[n][i] = p
<1> DEFINE s == SubSeq(inbox[n], 1, k)
<1>1. inbox[n] \in Seq(Sent)
  BY DEF Queued
<1>2. ASSUME NEW i \in DOMAIN inbox[n] PROVE i \in Nat /\ inbox[n][i] \in Sent
  BY <1>1
<1>3. ASSUME NEW i \in DOMAIN s
      PROVE  i \in Nat /\ i \in DOMAIN inbox[n] /\ i <= k /\ s[i] = inbox[n][i]
  BY <1>1
<1>4. ASSUME NEW p \in Pushed({}, s)
      PROVE  \E i \in DOMAIN s : s[i] = p
  <2> HIDE DEF s
  <2> QED
    BY DEF Pushed
<1> QED
  BY <1>2, <1>3, <1>4 DEF Queued

\* The reading is counted in the totals when one of the reports has it, and once.
LEMMA CombinedLemma ==
  ASSUME NEW c, c \subseteq Sent,
         \A p, q \in c : p.copies = 1 /\ q.copies = 1 => p = q
  PROVE  /\ Combined(c) \in {0, 1}
         /\ Combined(c) = 1 => \E p \in c : p.copies = 1
<1> DEFINE T == UNION {{p} \X (1 .. p.copies) : p \in c}
<1>1. ASSUME NEW p \in c PROVE p.copies \in {0, 1}
  BY DEF Sent
<1>2. CASE \E p \in c : p.copies = 1
  <2>1. PICK p \in c : p.copies = 1
    BY <1>2
  <2>2. ASSUME NEW q \in c, q # p PROVE q.copies = 0
    BY <1>1, <2>1, <2>2
  <2>3. ASSUME NEW e \in T PROVE e = <<p, 1>>
    <3>1. PICK q \in c : e \in {q} \X (1 .. q.copies)
      OBVIOUS
    <3>2. q = p
      BY <2>2, <3>1
    <3> QED
      BY <2>1, <3>1, <3>2
  <2>4. <<p, 1>> \in {p} \X (1 .. p.copies)
    BY <2>1
  <2>5. T = {<<p, 1>>}
    BY <2>3, <2>4
  <2>6. Cardinality(T) = 1
    BY <2>5, FS_Singleton
  <2> QED
    BY <2>1, <2>6 DEF Combined
<1>3. CASE \A p \in c : p.copies = 0
  <2>1. \A p \in c : {p} \X (1 .. p.copies) = {}
    BY <1>3
  <2>2. T = {}
    BY <2>1
  <2>3. Cardinality(T) = 0
    BY <2>2, FS_EmptySet
  <2> QED
    BY <2>3 DEF Combined
<1> QED
  BY <1>1, <1>2, <1>3

-----------------------------------------------------------------------------
(***************************************************************************)
(* At most one place carries the reading.                                  *)
(***************************************************************************)
\* A step leaves the reading where it is, or nowhere; or it moves it to x.
Stays    == \A y \in Place : Carries(y)' => Carries(y)
Moves(x) == \A y \in Place : Carries(y)' => y = x

LEMMA StayLemma ==
  ASSUME Once, Taken, followed => followed', Stays
  PROVE  Once' /\ Taken'
BY DEF Once, Taken, Stays

LEMMA MoveLemma ==
  ASSUME followed', NEW x, Moves(x)
  PROVE  Once' /\ Taken'
BY DEF Once, Taken, Moves

\* Or it moves from place to place, and from two places not to one.
LEMMA ShiftLemma ==
  ASSUME Once, Taken, followed => followed', NEW f,
         \A y \in Place : Carries(y)' => f[y] \in Place /\ Carries(f[y]),
         \A y, z \in Place : f[y] = f[z] => y = z
  PROVE  Once' /\ Taken'
<1>1. Taken'
  BY DEF Taken
<1>2. ASSUME NEW x \in Place, NEW y \in Place, Carries(x)', Carries(y)'
      PROVE  x = y
  <2>1. f[x] = f[y]
    BY <1>2 DEF Once
  <2> QED
    BY <2>1
<1> QED
  BY <1>1, <1>2 DEF Once

\* The reports of a queue that carry it are one.
LEMMA OneInQueue ==
  ASSUME IInv, NEW n \in Node, NEW m \in 0 .. Len(inbox[n])
  PROVE  \A p, q \in Pushed({}, SubSeq(inbox[n], 1, m)) : p.copies = 1 /\ q.copies = 1 => p = q
<1> SUFFICES ASSUME NEW p \in Pushed({}, SubSeq(inbox[n], 1, m)),
                    NEW q \in Pushed({}, SubSeq(inbox[n], 1, m)),
                    p.copies = 1, q.copies = 1
             PROVE  p = q
  OBVIOUS
<1>1. PICK k \in Nat : k \in DOMAIN inbox[n] /\ inbox[n][k] = p
  BY PushedLemma DEF IInv
<1>2. PICK j \in Nat : j \in DOMAIN inbox[n] /\ inbox[n][j] = q
  BY PushedLemma DEF IInv
<1>3. <<"in", n, k>> \in Place /\ <<"in", n, j>> \in Place
  BY DEF Place
<1>4. Carries(<<"in", n, k>>) /\ Carries(<<"in", n, j>>)
  BY <1>1, <1>2 DEF Carries
<1>5. <<"in", n, k>> = <<"in", n, j>>
  BY <1>3, <1>4 DEF IInv, Once
<1> QED
  BY <1>1, <1>2, <1>5

LEMMA InitInv == Init => IInv
<1> SUFFICES ASSUME Init PROVE IInv
  OBVIOUS
<1>1. Timers
  <2>1. ASSUME NEW n \in Node
        PROVE  /\ left[n] \in Nat /\ left[n] <= Limit(n)
               /\ period[n] \in Nat /\ period[n] \in DEFAULT_PERIOD .. Limit(n)
    BY LimitLemma, PeriodAssumption DEF Init
  <2> QED
    BY <2>1 DEF Init, Timers
<1>2. Queued
  <2>1. inbox = [n \in Node |-> << >>] /\ << >> \in Seq(Sent)
    BY DEF Init
  <2>2. \A n \in Node : DOMAIN inbox[n] = {}
    BY <2>1
  <2> QED
    BY <2>1, <2>2 DEF Queued
<1>3. Flags
  <2>1. 0 \in 0 .. MaxLosses /\ 0 \in 0 .. MaxLates /\ 0 \in {0, 1}
    BY BoundAssumption
  <2> QED
    BY <2>1 DEF Init, Flags
<1>4. ASSUME NEW x \in Place PROVE ~ Carries(x)
  <2>1. CASE x[1] = "in"
    <3>1. x[2] \in Node
      BY <2>1 DEF Place
    <3>2. DOMAIN inbox[x[2]] = {}
      BY <3>1 DEF Init
    <3> QED
      BY <2>1, <3>2 DEF Carries
  <2>2. CASE x[1] # "in"
    BY <2>2 DEF Carries, Init
  <2> QED
    BY <2>1, <2>2
<1> QED
  BY <1>1, <1>2, <1>3, <1>4 DEF IInv, Init, Once, Taken, Recent

LEMMA TickInv ==
  ASSUME IInv, Tick
  PROVE  IInv'
<1>1. Timers'
  <2>1. \A n \in Node : left[n] \in Nat /\ left[n] <= Limit(n) /\ Limit(n) \in Nat
    BY LimitLemma DEF IInv, Timers
  <2>2. \A n \in Node : left[n] - 1 \in Nat /\ left[n] - 1 <= Limit(n)
    BY <2>1 DEF Tick
  <2> QED
    BY <2>2 DEF IInv, Timers, Tick
<1>2. Stays
  BY DEF Stays, Carries, Tick
<1>3. Once' /\ Taken'
  BY <1>2, StayLemma DEF IInv, Tick
<1> QED
  BY <1>1, <1>3 DEF IInv, Queued, Flags, Recent, Tick

\* What a turn sends: a report of its node, within its limit.
LEMMA WakeSends ==
  ASSUME IInv, NEW n \in Node, NEW m \in 0 .. Len(inbox[n]), NEW own \in {0, 1}, Wake(n, m, own)
  PROVE  \E r \in Sent :
           /\ r.origin = n /\ r.via = n /\ air' = air \cup {r}
           /\ period' = [period EXCEPT ![n] = r.period] /\ left' = [left EXCEPT ![n] = r.period]
           /\ own = 1 => ~ followed
           /\ r.copies = 1 => own = 1 \/ \E k \in Nat : k <= m /\ Carries(<<"in", n, k>>)
           /\ r.copies = 0 => own = 0
<1> DEFINE c == Pushed({}, SubSeq(inbox[n], 1, m))
           r == [origin |-> n, period |-> UpdatedPeriod(c), copies |-> Combined(c) + own,
                 via |-> n]
<1>1. cache[n] = {}
  BY DEF IInv
<1>2. /\ air' = air \cup {r} /\ period' = [period EXCEPT ![n] = UpdatedPeriod(c)]
      /\ left' = [left EXCEPT ![n] = UpdatedPeriod(c)] /\ (own = 1 => ~ followed)
  BY <1>1 DEF Wake
<1>3. /\ c \subseteq Sent
      /\ \A p \in c : /\ Parent[p.via] = n
                      /\ \E k \in Nat : k \in DOMAIN inbox[n] /\ k <= m /\ inbox[n][k] = p
  BY PushedLemma DEF IInv
<1>4. \A p, q \in c : p.copies = 1 /\ q.copies = 1 => p = q
  BY OneInQueue
<1> HIDE DEF c
<1>5. UpdatedPeriod(c) \in DEFAULT_PERIOD .. Limit(n)
  BY <1>3, PeriodLemma
<1>6. Combined(c) \in {0, 1} /\ (Combined(c) = 1 => \E p \in c : p.copies = 1)
  BY <1>3, <1>4, CombinedLemma
<1>7. Combined(c) = 1 => \E k \in Nat : k <= m /\ Carries(<<"in", n, k>>)
  BY <1>3, <1>6 DEF Carries
<1>8. Combined(c) = 1 => followed
  <2>1. \A k \in Nat : <<"in", n, k>> \in Place
    BY DEF Place
  <2> QED
    BY <1>7, <2>1 DEF IInv, Taken
<1>9. Combined(c) + own \in {0, 1} /\ (Combined(c) + own = 0 => own = 0)
       /\ (Combined(c) + own = 1 => own = 1 \/ Combined(c) = 1)
  BY <1>2, <1>6, <1>8
<1>10. UpdatedPeriod(c) \in Nat
  BY <1>5, LimitLemma, PeriodAssumption
<1>11. r \in Sent
  <2>1. Limit(n) <= Limit(n)
    BY LimitLemma
  <2> QED
    BY <1>5, <1>9, <1>10, <2>1 DEF Sent
<1> QED
  BY <1>2, <1>7, <1>9, <1>11

LEMMA WakeInv ==
  ASSUME IInv, NEW n \in Node, NEW m \in 0 .. Len(inbox[n]), NEW own \in {0, 1}, Wake(n, m, own)
  PROVE  IInv'
<1>1. PICK r \in Sent :
        /\ r.origin = n /\ r.via = n /\ air' = air \cup {r}
        /\ period' = [period EXCEPT ![n] = r.period] /\ left' = [left EXCEPT ![n] = r.period]
        /\ own = 1 => ~ followed
        /\ r.copies = 1 => own = 1 \/ \E k \in Nat : k <= m /\ Carries(<<"in", n, k>>)
        /\ r.copies = 0 => own = 0
  BY WakeSends
<1>2. r.period \in Nat /\ r.period \in DEFAULT_PERIOD .. Limit(n) /\ r.copies \in {0, 1}
  BY <1>1 DEF Sent
<1>3. Timers'
  <2>1. Limit(n) \in Nat
    BY LimitLemma
  <2> QED
    BY <1>1, <1>2, <2>1 DEF IInv, Timers
\* The queue moves up by m.
<1>4. /\ inbox' = [inbox EXCEPT ![n] = SubSeq(inbox[n], m + 1, Len(inbox[n]))]
      /\ inbox \in [Node -> Seq(Sent)]
  BY DEF Wake, IInv, Queued
<1>13. /\ SubSeq(inbox[n], m + 1, Len(inbox[n])) \in Seq(Sent)
       /\ m \in Nat /\ m <= Len(inbox[n]) /\ Len(inbox[n]) \in Nat
       /\ \A i \in DOMAIN SubSeq(inbox[n], m + 1, Len(inbox[n])) :
            /\ i \in Nat /\ i > 0 /\ i + m \in DOMAIN inbox[n]
            /\ SubSeq(inbox[n], m + 1, Len(inbox[n]))[i] = inbox[n][i + m]
  <2>1. inbox[n] \in Seq(Sent)
    BY <1>4
  <2> QED
    BY <2>1
<1>14. /\ inbox'[n] = SubSeq(inbox[n], m + 1, Len(inbox[n]))
       /\ \A l \in Node \ {n} : inbox'[l] = inbox[l]
       /\ \A i \in DOMAIN inbox'[n] : /\ i \in Nat /\ i > 0 /\ i + m \in DOMAIN inbox[n]
                                      /\ inbox'[n][i] = inbox[n][i + m]
  BY <1>4, <1>13
<1>5. Queued'
  <2>1. inbox' \in [Node -> Seq(Sent)]
    BY <1>4, <1>13
  <2>2. ASSUME NEW l \in Node, NEW k \in Nat, k \in DOMAIN inbox'[l]
        PROVE  Parent[inbox'[l][k].via] = l
    <3>1. CASE l = n
      <4>1. k + m \in Nat /\ k + m \in DOMAIN inbox[n] /\ inbox'[n][k] = inbox[n][k + m]
        BY <1>13, <1>14, <2>2, <3>1
      <4> QED
        BY <3>1, <4>1 DEF IInv, Queued
    <3>2. CASE l # n
      BY <1>14, <2>2, <3>2 DEF IInv, Queued
    <3> QED
      BY <3>1, <3>2
  <2> QED
    BY <2>1, <2>2 DEF Queued
<1>6. Flags'
  <2>1. lates' \in 0 .. MaxLates
    BY BoundAssumption DEF IInv, Flags, Wake, Late
  <2> QED
    BY <2>1 DEF IInv, Flags, Wake
<1>7. cache' = [l \in Node |-> {}]
  BY DEF IInv, Wake, Cleared
<1>8. followed' = (followed \/ own = 1) /\ arrived' = arrived
  BY DEF Wake
\* What is left in the queue was further down.
<1> DEFINE Before == [y \in Place |-> IF y[1] = "in" /\ y[2] = n THEN <<"in", n, y[3] + m>> ELSE y]
<1>9. ASSUME NEW y \in Place, Carries(y)'
      PROVE  /\ Before[y] \in Place
             /\ y = <<"air", n, 0>> \/ Carries(Before[y])
             /\ r.copies = 0 => Carries(Before[y])
             /\ \A k \in Nat : k <= m => Before[y] # <<"in", n, k>>
  <2>1. CASE y[1] = "air"
    <3>1. PICK s \in air \cup {r} : s.origin = y[2] /\ s.copies = 1
      BY <1>1, <1>9, <2>1 DEF Carries
    <3>2. y = <<"air", y[2], 0>> /\ Before[y] = y
      BY <2>1 DEF Place
    <3>5. \A k \in Nat : Before[y] # <<"in", n, k>>
      BY <2>1, <3>2
    <3> HIDE DEF Before
    <3>3. CASE s \in air
      BY <2>1, <3>1, <3>2, <3>3, <3>5 DEF Carries
    <3>4. CASE s = r
      BY <1>1, <2>1, <3>1, <3>2, <3>4, <3>5
    <3> QED
      BY <3>1, <3>3, <3>4
  <2>2. CASE y[1] = "in"
    <3>1. y = <<"in", y[2], y[3]>> /\ y[2] \in Node /\ y[3] \in Nat
      BY <2>2 DEF Place
    <3>2. y[3] \in DOMAIN inbox'[y[2]] /\ inbox'[y[2]][y[3]].copies = 1
      BY <1>9, <2>2 DEF Carries
    <3>3. CASE y[2] # n
      <4>1. Before[y] = y
        BY <3>3
      <4>2. inbox'[y[2]] = inbox[y[2]]
        BY <1>14, <3>1, <3>3
      <4>3. \A k \in Nat : y # <<"in", n, k>>
        BY <3>3
      <4> HIDE DEF Before
      <4> QED
        BY <2>2, <3>2, <4>1, <4>2, <4>3 DEF Carries
    <3>4. CASE y[2] = n
      <4>1. Before[y] = <<"in", n, y[3] + m>>
        BY <2>2, <3>4
      <4>2. y[3] + m \in DOMAIN inbox[n] /\ inbox[n][y[3] + m].copies = 1 /\ y[3] > 0
        BY <1>14, <3>2, <3>4
      <4>3. y[3] + m \in Nat /\ \A k \in Nat : k <= m => k # y[3] + m
        BY <1>13, <3>1, <4>2
      <4> HIDE DEF Before
      <4>4. Before[y] \in Place /\ Carries(Before[y])
        BY <4>1, <4>2, <4>3 DEF Place, Carries
      <4> QED
        BY <4>1, <4>3, <4>4
    <3> QED
      BY <3>3, <3>4
  <2>3. CASE y[1] = "top"
    <3>1. Before[y] = y /\ \A k \in Nat : y # <<"in", n, k>>
      BY <2>3
    <3> HIDE DEF Before
    <3> QED
      BY <1>8, <1>9, <2>3, <3>1 DEF Carries
  <2> HIDE DEF Before
  <2> QED
    BY <2>1, <2>2, <2>3 DEF Place
<1>15. ASSUME NEW y \in Place, NEW z \in Place, Before[y] = Before[z] PROVE y = z
  <2>1. ASSUME NEW u \in Place, u[1] = "in" PROVE u = <<"in", u[2], u[3]>> /\ u[3] \in Nat
    BY <2>1 DEF Place
  <2>2. CASE (y[1] = "in" /\ y[2] = n) /\ (z[1] = "in" /\ z[2] = n)
    <3>1. y[3] + m = z[3] + m /\ y[3] \in Nat /\ z[3] \in Nat
      BY <1>15, <2>1, <2>2
    <3> QED
      BY <1>13, <2>1, <2>2, <3>1
  <2>3. CASE ~ (y[1] = "in" /\ y[2] = n) /\ ~ (z[1] = "in" /\ z[2] = n)
    BY <1>15, <2>3
  <2>4. CASE ~ ((y[1] = "in" /\ y[2] = n) <=> (z[1] = "in" /\ z[2] = n))
    BY <1>15, <2>4
  <2> QED
    BY <2>2, <2>3, <2>4
<1> HIDE DEF Before
<1>10. Once' /\ Taken'
  <2>1. CASE r.copies = 0
    BY <1>8, <1>9, <1>15, <2>1, ShiftLemma DEF IInv
  <2>2. CASE own = 1
    <3>1. \A y \in Place : ~ Carries(y)
      BY <1>1, <2>2 DEF IInv, Taken
    <3>2. Moves(<<"air", n, 0>>)
      BY <1>9, <3>1 DEF Moves
    <3> QED
      BY <1>8, <2>2, <3>2, MoveLemma
  <2>3. CASE r.copies = 1 /\ own # 1
    <3>1. PICK k \in Nat : k <= m /\ Carries(<<"in", n, k>>)
      BY <1>1, <2>3
    <3>2. <<"in", n, k>> \in Place
      BY DEF Place
    <3>3. \A y \in Place : Carries(y) => y = <<"in", n, k>>
      BY <3>1, <3>2 DEF IInv, Once
    <3>4. Moves(<<"air", n, 0>>)
      BY <1>9, <3>1, <3>3 DEF Moves
    <3>5. followed'
      BY <1>8, <3>1, <3>2 DEF IInv, Taken
    <3> QED
      BY <3>4, <3>5, MoveLemma
  <2> QED
    BY <1>2, <2>1, <2>2, <2>3
<1>11. air' \subseteq Sent
  BY <1>1 DEF IInv
<1>12. Recent'
  <2>1. left[n] = 0
    BY DEF Wake
  <2>2. ASSUME NEW s \in air
        PROVE  s.origin # n /\ s.origin \in Node /\ left'[s.origin] = left[s.origin]
    <3>1. s.origin \in Node /\ left[s.origin] >= DEFAULT_PERIOD
      BY DEF IInv, Recent, Sent
    <3>2. s.origin # n
      BY <2>1, <3>1, PeriodAssumption
    <3> QED
      BY <1>1, <3>1, <3>2 DEF IInv, Timers
  <2>3. left'[n] = r.period /\ r.period >= DEFAULT_PERIOD
    BY <1>1, <1>2, PeriodAssumption DEF IInv, Timers
  <2> QED
    BY <1>1, <2>2, <2>3 DEF IInv, Recent
<1> QED
  BY <1>3, <1>5, <1>6, <1>7, <1>10, <1>11, <1>12 DEF IInv

\* A report arrives: at the gateway, or in the queue of its parent.
LEMMA ArriveInv ==
  ASSUME IInv, NEW r \in air, Arrive(r)
  PROVE  IInv'
<1> DEFINE n == Parent[r.via]
           x == IF n = Gateway THEN <<"top", Gateway, 0>> ELSE <<"in", n, Len(inbox[n]) + 1>>
<1>1. /\ r \in Sent /\ r.origin \in Node /\ r.copies \in {0, 1} /\ n \in Node \cup {Gateway}
      /\ <<"air", r.origin, 0>> \in Place
  BY TreeAssumption DEF IInv, Sent, Place
<1>2. /\ air' = air \ {r} /\ UNCHANGED <<left, period, cache, losses, lates, followed, missed>>
      /\ n = Gateway => arrived' = arrived + r.copies /\ UNCHANGED <<inbox, crowded>>
      /\ n # Gateway => /\ UNCHANGED arrived
                        /\ \/ UNCHANGED inbox
                           \/ inbox' = [inbox EXCEPT ![n] = Append(@, r)]
                        /\ crowded' = (crowded \/ Len(inbox[n]) = INBOUND_QUEUE_SIZE)
  BY DEF Arrive
<1>3. r.copies = 1 => /\ followed
                      /\ \A y \in Place : Carries(y) => y = <<"air", r.origin, 0>>
  <2>1. r.copies = 1 => Carries(<<"air", r.origin, 0>>)
    BY DEF Carries
  <2> QED
    BY <1>1, <2>1 DEF IInv, Once, Taken
<1>4. r.copies = 1 => arrived = 0
  <2>1. <<"top", Gateway, 0>> \in Place /\ (arrived = 1 => Carries(<<"top", Gateway, 0>>))
    BY DEF Place, Carries
  <2> QED
    BY <1>3, <2>1 DEF IInv, Flags
<1>5. Flags'
  <2>1. arrived' \in {0, 1}
    BY <1>1, <1>2, <1>4 DEF IInv, Flags
  <2> QED
    BY <1>2, <2>1 DEF IInv, Flags
<1>6. n # Gateway => /\ n \in Node /\ inbox \in [Node -> Seq(Sent)]
                     /\ Append(inbox[n], r) \in Seq(Sent)
                     /\ Len(inbox[n]) \in Nat /\ DOMAIN inbox[n] = 1 .. Len(inbox[n])
                     /\ DOMAIN Append(inbox[n], r) = 1 .. Len(inbox[n]) + 1
                     /\ \A k \in DOMAIN Append(inbox[n], r) :
                          Append(inbox[n], r)[k] = IF k = Len(inbox[n]) + 1 THEN r ELSE inbox[n][k]
  BY <1>1 DEF IInv, Queued
<1>7. Queued'
  <2>1. CASE UNCHANGED inbox
    BY <2>1 DEF IInv, Queued
  <2>2. CASE n # Gateway /\ inbox' = [inbox EXCEPT ![n] = Append(@, r)]
    <3> DEFINE q == Append(inbox[n], r)
    <3>1. inbox' \in [Node -> Seq(Sent)]
      BY <1>6, <2>2
    <3>2. ASSUME NEW k \in Nat, k \in DOMAIN q PROVE Parent[q[k].via] = n
      <4>1. CASE k = Len(inbox[n]) + 1
        BY <1>6, <2>2, <4>1
      <4>2. CASE k # Len(inbox[n]) + 1
        <5>1. k \in DOMAIN inbox[n] /\ q[k] = inbox[n][k]
          BY <1>6, <2>2, <3>2, <4>2
        <5> QED
          BY <1>6, <2>2, <5>1 DEF IInv, Queued
      <4> QED
        BY <4>1, <4>2
    <3> HIDE DEF n, q
    <3>3. \A m \in Node : inbox'[m] = IF m = n THEN Append(inbox[n], r) ELSE inbox[m]
      BY <1>6, <2>2
    <3> QED
      BY <3>1, <3>2, <3>3 DEF IInv, Queued, q
  <2> QED
    BY <1>2, <2>1, <2>2
<1>8. ASSUME NEW y \in Place, Carries(y)'
      PROVE  \/ Carries(y) /\ (r.copies = 1 => y # <<"air", r.origin, 0>>)
             \/ r.copies = 1 /\ y = x
  <2>1. CASE y[1] = "air"
    <3>1. PICK s \in air : s # r /\ s.origin = y[2] /\ s.copies = 1
      BY <1>2, <1>8, <2>1 DEF Carries
    <3>2. s.origin # r.origin
      BY <3>1 DEF IInv, Recent
    <3>3. y # <<"air", r.origin, 0>>
      BY <3>1, <3>2
    <3> QED
      BY <2>1, <3>1, <3>3 DEF Carries
  <2>2. CASE y[1] = "in"
    <3>1. y = <<"in", y[2], y[3]>> /\ y[2] \in Node /\ y[3] \in Nat
      BY <2>2 DEF Place
    <3>2. y[3] \in DOMAIN inbox'[y[2]] /\ inbox'[y[2]][y[3]].copies = 1
      BY <1>8, <2>2 DEF Carries
    <3>3. CASE inbox'[y[2]] = inbox[y[2]]
      BY <2>2, <3>2, <3>3 DEF Carries
    <3>4. CASE n # Gateway /\ y[2] = n /\ inbox'[n] = Append(inbox[n], r)
      <4>1. CASE y[3] = Len(inbox[n]) + 1
        BY <1>6, <3>1, <3>2, <3>4, <4>1
      <4>2. CASE y[3] # Len(inbox[n]) + 1
        <5>1. y[3] \in DOMAIN inbox[n] /\ inbox[n][y[3]].copies = 1
          BY <1>6, <3>1, <3>2, <3>4, <4>2
        <5> QED
          BY <2>2, <3>4, <5>1 DEF Carries
      <4> QED
        BY <4>1, <4>2
    <3> QED
      BY <1>2, <1>6, <3>1, <3>3, <3>4
  <2>3. CASE y[1] = "top"
    <3>1. y = <<"top", Gateway, 0>>
      BY <2>3 DEF Place
    <3>2. arrived' = 1
      BY <1>8, <2>3, <3>1 DEF Carries
    <3> QED
      BY <1>1, <1>2, <2>3, <3>1, <3>2 DEF Carries, IInv, Flags
  <2> QED
    BY <2>1, <2>2, <2>3 DEF Place
<1>9. Once' /\ Taken'
  <2> HIDE DEF x
  <2>1. CASE r.copies = 1
    <3>1. Moves(x)
      BY <1>3, <1>8, <2>1 DEF Moves
    <3> QED
      BY <1>2, <1>3, <2>1, <3>1, MoveLemma
  <2>2. CASE r.copies = 0
    <3>1. Stays
      BY <1>8, <2>2 DEF Stays
    <3> QED
      BY <1>2, <3>1, StayLemma DEF IInv
  <2> QED
    BY <1>1, <2>1, <2>2
<1>10. Timers' /\ cache' = [m \in Node |-> {}] /\ air' \subseteq Sent /\ Recent'
  BY <1>2 DEF IInv, Timers, Recent
<1> QED
  BY <1>5, <1>7, <1>9, <1>10 DEF IInv

\* A report is passed on: as it was, from one level further up.
LEMMA PassOnInv ==
  ASSUME IInv, NEW r \in air, PassOn(r)
  PROVE  IInv'
<1> DEFINE p == Parent[r.via]
           s == [r EXCEPT !.via = p]
<1>1. /\ r \in Sent /\ r.via \in Node /\ r.origin \in Node /\ p \in Node
      /\ Limit(r.origin) <= Limit(r.via)
  BY TreeAssumption DEF IInv, Sent, PassOn
<1>2. /\ s.origin = r.origin /\ s.copies = r.copies /\ s.period = r.period /\ s.via = p
      /\ s \in [origin : Node, period : Nat, copies : {0, 1}, via : Node]
  BY <1>1 DEF Sent
<1>3. Limit(r.origin) <= Limit(p)
  <2>1. Limit(r.origin) \in Nat /\ Limit(r.via) \in Nat /\ Limit(p) \in Nat /\ Limit(r.via) < Limit(p)
    BY <1>1, LimitLemma
  <2> QED
    BY <1>1, <2>1
<1>4. s \in Sent
  BY <1>1, <1>2, <1>3 DEF Sent
<1>5. /\ air' = (air \ {r}) \cup {s} /\ lates + 1 <= MaxLates /\ lates' = lates + 1
      /\ UNCHANGED <<left, period, inbox, cache, losses, followed, arrived, missed, crowded>>
  BY DEF PassOn, Late
<1> HIDE DEF s
<1>6. Stays
  BY <1>2, <1>5 DEF Stays, Carries
<1>7. Once' /\ Taken'
  BY <1>5, <1>6, StayLemma DEF IInv
<1>8. Flags'
  BY <1>5, BoundAssumption DEF IInv, Flags
<1>9. Recent'
  BY <1>2, <1>5 DEF IInv, Recent
<1> QED
  BY <1>4, <1>5, <1>7, <1>8, <1>9 DEF IInv, Timers, Queued

LEMMA LoseInv ==
  ASSUME IInv, NEW r \in air, Lose(r)
  PROVE  IInv'
<1>1. /\ air' = air \ {r} /\ losses < MaxLosses /\ losses' = losses + 1
      /\ UNCHANGED <<left, period, inbox, cache, lates, followed, arrived, missed, crowded>>
  BY DEF Lose
<1>2. Stays
  BY <1>1 DEF Stays, Carries
<1>3. Once' /\ Taken'
  BY <1>1, <1>2, StayLemma DEF IInv
<1>4. Flags'
  BY <1>1, BoundAssumption DEF IInv, Flags
<1> QED
  BY <1>1, <1>3, <1>4 DEF IInv, Timers, Queued, Recent

LEMMA StutterInv ==
  ASSUME IInv, UNCHANGED vars
  PROVE  IInv'
<1>1. Stays
  BY DEF Stays, Carries, vars
<1>2. Once' /\ Taken'
  BY <1>1, StayLemma DEF IInv, vars
<1> QED
  BY <1>2 DEF IInv, Timers, Queued, Flags, Recent, vars

LEMMA NextInv == IInv /\ [Next]_vars => IInv'
<1> SUFFICES ASSUME IInv, [Next]_vars PROVE IInv'
  OBVIOUS
<1>1. CASE Tick
  BY <1>1, TickInv
<1>2. ASSUME NEW n \in Node, NEW own \in {0, 1}, NEW k \in 0 .. Len(inbox[n]), Wake(n, k, own)
      PROVE  IInv'
  BY <1>2, WakeInv
<1>3. ASSUME NEW r \in air, Arrive(r) PROVE IInv'
  BY <1>3, ArriveInv
<1>4. ASSUME NEW r \in air, Lose(r) PROVE IInv'
  BY <1>4, LoseInv
<1>6. ASSUME NEW r \in air, PassOn(r) PROVE IInv'
  BY <1>6, PassOnInv
<1>5. CASE UNCHANGED vars
  BY <1>5, StutterInv
<1> QED
  BY <1>1, <1>2, <1>3, <1>4, <1>5, <1>6 DEF Next

LEMMA Invariance == Spec => []IInv
<1>1. Init => IInv
  BY InitInv
<1>2. IInv /\ [Next]_vars => IInv'
  BY NextInv
<1> QED
  BY <1>1, <1>2, PTL DEF Spec

-----------------------------------------------------------------------------
\* Periods, timers and queues keep their types and bounds, but for the length of the queues:
\* the period a node counts up to (update_period, app_sensor.c:229-238) never leaves the bound
\* that the depth of the tree gives it.
LEMMA TypesFollow ==
  ASSUME IInv, \A n \in Node : Len(inbox[n]) <= INBOUND_QUEUE_SIZE
  PROVE  TypeOK
<1>1. ASSUME NEW n \in Node
      PROVE  left[n] \in 0 .. MaxPeriod /\ period[n] \in 1 .. MaxPeriod
  <2>1. left[n] \in Nat /\ period[n] \in Nat /\ left[n] <= Limit(n)
        /\ DEFAULT_PERIOD <= period[n] /\ period[n] <= Limit(n)
    BY LimitLemma, PeriodAssumption DEF IInv, Timers
  <2>2. Limit(n) \in Nat /\ Limit(n) <= MaxPeriod
    BY LimitLemma
  <2> QED
    BY <2>1, <2>2, PeriodAssumption
<1>2. ASSUME NEW r \in Sent PROVE r \in Report
  <2>1. r \in [origin : Node, period : Nat, copies : {0, 1}, via : Node]
        /\ r.origin \in Node /\ r.period \in DEFAULT_PERIOD .. Limit(r.origin)
    BY DEF Sent
  <2>2. r.period \in 1 .. MaxPeriod
    BY <2>1, LimitLemma, PeriodAssumption
  <2> QED
    BY <2>1, <2>2 DEF Report
<1>3. ASSUME NEW n \in Node, NEW k \in DOMAIN inbox[n] PROVE inbox[n][k] \in Report
  <2>1. inbox[n] \in Seq(Sent)
    BY DEF IInv, Queued
  <2> QED
    BY <1>2, <2>1
<1>4. left \in [Node -> 0 .. MaxPeriod] /\ period \in [Node -> 1 .. MaxPeriod]
  BY <1>1 DEF IInv, Timers
<1>5. air \subseteq Report /\ \A n \in Node : cache[n] \subseteq Report
  BY <1>2 DEF IInv
<1>6. arrived \in Nat
  BY DEF IInv, Flags
<1> QED
  BY <1>3, <1>4, <1>5, <1>6 DEF IInv, Flags, TypeOK

LEMMA OnceCounted ==
  ASSUME IInv
  PROVE  CountedOnce
<1> DEFINE Of(x, e) == /\ e.copies = 1 => Carries(x)
                       /\ e.place = IF x[1] = "air" THEN <<"air", x[2]>>
                                    ELSE IF x[1] = "in" THEN <<"queue", x[2], x[3]>>
                                    ELSE <<"gateway">>
                       /\ e = [place |-> e.place, copies |-> e.copies]
                       /\ e.copies \in {0, 1}
<1>1. ASSUME NEW e \in Counts PROVE \E x \in Place : Of(x, e)
  <2>1. ASSUME NEW r \in air, e = [place |-> <<"air", r.origin>>, copies |-> r.copies]
        PROVE  \E x \in Place : Of(x, e)
    <3>1. r.origin \in Node /\ r.copies \in {0, 1}
      BY DEF IInv, Sent
    <3>2. <<"air", r.origin, 0>> \in Place /\ Of(<<"air", r.origin, 0>>, e)
      BY <2>1, <3>1 DEF Place, Carries
    <3> QED
      BY <3>2
  <2>2. ASSUME e = [place |-> <<"gateway">>, copies |-> arrived]
        PROVE  \E x \in Place : Of(x, e)
    <3>1. <<"top", Gateway, 0>> \in Place /\ Of(<<"top", Gateway, 0>>, e)
      BY <2>2 DEF Place, Carries, IInv, Flags
    <3> QED
      BY <3>1
  <2>3. ASSUME NEW n \in Node, NEW k \in DOMAIN inbox[n],
               e = [place |-> <<"queue", n, k>>, copies |-> inbox[n][k].copies]
        PROVE  \E x \in Place : Of(x, e)
    <3>1. k \in Nat /\ inbox[n][k] \in Sent
      BY DEF IInv, Queued
    <3>2. inbox[n][k].copies \in {0, 1}
      BY <3>1 DEF Sent
    <3>3. <<"in", n, k>> \in Place /\ Of(<<"in", n, k>>, e)
      BY <2>3, <3>1, <3>2 DEF Place, Carries
    <3> QED
      BY <3>3
  <2>4. \A n \in Node : cache[n] = {}
    BY DEF IInv
  <2> QED
    BY <2>1, <2>2, <2>3, <2>4 DEF Counts
<1>2. ASSUME NEW e \in Counts, NEW f \in Counts PROVE e.copies <= 1 /\ (e.copies = 1 /\ f.copies = 1 => e = f)
  <2>1. PICK x \in Place : Of(x, e)
    BY <1>1
  <2>2. PICK y \in Place : Of(y, f)
    BY <1>1
  <2>3. e.copies = 1 /\ f.copies = 1 => x = y
    BY <2>1, <2>2 DEF IInv, Once
  <2>4. e.copies = 1 /\ f.copies = 1 => e.place = f.place
    BY <2>1, <2>2, <2>3
  <2>5. e.copies <= 1
    BY <2>1
  <2> QED
    BY <2>1, <2>2, <2>4, <2>5
<1> QED
  BY <1>2 DEF CountedOnce

\* No reading is counted twice in the totals that reach the gateway, whatever is lost and in
\* whatever order nodes wake and reports arrive: process_cache sends what it has and forgets it
\* (app_sensor.c:147-179), and a later report of a child replaces the earlier one (185-202).
THEOREM ReadingCountedOnce == Spec => []CountedOnce
<1>1. IInv => CountedOnce
  BY OnceCounted
<1> QED
  BY <1>1, Invariance, PTL

-----------------------------------------------------------------------------
(***************************************************************************)
(* How many reports of a child can be waiting.                             *)
(***************************************************************************)
LEMMA InitWindow == Init => Window
<1> SUFFICES ASSUME Init PROVE Window
  OBVIOUS
<1>1. \A n \in Node : DOMAIN inbox[n] = {}
  BY DEF Init
<1> QED
  BY <1>1 DEF Window, Direct, OneWaiting, TwoWaiting, NotThree, SameOrigin, Init

LEMMA OriginLemma ==
  ASSUME IInv, NEW n \in Node, NEW i \in DOMAIN inbox[n]
  PROVE  i \in Nat /\ inbox[n][i].origin \in Node
<1>1. inbox[n] \in Seq(Sent)
  BY DEF IInv, Queued
<1>2. i \in Nat /\ inbox[n][i] \in Sent
  BY <1>1
<1>3. inbox[n][i].origin \in Node
  BY <1>2 DEF Sent
<1> QED
  BY <1>2, <1>3 DEF IInv, Queued

LEMMA TickWindow ==
  ASSUME IInv, Window, Tick
  PROVE  Window'
<1>1. \A n \in Node : left[n] \in Nat /\ left'[n] = left[n] - 1
  BY DEF Tick, IInv, Timers
<1>2. \A n, c \in Node : /\ First(n, c) => First(n, c)'
                         /\ Second(n, c) => Second(n, c)'
  BY <1>1, PeriodAssumption DEF First, Second
<1>3. \A n \in Node : \A i \in DOMAIN inbox[n] : inbox[n][i].origin \in Node
  BY OriginLemma
<1>4. air' = {} /\ inbox' = inbox
  BY DEF Tick
<1>5. OneWaiting'
  BY <1>2, <1>3, <1>4 DEF Window, OneWaiting
<1>6. TwoWaiting'
  BY <1>2, <1>3, <1>4 DEF Window, TwoWaiting, SameOrigin
<1>7. NotThree'
  BY <1>4 DEF Window, NotThree, SameOrigin
<1>8. Direct'
  BY <1>4 DEF Window, Direct
<1> QED
  BY <1>5, <1>6, <1>7, <1>8 DEF Window

\* A turn of node c that empties its queue: at its parent one report more is due.
LEMMA WakeWindow ==
  ASSUME IInv, Window, NEW c \in Node, NEW own \in {0, 1}, Wake(c, Len(inbox[c]), own)
  PROVE  Window'
<1>12. Len(inbox[c]) \in 0 .. Len(inbox[c]) /\ inbox[c] \in Seq(Sent)
  BY DEF IInv, Queued
<1>1. PICK r \in Sent : /\ r.origin = c /\ r.via = c /\ air' = air \cup {r}
                        /\ left' = [left EXCEPT ![c] = r.period]
  BY <1>12, WakeSends
<1>2. r.period \in Nat /\ r.period >= DEFAULT_PERIOD
  BY <1>1, PeriodAssumption DEF Sent
<1>3. left[c] = 0 /\ \A n \in Node : left[n] \in Nat
  BY DEF Wake, IInv, Timers
<1>4. \A n \in Node : left'[n] = IF n = c THEN r.period ELSE left[n]
  BY <1>1 DEF IInv, Timers
<1>13. SubSeq(inbox[c], Len(inbox[c]) + 1, Len(inbox[c])) = << >>
  BY <1>12
<1>5. inbox' = [inbox EXCEPT ![c] = << >>] /\ inbox \in [Node -> Seq(Sent)]
  BY <1>13 DEF Wake, IInv, Queued
<1>6. DOMAIN inbox'[c] = {} /\ \A n \in Node \ {c} : inbox'[n] = inbox[n]
  BY <1>5
<1>7. ASSUME NEW n \in Node \ {c}, NEW e \in Node
      PROVE  /\ First(n, e) => First(n, e)'
             /\ Second(n, e) => Second(n, e)' /\ e # c
             /\ First(n, c) => Second(n, c)'
  BY <1>2, <1>3, <1>4, PeriodAssumption DEF First, Second
<1>8. ASSUME NEW n \in Node, NEW i \in Nat, i \in DOMAIN inbox'[n]
      PROVE  /\ n # c /\ i \in DOMAIN inbox[n] /\ inbox'[n][i] = inbox[n][i]
             /\ inbox[n][i].origin \in Node
  <2>1. n # c
    BY <1>6, <1>8
  <2>2. inbox'[n] = inbox[n]
    BY <1>6, <2>1
  <2> QED
    BY <1>8, <2>1, <2>2, OriginLemma
<1>9. OneWaiting'
  <2> SUFFICES ASSUME NEW n \in Node, NEW i \in Nat, i \in DOMAIN inbox'[n]
               PROVE  /\ First(n, inbox[n][i].origin)'
                      /\ \A s \in air' : s.origin = inbox'[n][i].origin => Second(n, s.origin)'
    BY DEF OneWaiting
  <2>1. PICK e \in Node : /\ e = inbox[n][i].origin /\ e = inbox'[n][i].origin
                          /\ n \in Node \ {c} /\ i \in DOMAIN inbox[n]
    BY <1>8
  <2>2. First(n, e) /\ \A s \in air : s.origin = e => Second(n, e)
    BY <2>1 DEF Window, OneWaiting
  <2>3. First(n, e)'
    BY <1>7, <2>1, <2>2
  <2>4. ASSUME NEW s \in air', s.origin = e PROVE Second(n, e)'
    <3>1. CASE s \in air
      BY <1>7, <2>1, <2>2, <2>4, <3>1
    <3>2. CASE s = r
      BY <1>1, <1>7, <2>1, <2>2, <2>4, <3>2
    <3> QED
      BY <1>1, <2>4, <3>1, <3>2
  <2>5. First(n, inbox[n][i].origin)'
    BY <2>1, <2>3 DEF First
  <2> QED
    BY <2>1, <2>4, <2>5
<1>10. TwoWaiting'
  <2> SUFFICES ASSUME NEW n \in Node, NEW i \in Nat, NEW j \in Nat, SameOrigin(n, i, j)', i # j
               PROVE  /\ Second(n, inbox[n][i].origin)'
                      /\ \A s \in air' : s.origin # inbox'[n][i].origin
    BY DEF TwoWaiting
  <2>1. PICK e \in Node : /\ e = inbox[n][i].origin /\ e = inbox'[n][i].origin
                          /\ n \in Node \ {c} /\ SameOrigin(n, i, j)
    BY <1>8 DEF SameOrigin
  <2>2. Second(n, e) /\ \A s \in air : s.origin # e
    BY <2>1 DEF Window, TwoWaiting
  <2>3. Second(n, e)' /\ e # c
    BY <1>7, <2>1, <2>2
  <2>4. Second(n, inbox[n][i].origin)'
    BY <2>1, <2>3 DEF Second
  <2> QED
    BY <1>1, <2>1, <2>2, <2>3, <2>4
<1>11. NotThree'
  <2> SUFFICES ASSUME NEW n \in Node, NEW i \in Nat, NEW j \in Nat, NEW k \in Nat,
                      SameOrigin(n, i, j)', SameOrigin(n, j, k)'
               PROVE  i = j \/ j = k \/ i = k
    BY DEF NotThree
  <2>1. SameOrigin(n, i, j) /\ SameOrigin(n, j, k)
    BY <1>8 DEF SameOrigin
  <2> QED
    BY <2>1 DEF Window, NotThree
<1>14. Direct'
  BY <1>1, <1>8 DEF Window, Direct
<1> QED
  BY <1>9, <1>10, <1>11, <1>14 DEF Window

\* Timers stay, and the queues have no more than before and nothing new is on its way.
LEMMA FewerWindow ==
  ASSUME Window, UNCHANGED <<left, inbox>>, air' \subseteq air
  PROVE  Window'
<1>1. OneWaiting'
  BY DEF Window, OneWaiting, First, Second
<1>2. TwoWaiting'
  BY DEF Window, TwoWaiting, SameOrigin, Second
<1>3. NotThree'
  BY DEF Window, NotThree, SameOrigin
<1>4. Direct'
  BY DEF Window, Direct
<1> QED
  BY <1>1, <1>2, <1>3, <1>4 DEF Window

\* A report goes from the air to the end of a queue: what was asked of it there is
\* what is asked of it now.
LEMMA AppendWindow ==
  ASSUME IInv, Window, Shallow, NEW r \in air, NEW n \in Node, Parent[r.origin] = n,
         air' = air \ {r}, UNCHANGED left,
         inbox' = [inbox EXCEPT ![n] = Append(@, r)]
  PROVE  Window'
<1>1. inbox \in [Node -> Seq(Sent)] /\ r \in Sent /\ r.origin \in Node
  BY DEF IInv, Queued, Sent
<1>2. inbox[n] \in Seq(Sent)
  BY <1>1
<1>3. PICK l \in Nat : l = Len(inbox[n]) + 1
  BY <1>2
<1>4. /\ inbox'[n] = Append(inbox[n], r) /\ \A m \in Node \ {n} : inbox'[m] = inbox[m]
      /\ l \notin DOMAIN inbox[n]
  BY <1>1, <1>2, <1>3
<1>5. \A i \in DOMAIN Append(inbox[n], r) :
        IF i = l THEN Append(inbox[n], r)[i] = r
                 ELSE i \in DOMAIN inbox[n] /\ Append(inbox[n], r)[i] = inbox[n][i]
  BY <1>1, <1>2, <1>3
\* An entry of a queue is an old one, or it is r.
<1>6. ASSUME NEW m \in Node, NEW i \in Nat, i \in DOMAIN inbox'[m]
      PROVE  \/ m = n /\ i = l /\ inbox'[m][i] = r
             \/ ~ (m = n /\ i = l) /\ i \in DOMAIN inbox[m] /\ inbox'[m][i] = inbox[m][i]
  <2>1. CASE m = n
    BY <1>4, <1>5, <1>6, <2>1
  <2>2. CASE m # n
    BY <1>4, <1>6, <2>2
  <2> QED
    BY <2>1, <2>2
<1>7. \A s \in air' : s \in air /\ s.origin # r.origin
  BY DEF IInv, Recent
<1>8. ASSUME NEW e \in Node
      PROVE  /\ \A m \in Node : First(m, e) => First(m, e)'
             /\ \A m \in Node : Second(m, e) => Second(m, e)'
  BY DEF First, Second
\* A parent waits less than two default periods, a node that has just reported at least one.
<1>9. First(n, r.origin)'
  <2>1. /\ left[n] \in Nat /\ left[n] <= Limit(n) /\ left[r.origin] \in Nat
        /\ left[r.origin] >= DEFAULT_PERIOD
    BY <1>1 DEF IInv, Timers, Recent
  <2>2. Limit(n) \in Nat /\ Limit(n) <= MaxPeriod
    BY LimitLemma
  <2> QED
    BY <2>1, <2>2, PeriodAssumption DEF First, Shallow
<1>10. OneWaiting'
  <2> SUFFICES ASSUME NEW m \in Node, NEW i \in Nat, i \in DOMAIN inbox'[m]
               PROVE  /\ First(m, inbox[m][i].origin)'
                      /\ \A s \in air' : s.origin = inbox'[m][i].origin => Second(m, s.origin)'
    BY DEF OneWaiting
  <2>1. CASE m = n /\ i = l /\ inbox'[m][i] = r
    <3>1. First(m, inbox[m][i].origin)'
      BY <1>9, <2>1 DEF First
    <3> QED
      BY <1>7, <2>1, <3>1
  <2>2. CASE i \in DOMAIN inbox[m] /\ inbox'[m][i] = inbox[m][i]
    <3>1. PICK e \in Node : e = inbox[m][i].origin /\ e = inbox'[m][i].origin
      BY <2>2, OriginLemma
    <3>2. First(m, e) /\ \A s \in air : s.origin = e => Second(m, e)
      BY <2>2, <3>1 DEF Window, OneWaiting
    <3>3. First(m, e)' /\ \A s \in air' : s.origin = e => Second(m, e)'
      BY <1>7, <1>8, <3>2
    <3>4. First(m, inbox[m][i].origin)'
      BY <3>1, <3>3 DEF First
    <3> QED
      BY <3>1, <3>3, <3>4
  <2> QED
    BY <1>6, <2>1, <2>2
\* Two entries of one child are old ones, or one of them is r.
<1>11. ASSUME NEW m \in Node, NEW i \in Nat, NEW j \in Nat, SameOrigin(m, i, j)', i # j
       PROVE  \/ SameOrigin(m, i, j) /\ inbox'[m][i] = inbox[m][i] /\ ~ (m = n /\ l \in {i, j})
              \/ /\ m = n /\ l \in {i, j} /\ inbox'[m][i].origin = r.origin
                 /\ \E k \in {i, j} : /\ k # l /\ k \in DOMAIN inbox[n]
                                      /\ inbox[n][k].origin = r.origin
  <2>1. /\ i \in DOMAIN inbox'[m] /\ j \in DOMAIN inbox'[m]
        /\ inbox'[m][i].origin = inbox'[m][j].origin
    BY <1>11 DEF SameOrigin
  <2>2. CASE m = n /\ i = l
    <3>1. inbox'[m][i] = r /\ j \in DOMAIN inbox[m] /\ inbox'[m][j] = inbox[m][j]
      BY <1>6, <1>11, <2>1, <2>2
    <3> QED
      BY <1>11, <2>1, <2>2, <3>1
  <2>3. CASE m = n /\ j = l
    <3>1. inbox'[m][j] = r /\ i \in DOMAIN inbox[m] /\ inbox'[m][i] = inbox[m][i]
      BY <1>6, <1>11, <2>1, <2>3
    <3> QED
      BY <1>11, <2>1, <2>3, <3>1
  <2>4. CASE ~ (m = n /\ l \in {i, j})
    <3>1. /\ i \in DOMAIN inbox[m] /\ inbox'[m][i] = inbox[m][i]
          /\ j \in DOMAIN inbox[m] /\ inbox'[m][j] = inbox[m][j]
      BY <1>6, <2>1, <2>4
    <3> QED
      BY <2>1, <2>4, <3>1 DEF SameOrigin
  <2> QED
    BY <2>2, <2>3, <2>4
<1>12. TwoWaiting'
  <2> SUFFICES ASSUME NEW m \in Node, NEW i \in Nat, NEW j \in Nat, SameOrigin(m, i, j)', i # j
               PROVE  /\ Second(m, inbox[m][i].origin)'
                      /\ \A s \in air' : s.origin # inbox'[m][i].origin
    BY DEF TwoWaiting
  <2>1. CASE SameOrigin(m, i, j) /\ inbox'[m][i] = inbox[m][i]
    <3>1. PICK e \in Node : e = inbox[m][i].origin /\ e = inbox'[m][i].origin
      BY <2>1, OriginLemma DEF SameOrigin
    <3>2. Second(m, e) /\ \A s \in air : s.origin # e
      BY <2>1, <3>1 DEF Window, TwoWaiting
    <3>3. Second(m, inbox[m][i].origin)'
      BY <1>8, <3>1, <3>2 DEF Second
    <3> QED
      BY <1>7, <3>1, <3>2, <3>3
  <2>2. ASSUME m = n, inbox'[m][i].origin = r.origin,
               NEW k \in {i, j}, k \in DOMAIN inbox[n], inbox[n][k].origin = r.origin
        PROVE  /\ Second(m, inbox[m][i].origin)'
               /\ \A s \in air' : s.origin # inbox'[m][i].origin
    <3>1. Second(n, r.origin)
      BY <2>2 DEF Window, OneWaiting
    <3>2. Second(m, inbox[m][i].origin)'
      BY <1>1, <1>8, <2>2, <3>1 DEF Second
    <3> QED
      BY <1>7, <2>2, <3>2
  <2>3. ASSUME m = n /\ l \in {i, j} /\ inbox'[m][i].origin = r.origin,
               \E k \in {i, j} : /\ k # l /\ k \in DOMAIN inbox[n]
                                 /\ inbox[n][k].origin = r.origin
        PROVE  /\ Second(m, inbox[m][i].origin)'
               /\ \A s \in air' : s.origin # inbox'[m][i].origin
    <3>1. PICK k \in {i, j} : k \in DOMAIN inbox[n] /\ inbox[n][k].origin = r.origin
      BY <2>3
    <3> QED
      BY <2>2, <2>3, <3>1
  <2>4. \/ SameOrigin(m, i, j) /\ inbox'[m][i] = inbox[m][i]
        \/ /\ m = n /\ l \in {i, j} /\ inbox'[m][i].origin = r.origin
           /\ \E k \in {i, j} : /\ k # l /\ k \in DOMAIN inbox[n]
                                /\ inbox[n][k].origin = r.origin
    BY <1>11
  <2> QED
    BY <2>1, <2>3, <2>4
<1>13. NotThree'
  <2> SUFFICES ASSUME NEW m \in Node, NEW i \in Nat, NEW j \in Nat, NEW k \in Nat,
                      SameOrigin(m, i, j)', SameOrigin(m, j, k)', i # j, j # k, i # k
               PROVE  FALSE
    BY DEF NotThree
  <2>1. SameOrigin(m, i, k)'
    BY DEF SameOrigin
  <2>2. CASE ~ (m = n /\ l \in {i, j, k})
    <3>1. SameOrigin(m, i, j) /\ SameOrigin(m, j, k)
      BY <1>11, <2>2
    <3> QED
      BY <3>1 DEF Window, NotThree
  <2>3. ASSUME m = n, NEW a \in Nat, NEW b \in Nat, SameOrigin(m, a, b)', a # b, a # l, b # l,
               SameOrigin(m, a, l)'
        PROVE  FALSE
    <3>1. SameOrigin(n, a, b)
      BY <1>11, <2>3
    <3>2. PICK k1 \in {a, l} : k1 # l /\ k1 \in DOMAIN inbox[n] /\ inbox[n][k1].origin = r.origin
      <4>1. l \in {a, l}
        OBVIOUS
      <4>2. ~ (~ (m = n /\ l \in {a, l}))
        BY <2>3, <4>1
      <4>3. \E k1 \in {a, l} : k1 # l /\ k1 \in DOMAIN inbox[n] /\ inbox[n][k1].origin = r.origin
        BY <1>11, <2>3, <4>2
      <4> QED
        BY <4>3
    <3>3. inbox[n][a].origin = r.origin
      BY <3>2
    <3> QED
      BY <3>1, <3>3, <2>3 DEF Window, TwoWaiting
  <2>4. \A a, b \in Nat : SameOrigin(m, a, b)' => SameOrigin(m, b, a)'
    BY DEF SameOrigin
  <2>5. CASE m = n /\ i = l
    <3>1. SameOrigin(m, j, i)'
      BY <2>4
    <3> QED
      BY <2>3, <2>5, <3>1
  <2>6. CASE m = n /\ j = l
    <3>1. SameOrigin(m, i, k)' /\ SameOrigin(m, i, j)'
      BY <2>1
    <3> QED
      BY <2>3, <2>6, <3>1
  <2>7. CASE m = n /\ k = l
    BY <2>1, <2>3, <2>7
  <2> QED
    BY <2>2, <2>5, <2>6, <2>7
<1>14. Direct'
  <2>1. ASSUME NEW m \in Node, NEW i \in Nat, i \in DOMAIN inbox'[m]
        PROVE  Parent[inbox'[m][i].origin] = m
    BY <1>6, <2>1 DEF Window, Direct
  <2> QED
    BY <1>7, <2>1 DEF Window, Direct
<1> QED
  BY <1>10, <1>12, <1>13, <1>14 DEF Window

\* The bounds on the timers hold until a lookup is late.
Timely == lates = 0 => Window

LEMMA NextTimely == Shallow /\ IInv /\ Timely /\ [Next]_vars => Timely'
<1> SUFFICES ASSUME Shallow, IInv, Timely, [Next]_vars, lates' = 0 PROVE Window'
  BY DEF Timely
<1>0. lates \in Nat
  BY BoundAssumption DEF IInv, Flags
<1>1. CASE Tick
  <2>1. Window
    BY <1>1 DEF Tick, Timely
  <2> QED
    BY <1>1, <2>1, TickWindow
<1>2. ASSUME NEW n \in Node, NEW own \in {0, 1}, NEW k \in 0 .. Len(inbox[n]), Wake(n, k, own)
      PROVE  Window'
  <2>1. k = Len(inbox[n]) /\ lates = 0
    BY <1>0, <1>2 DEF Wake, Late
  <2> QED
    BY <1>2, <2>1, WakeWindow DEF Timely
<1>6. ASSUME NEW r \in air, PassOn(r) PROVE FALSE
  BY <1>0, <1>6 DEF PassOn, Late
<1>3. ASSUME NEW r \in air, Arrive(r) PROVE Window'
  <2>0. Window
    BY <1>3 DEF Arrive, Timely
  <2>4. r.via = r.origin
    BY <2>0 DEF Window, Direct
  <2>1. /\ air' = air \ {r} /\ UNCHANGED left
        /\ \/ UNCHANGED inbox
           \/ /\ Parent[r.origin] # Gateway
              /\ inbox' = [inbox EXCEPT ![Parent[r.origin]] = Append(@, r)]
    BY <1>3, <2>4 DEF Arrive
  <2>2. CASE UNCHANGED inbox
    BY <2>0, <2>1, <2>2, FewerWindow
  <2>3. CASE /\ Parent[r.origin] # Gateway
             /\ inbox' = [inbox EXCEPT ![Parent[r.origin]] = Append(@, r)]
    <3>1. Parent[r.origin] \in Node
      BY <2>3, TreeAssumption DEF IInv, Sent
    <3> QED
      BY <2>0, <2>1, <2>3, <3>1, AppendWindow
  <2> QED
    BY <2>1, <2>2, <2>3
<1>4. ASSUME NEW r \in air, Lose(r) PROVE Window'
  BY <1>4, FewerWindow DEF Lose, Timely
<1>5. CASE UNCHANGED vars
  BY <1>5, FewerWindow DEF vars, Timely
<1> QED
  BY <1>1, <1>2, <1>3, <1>4, <1>5, <1>6 DEF Next

\* With a report on its way, the queue it goes to has room: each report is given its
\* child and a first or second slot, and that of r is still free.
LEMMA RoomLemma ==
  ASSUME IInv, Window, Shallow, NEW r \in air, NEW n \in Node, Parent[r.origin] = n
  PROVE  Len(inbox[n]) < INBOUND_QUEUE_SIZE
<1> DEFINE l == Len(inbox[n])
           T == Children(n) \X {1, 2}
           Later(k) == \E j \in Nat : j < k /\ SameOrigin(n, j, k)
           f == [k \in 0 .. l |-> IF k = 0 THEN <<r.origin, 2>>
                                  ELSE <<inbox[n][k].origin, IF Later(k) THEN 2 ELSE 1>>]
<1>1. inbox[n] \in Seq(Sent) /\ r.origin \in Node
  BY DEF IInv, Queued, Sent
<1>2. l \in Nat /\ DOMAIN inbox[n] = 1 .. l
  BY <1>1
<1>3. ASSUME NEW k \in 0 .. l, k # 0
      PROVE  k \in Nat /\ k \in DOMAIN inbox[n] /\ inbox[n][k].origin \in Children(n)
  <2>1. k \in DOMAIN inbox[n]
    BY <1>2, <1>3
  <2>2. k \in Nat /\ inbox[n][k].origin \in Node
    BY <2>1, OriginLemma
  <2> QED
    BY <2>1, <2>2 DEF Children, Window, Direct
<1>4. r.origin \in Children(n)
  BY <1>1 DEF Children
<1>5. f \in [0 .. l -> T]
  BY <1>3, <1>4
<1>6. ASSUME NEW k \in 0 .. l, NEW j \in 0 .. l, k < j, f[k] = f[j] PROVE FALSE
  <2>1. j # 0 /\ j \in Nat /\ k \in Nat
    BY <1>2, <1>6
  <2>2. f[j] = <<inbox[n][j].origin, IF Later(j) THEN 2 ELSE 1>>
    BY <2>1
  <2>3. CASE k = 0
    <3>1. f[k] = <<r.origin, 2>>
      BY <2>3
    <3>2. inbox[n][j].origin = r.origin /\ Later(j)
      BY <1>6, <2>2, <3>1
    <3>3. PICK i \in Nat : i < j /\ SameOrigin(n, i, j)
      BY <3>2
    <3>4. inbox[n][i].origin = r.origin /\ i # j
      BY <2>1, <3>2, <3>3 DEF SameOrigin
    <3> QED
      BY <2>1, <3>3, <3>4 DEF Window, TwoWaiting
  <2>4. CASE k # 0
    <3>1. f[k] = <<inbox[n][k].origin, IF Later(k) THEN 2 ELSE 1>>
      BY <2>4
    <3> HIDE DEF f, Later
    <3>2. inbox[n][k].origin = inbox[n][j].origin /\ (Later(j) => Later(k))
      BY <1>6, <2>2, <3>1
    <3>3. SameOrigin(n, k, j)
      BY <1>3, <2>1, <2>4, <3>2 DEF SameOrigin
    <3>4. Later(j)
      BY <1>6, <2>1, <3>3 DEF Later
    <3>5. PICK i \in Nat : i < k /\ SameOrigin(n, i, k)
      BY <3>2, <3>4 DEF Later
    <3>6. i # k /\ k # j /\ i # j
      BY <1>6, <2>1, <3>5
    <3> QED
      BY <2>1, <3>3, <3>5, <3>6 DEF Window, NotThree
  <2> QED
    BY <2>3, <2>4
<1> HIDE DEF f
<1>7. f \in Injection(0 .. l, T)
  <2>1. ASSUME NEW k \in 0 .. l, NEW j \in 0 .. l, k # j PROVE f[k] # f[j]
    <3>1. k < j \/ j < k
      BY <1>2, <2>1
    <3> QED
      BY <1>6, <3>1
  <2> QED
    BY <1>5, <2>1 DEF Injection, IsInjective
<1>8. IsFiniteSet(Children(n)) /\ IsFiniteSet({1, 2}) /\ Cardinality({1, 2}) = 2
  <2>1. Children(n) \in SUBSET Node
    BY DEF Children
  <2>2. IsFiniteSet(Children(n))
    BY <2>1, TreeAssumption, FS_Subset
  <2>3. IsFiniteSet({1}) /\ Cardinality({1}) = 1 /\ 2 \notin {1} /\ {1} \cup {2} = {1, 2}
    <3>1. IsFiniteSet({1}) /\ Cardinality({1}) = 1
      BY FS_Singleton
    <3>2. 2 \notin {1} /\ {1} \cup {2} = {1, 2}
      OBVIOUS
    <3> QED
      BY <3>1, <3>2
  <2>4. IsFiniteSet({1, 2}) /\ Cardinality({1, 2}) = 1 + 1
    BY <2>3, FS_AddElement
  <2> QED
    BY <2>2, <2>4
<1>9. IsFiniteSet(T) /\ Cardinality(T) = Cardinality(Children(n)) * 2
  BY <1>8, FS_Product
<1>10. Cardinality(0 .. l) <= Cardinality(T)
  <2> HIDE DEF T
  <2> QED
    BY <1>7, <1>9, FS_Injection
<1>11. Cardinality(0 .. l) = l + 1
  BY <1>2, FS_Interval
<1>12. Cardinality(Children(n)) \in Nat
  BY <1>8, FS_CardinalityType
<1>13. 2 * Cardinality(Children(n)) <= INBOUND_QUEUE_SIZE
  BY DEF Shallow
<1> QED
  BY <1>2, <1>9, <1>10, <1>11, <1>12, <1>13, BoundAssumption

\* A queue is never longer than its size.
Bounded == \A n \in Node : Len(inbox[n]) <= INBOUND_QUEUE_SIZE

LEMMA BoundedInv ==
  ASSUME IInv, Bounded, [Next]_vars
  PROVE  Bounded'
<1>1. inbox \in [Node -> Seq(Sent)]
  BY DEF IInv, Queued
<1>2. ASSUME NEW n \in Node, NEW k \in 0 .. Len(inbox[n]),
             inbox' = [inbox EXCEPT ![n] = SubSeq(@, k + 1, Len(@))]
      PROVE  Bounded'
  <2>1. inbox[n] \in Seq(Sent) /\ Len(inbox[n]) <= INBOUND_QUEUE_SIZE
    BY <1>1 DEF Bounded
  <2>2. Len(SubSeq(inbox[n], k + 1, Len(inbox[n]))) <= Len(inbox[n])
        /\ Len(SubSeq(inbox[n], k + 1, Len(inbox[n]))) \in Nat
    BY <2>1
  <2>3. Len(SubSeq(inbox[n], k + 1, Len(inbox[n]))) <= INBOUND_QUEUE_SIZE
    BY <2>1, <2>2, BoundAssumption
  <2> QED
    BY <1>1, <1>2, <2>3 DEF Bounded
<1>3. ASSUME NEW n \in Node, NEW r \in Sent, Len(inbox[n]) < INBOUND_QUEUE_SIZE,
             inbox' = [inbox EXCEPT ![n] = Append(@, r)]
      PROVE  Bounded'
  <2>1. inbox[n] \in Seq(Sent)
    BY <1>1
  <2>2. Len(Append(inbox[n], r)) = Len(inbox[n]) + 1 /\ Len(inbox[n]) \in Nat
    BY <2>1
  <2>3. Len(Append(inbox[n], r)) <= INBOUND_QUEUE_SIZE
    BY <1>3, <2>2, BoundAssumption
  <2> QED
    BY <1>1, <1>3, <2>3 DEF Bounded
<1>4. CASE UNCHANGED inbox
  BY <1>4 DEF Bounded
<1>5. ASSUME NEW n \in Node, NEW own \in {0, 1}, NEW k \in 0 .. Len(inbox[n]), Wake(n, k, own)
      PROVE  Bounded'
  BY <1>2, <1>5 DEF Wake
<1>6. ASSUME NEW r \in air, Arrive(r) PROVE Bounded'
  <2>1. r \in Sent /\ Parent[r.via] \in Node \cup {Gateway}
    BY TreeAssumption DEF IInv, Sent
  <2>2. \/ UNCHANGED inbox
        \/ /\ Parent[r.via] # Gateway /\ Len(inbox[Parent[r.via]]) < INBOUND_QUEUE_SIZE
           /\ inbox' = [inbox EXCEPT ![Parent[r.via]] = Append(@, r)]
    BY <1>6 DEF Arrive
  <2> QED
    BY <1>3, <1>4, <2>1, <2>2
<1>7. ASSUME NEW r \in air, Lose(r) PROVE Bounded'
  BY <1>4, <1>7 DEF Lose
<1>10. ASSUME NEW r \in air, PassOn(r) PROVE Bounded'
  BY <1>4, <1>10 DEF PassOn
<1>8. CASE Tick
  BY <1>4, <1>8 DEF Tick
<1>9. CASE UNCHANGED vars
  BY <1>4, <1>9 DEF vars
<1> QED
  BY <1>5, <1>6, <1>7, <1>8, <1>9, <1>10 DEF Next

\* Timers, periods, queues and reports keep their types: the period of a node, which update_period
\* (app_sensor.c:229-238) takes from those of its children, stays below the bound that the depth
\* of the tree gives it, however the periods of the nodes below change.
THEOREM TypesKept == Spec => []TypeOK
<1>1. Init => Bounded
  <2>1. ASSUME Init, NEW n \in Node PROVE Len(inbox[n]) = 0
    BY <2>1 DEF Init
  <2> QED
    BY <2>1, BoundAssumption DEF Bounded
<1>2. IInv /\ Bounded /\ [Next]_vars => Bounded'
  BY BoundedInv
<1>3. IInv /\ Bounded => TypeOK
  BY TypesFollow DEF Bounded
<1> QED
  BY <1>1, <1>2, <1>3, Invariance, PTL DEF Spec

\* In a tree of up to ten levels, until a lookup is late (find_app, net_layer.c:1070), no report of
\* a child is dropped for want of room in the inbound
\* queue (espnow_recv, net_layer.c:616-630), though nothing but the timers keeps the child from
\* sending more and the queue has no entry to spare: a child that falls back to the default
\* period reports twice in a turn of its parent (app_sensor.c:229-238), and three children of a
\* node (LINK_TABLE_SIZE) fill the six entries of INBOUND_QUEUE_SIZE.
THEOREM QueuesSuffice == Shallow => (Spec => []QueueSuffices)
<1> SUFFICES ASSUME Shallow PROVE Spec => []QueueSuffices
  OBVIOUS
<1>1. Init => Timely
  BY InitWindow DEF Timely
<1>2. IInv /\ Timely /\ [Next]_vars => Timely'
  BY NextTimely
<1>3. Init => QueueSuffices
  BY DEF Init, QueueSuffices
<1>4. ASSUME IInv, Timely, QueueSuffices, [Next]_vars PROVE QueueSuffices'
  <2>1. ASSUME NEW r \in air, Arrive(r), lates = 0 PROVE QueueSuffices'
    <3>0. Window /\ r.via = r.origin
      BY <1>4, <2>1 DEF Timely, Window, Direct
    <3>1. Parent[r.origin] \in Node \cup {Gateway}
      BY <1>4, TreeAssumption DEF IInv, Sent
    <3>2. CASE Parent[r.origin] = Gateway
      BY <1>4, <2>1, <3>0, <3>2 DEF Arrive, QueueSuffices
    <3>3. CASE Parent[r.origin] \in Node
      <4>1. Len(inbox[Parent[r.origin]]) < INBOUND_QUEUE_SIZE
        BY <1>4, <3>0, <3>3, RoomLemma
      <4>2. Len(inbox[Parent[r.origin]]) \in Nat
        BY <1>4, <3>3 DEF IInv, Queued
      <4>3. Len(inbox[Parent[r.origin]]) # INBOUND_QUEUE_SIZE
        BY <4>1, <4>2, BoundAssumption
      <4>4. Parent[r.origin] # Gateway
        BY <3>3, TreeAssumption
      <4> QED
        BY <1>4, <2>1, <3>0, <4>3, <4>4 DEF Arrive, QueueSuffices
    <3> QED
      BY <3>1, <3>2, <3>3
  <2>0. lates \in Nat
    BY <1>4, BoundAssumption DEF IInv, Flags
  <2>2. ASSUME UNCHANGED crowded, lates' = 0 => lates = 0 PROVE QueueSuffices'
    BY <1>4, <2>2 DEF QueueSuffices
  <2>3. ASSUME NEW n \in Node, NEW own \in {0, 1}, NEW k \in 0 .. Len(inbox[n]), Wake(n, k, own)
        PROVE  QueueSuffices'
    BY <2>0, <2>2, <2>3 DEF Wake, Late
  <2>4. CASE \E r \in air : Lose(r)
    BY <2>2, <2>4 DEF Lose
  <2>5. CASE Tick
    BY <2>2, <2>5 DEF Tick
  <2>6. CASE UNCHANGED vars
    BY <2>2, <2>6 DEF vars
  <2>7. CASE \E r \in air : PassOn(r)
    BY <2>0, <2>2, <2>7 DEF PassOn, Late
  <2>8. ASSUME NEW r \in air, Arrive(r), lates # 0 PROVE QueueSuffices'
    BY <2>8 DEF Arrive, QueueSuffices
  <2> QED
    BY <1>4, <2>1, <2>3, <2>4, <2>5, <2>6, <2>7, <2>8 DEF Next
<1> QED
  BY <1>1, <1>2, <1>3, <1>4, Invariance, PTL DEF Spec
=============================================================================
