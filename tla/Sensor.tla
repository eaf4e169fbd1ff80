------------------------------- MODULE Sensor -------------------------------
(***************************************************************************)
(* The sensor application on a tree of linked nodes.  A node wakes when    *)
(* its timer fires, takes the reports of its children from its inbound     *)
(* queue into a cache, sets its period to one second more than the longest *)
(* of theirs, and sends one report up: theirs and a reading of its own.    *)
(*                                                                         *)
(* Time.  Periods are multiples of a second and the time a turn takes is   *)
(* subtracted from the timer, so the clock is Tick, one second.  A report  *)
(* is on its way for milliseconds and arrives, or is lost, before the next *)
(* Tick; the order of what happens within a second is open.  That a node   *)
(* wakes early in one second and late in another stands for the jitter.    *)
(*                                                                         *)
(* Late lookups.  find_app gives up after a tick.  In espnow_recv the      *)
(* report then counts as one for nobody and is passed on up, past the node *)
(* it was for; in net_receive the turn ends with reports left in the queue.*)
(*                                                                         *)
(* Data.  One reading, whichever, is followed: a report says how often it  *)
(* is counted in its totals.  A turn takes no more reports than the queue  *)
(* holds (6), the cache has eight entries: push_cache finds one.           *)
(***************************************************************************)
EXTENDS Integers, Sequences, FiniteSets

CONSTANTS
  Node,            \* node ids
  Parent,          \* Parent[n]: the node linked up-stream, or the Gateway
  Gateway,         \* it takes the reports of the topmost node
  DEFAULT_PERIOD,  \* in seconds (10 in the code)
  MaxPeriod,       \* bound: the depth of the tree keeps periods below it
  INBOUND_QUEUE_SIZE,
  MaxLosses,       \* bound on the reports that are lost on the way
  MaxLates         \* bound on the lookups of the application that are late

ASSUME TreeAssumption ==
  IsFiniteSet(Node) /\ Gateway \notin Node /\ Parent \in [Node -> Node \cup {Gateway}]
ASSUME PeriodAssumption == DEFAULT_PERIOD \in Nat \ {0} /\ MaxPeriod \in Nat
\* The links form a tree, and MaxPeriod allows a second for each of its levels.
ASSUME DepthAssumption ==
  \E h \in [Node -> 0 .. MaxPeriod - DEFAULT_PERIOD] :
    \A n \in Node : Parent[n] # Gateway => h[n] < h[Parent[n]]
ASSUME BoundAssumption  == INBOUND_QUEUE_SIZE \in Nat \ {0} /\ MaxLosses \in Nat /\ MaxLates \in Nat

VARIABLES
  left,      \* left[n]: the seconds until the timer of n fires
  period,    \* period[n]: state.period
  inbox,     \* inbox[n]: the inbound queue
  cache,     \* cache[n]: the used entries of state.cache
  air,       \* the reports on their way
  losses,    \* the number of lost reports
  lates,     \* the number of late lookups
  followed,  \* history: the reading to follow has been taken
  arrived,   \* history: how often the gateway has counted it
  missed,    \* history: the nodes whose last turn had no report of some child
  crowded    \* history: a full inbound queue has dropped a report

vars == <<left, period, inbox, cache, air, losses, lates, followed, arrived, missed, crowded>>

\* A report of origin; via is the node that sent it last, its origin or one above it.
Report == [origin : Node, period : 1 .. MaxPeriod, copies : Nat, via : Node]

Children(n) == {c \in Node : Parent[c] = n}

\* app_sensor_init, at any moment within a period of each other.
Init ==
  /\ left \in [Node -> 1 .. DEFAULT_PERIOD]
  /\ period = [n \in Node |-> DEFAULT_PERIOD]
  /\ inbox = [n \in Node |-> << >>] /\ cache = [n \in Node |-> {}]
  /\ air = {} /\ losses = 0 /\ lates = 0
  /\ followed = FALSE /\ arrived = 0 /\ missed = {} /\ crowded = FALSE

Tick ==
  /\ air = {} /\ \A n \in Node : left[n] > 0
  /\ left' = [n \in Node |-> left[n] - 1]
  /\ UNCHANGED <<period, inbox, cache, air, losses, lates, followed, arrived, missed, crowded>>

-----------------------------------------------------------------------------
(***************************************************************************)
(* One turn of app_sensor_task.                                            *)
(***************************************************************************)

\* push_cache for each report of the queue s: a later report replaces an earlier
\* one of the same origin.
Pushed(c, s) ==
  LET origins == {s[k].origin : k \in DOMAIN s} IN
  {p \in c : p.origin \notin origins}
    \cup {s[k] : k \in {i \in DOMAIN s : \A j \in DOMAIN s : s[j].origin = s[i].origin => j <= i}}

Longest(c) == CHOOSE x \in {0} \cup {p.period : p \in c} : \A p \in c : p.period <= x

\* Faulty variants: as long as the longest, or longer by the default.
PeriodOfLongest(c)   == IF Longest(c) > DEFAULT_PERIOD THEN Longest(c) ELSE DEFAULT_PERIOD
PeriodPlusDefault(c) == Longest(c) + DEFAULT_PERIOD

\* update_period, short of its limit of 65535 tenths of a second.
UpdatedPeriod(c) == IF Longest(c) + 1 > DEFAULT_PERIOD THEN Longest(c) + 1 ELSE DEFAULT_PERIOD

\* process_cache: how often the totals of the reports of c count the reading.
Combined(c) == Cardinality(UNION {{p} \X (1 .. p.copies) : p \in c})

\* Faulty variant: process_cache does not clear the cache.
CacheKept(c) == c

\* process_cache clears the cache at its end.
Cleared(c) == {}

\* A bound: late lookups are counted.
Late(k) == lates + k <= MaxLates /\ lates' = lates + k

\* The turn of node n, which takes the first k reports: all, or as many as
\* net_receive finds the queue for.  `own' is 1 when dht_read succeeds and its
\* reading is the one to follow.
Wake(n, k, own) ==
  LET reports == Pushed(cache[n], SubSeq(inbox[n], 1, k))
      p       == UpdatedPeriod(reports)
  IN
  /\ left[n] = 0 /\ (own = 1 => ~ followed)
  /\ Late(IF k = Len(inbox[n]) THEN 0 ELSE 1)
  /\ followed' = (followed \/ own = 1)
  /\ inbox' = [inbox EXCEPT ![n] = SubSeq(@, k + 1, Len(@))]
  /\ period' = [period EXCEPT ![n] = p]
  /\ left' = [left EXCEPT ![n] = p]
  /\ cache' = [cache EXCEPT ![n] = Cleared(reports)]
  /\ air' = air \cup {[origin |-> n, period |-> p, copies |-> Combined(reports) + own, via |-> n]}
  /\ missed' = IF Children(n) \subseteq {q.origin : q \in reports} THEN missed \ {n} ELSE missed \cup {n}
  /\ UNCHANGED <<losses, arrived, crowded>>

-----------------------------------------------------------------------------
\* A report reaches the next node up; a full inbound queue drops it.
Arrive(r) ==
  LET p == Parent[r.via] IN
  /\ r \in air
  /\ air' = air \ {r}
  /\ IF p = Gateway
     THEN arrived' = arrived + r.copies /\ UNCHANGED <<inbox, crowded>>
     ELSE /\ inbox' = IF Len(inbox[p]) < INBOUND_QUEUE_SIZE
                      THEN [inbox EXCEPT ![p] = Append(@, r)] ELSE inbox
          /\ crowded' = (crowded \/ Len(inbox[p]) = INBOUND_QUEUE_SIZE)
          /\ UNCHANGED arrived
  /\ UNCHANGED <<left, period, cache, losses, lates, followed, missed>>

\* The lookup at the next node up is late: the report is passed on (net_send_up).
PassOn(r) ==
  /\ r \in air /\ Parent[r.via] # Gateway
  /\ Late(1)
  /\ air' = (air \ {r}) \cup {[r EXCEPT !.via = Parent[r.via]]}
  /\ UNCHANGED <<left, period, inbox, cache, losses, followed, arrived, missed, crowded>>

Lose(r) ==
  /\ r \in air /\ losses < MaxLosses
  /\ air' = air \ {r}
  /\ losses' = losses + 1
  /\ UNCHANGED <<left, period, inbox, cache, lates, followed, arrived, missed, crowded>>

Next == \/ Tick
        \/ \E n \in Node, own \in {0, 1} : \E k \in 0 .. Len(inbox[n]) : Wake(n, k, own)
        \/ \E r \in air : Arrive(r) \/ PassOn(r) \/ Lose(r)

Spec == Init /\ [][Next]_vars

\* Time goes on, and so does what is due within a second.
FairSpec == Spec /\ WF_vars(Next)

-----------------------------------------------------------------------------
TypeOK ==
  /\ left \in [Node -> 0 .. MaxPeriod]
  /\ period \in [Node -> 1 .. MaxPeriod]
  /\ \A n \in Node : /\ \A k \in DOMAIN inbox[n] : inbox[n][k] \in Report
                     /\ Len(inbox[n]) <= INBOUND_QUEUE_SIZE
                     /\ cache[n] \subseteq Report
  /\ air \subseteq Report
  /\ losses \in 0 .. MaxLosses /\ lates \in 0 .. MaxLates /\ arrived \in Nat
  /\ followed \in BOOLEAN /\ crowded \in BOOLEAN /\ missed \subseteq Node

\* Where reports are, and how often each counts the reading.
Counts ==
  {[place |-> <<"air", r.origin>>, copies |-> r.copies] : r \in air}
    \cup {[place |-> <<"gateway">>, copies |-> arrived]}
    \cup UNION {{[place |-> <<"queue", n, k>>, copies |-> inbox[n][k].copies] :
                   k \in DOMAIN inbox[n]} : n \in Node}
    \cup UNION {{[place |-> <<"cache", n, p.origin>>, copies |-> p.copies] :
                   p \in cache[n]} : n \in Node}

\* No reading is counted twice in the totals the gateway gets: it never is in two
\* reports at once, nor twice in one, nor still below when it has arrived.
CountedOnce ==
  \A x, y \in Counts : x.copies <= 1 /\ (x.copies = 1 /\ y.copies = 1 => x = y)

\* The inbound queue has room for all that the children of a node can report within
\* a turn, even while periods adapt.  It has no room for what a turn that ended early
\* leaves behind, nor for the reports passed on to it from further below.
QueueSuffices == lates = 0 => ~ crowded

\* When reports are no longer lost and no lookup is late, the periods settle so that no
\* turn of a node misses a report of a child.
NoMissedRound == <>[](missed = {})
=============================================================================
