--------------------------- MODULE Scheduler_proofs ---------------------------
(***************************************************************************)
(* Proofs about Scheduler: the ring stays one ring through every operation.*)
(***************************************************************************)
EXTENDS Scheduler, Sequences, WellFoundedInduction, TLAPS

SchedInv ==
  /\ SchedTypeOK
  /\ OneRing
  /\ current_process = NoProcess <=> scheduler_front = 0

(***************************************************************************)
(* init_scheduler makes an empty ring.                                     *)
(***************************************************************************)
LEMMA InitRing ==
  ASSUME init_scheduler, halted = FALSE
  PROVE  SchedInv
<1>1. scheduler_front = 0 /\ Scheduled = {}
  BY DEF init_scheduler, Scheduled
<1>2. SchedTypeOK
  <2>1. scheduler_front \in Nat /\ Scheduled \subseteq Node /\ halted \in BOOLEAN
    BY <1>1
  <2>2. current_process \in Scheduled \cup {NoProcess}
    BY DEF init_scheduler
  <2>3. /\ next \in [Node -> Node \cup {NoProcess}]
        /\ prev \in [Node -> Node \cup {NoProcess}]
    BY DEF init_scheduler
  <2> QED
    BY <2>1, <2>2, <2>3 DEF SchedTypeOK
<1> DEFINE none == [i \in 1 .. 0 |-> 0]
<1>3. none \in [1 .. scheduler_front -> Scheduled]
  BY <1>1
<1>4. IsRing(none)
  BY <1>1 DEF IsRing
<1> HIDE DEF none
<1> QED
  BY <1>1, <1>2, <1>3, <1>4 DEF SchedInv, OneRing, init_scheduler

(***************************************************************************)
(* The node alloc_process returns lies in the region and is new.           *)
(***************************************************************************)
LEMMA NewNode ==
  ASSUME SchedTypeOK, NEW node, alloc_process(node)
  PROVE  /\ node \in Node
         /\ node = scheduler_front
         /\ node \notin Scheduled
         /\ scheduler_front' = scheduler_front + 1
         /\ Scheduled' = Scheduled \cup {node}
<1>1. /\ node = scheduler_front
      /\ scheduler_front' = scheduler_front + 1
      /\ scheduler_front \in Nat
  BY DEF alloc_process, SchedTypeOK
<1>2. node * NodeSize < scheduler_end
  BY <1>1, RegionAssumption DEF alloc_process, TooManyProcesses, scheduler_end
<1>3. node <= node * NodeSize
  BY <1>1, RegionAssumption
<1>4. scheduler_end \in Nat
  BY RegionAssumption DEF scheduler_end
<1>5. node * NodeSize \in Nat
  BY <1>1, RegionAssumption
<1>6. node \in Node
  BY <1>1, <1>2, <1>3, <1>4, <1>5 DEF Node
<1> QED
  BY <1>1, <1>6 DEF Scheduled

(***************************************************************************)
(* schedule_process inserts the new node at the end of the ring as it is   *)
(* seen from the current one.                                              *)
(***************************************************************************)
Longer(n, ring, node) == [i \in 1 .. n + 1 |-> IF i = n + 1 THEN node ELSE ring[i]]

LEMMA RingGrows ==
  ASSUME SchedInv, NEW node, schedule_process(node),
         NEW n \in Nat, n = scheduler_front,
         NEW ring \in [1 .. n -> Scheduled], IsRing(ring)
  PROVE  /\ Longer(n, ring, node) \in [1 .. scheduler_front' -> Scheduled']
         /\ IsRing(Longer(n, ring, node))'
<1>1. /\ node \in Node
      /\ node = scheduler_front
      /\ node \notin Scheduled
      /\ scheduler_front' = scheduler_front + 1
      /\ Scheduled' = Scheduled \cup {node}
      /\ scheduler_front \in Nat
      /\ Scheduled \subseteq Node
  BY NewNode DEF SchedInv, schedule_process, SchedTypeOK
<1>2. CASE FirstNode(node)
  <2>1. /\ scheduler_front = 0
        /\ Scheduled = {}
        /\ node = 0
    BY <1>1, <1>2 DEF FirstNode, SchedInv, Scheduled
  <2>2. /\ next' = [next EXCEPT ![node] = node]
        /\ prev' = [prev EXCEPT ![node] = node]
        /\ current_process' = node
    BY <1>2 DEF FirstNode
  <2> DEFINE single == Longer(n, ring, node)
  <2>4. single \in [1 .. scheduler_front' -> Scheduled']
    BY <1>1, <2>1 DEF Longer
  <2>5. next'[node] = node /\ prev'[node] = node
    BY <1>1, <2>2 DEF SchedInv, SchedTypeOK
  <2>6. \A i \in 1 .. 1 : i = 1 /\ single[i] = node
    BY <2>1 DEF Longer
  <2> HIDE DEF single
  <2>7. IsRing(single)'
    BY <1>1, <2>1, <2>2, <2>5, <2>6 DEF IsRing, After
  <2> QED
    BY <2>4, <2>7 DEF single
<1>3. CASE Between(node, prev[current_process], current_process)
  <2>1. ring \in [1 .. scheduler_front -> Scheduled] /\ IsRing(ring)
    OBVIOUS
  <2>2. n = scheduler_front /\ n # 0
    BY <1>1, <1>3 DEF Between, SchedInv
  <2>3. /\ ring[1] = current_process
        /\ ring[n] = prev[current_process]
        /\ \A i \in 1 .. n : ring[i] \in Scheduled /\ ring[i] # node
    BY <1>1, <2>1, <2>2 DEF IsRing, After
  <2> DEFINE before == ring[n]
  <2>21. 1 \in 1 .. n /\ n \in 1 .. n
    BY <2>2
  <2>4. /\ next' = [next EXCEPT ![node] = ring[1], ![before] = node]
        /\ prev' = [prev EXCEPT ![node] = before, ![ring[1]] = node]
        /\ current_process' = current_process
    BY <1>3, <2>3 DEF Between
  <2>5. /\ before \in Node /\ before # node /\ before \in Scheduled
        /\ ring[1] \in Node /\ ring[1] # node /\ ring[1] \in Scheduled
    BY <1>1, <2>21, <2>3
  <2> DEFINE longer == Longer(n, ring, node)
  <2>7. longer \in [1 .. scheduler_front' -> Scheduled']
    BY <1>1, <2>1, <2>2 DEF Longer
  <2>8. /\ \A i \in 1 .. n : longer[i] = ring[i]
        /\ longer[n + 1] = node
        /\ longer[1] = ring[1]
    BY <2>2 DEF Longer
  <2>9. IsRing(longer)'
    <3>1. longer[1] = current_process'
      BY <2>3, <2>4, <2>8
    <3>2. \A i, k \in 1 .. n + 1 : longer[i] = longer[k] => i = k
      BY <2>1, <2>2, <2>3, <2>8 DEF IsRing
    <3>3. \A m \in Scheduled' : \E i \in 1 .. n + 1 : longer[i] = m
      <4> TAKE m \in Scheduled'
      <4>1. CASE m = node
        BY <4>1, <2>2, <2>8
      <4>2. CASE m # node
        <5>1. PICK i \in 1 .. n : ring[i] = m
          BY <4>2, <1>1, <2>1, <2>2 DEF IsRing
        <5>2. i \in 1 .. n + 1 /\ longer[i] = m
          BY <5>1, <2>2, <2>8
        <5> QED
          BY <5>2
      <4> QED
        BY <4>1, <4>2
    <3>4. /\ next'[node] = ring[1]
          /\ next'[before] = node
          /\ \A m \in Scheduled \ {before} : next'[m] = next[m]
      BY <1>1, <2>4, <2>5 DEF SchedInv, SchedTypeOK
    <3>5. /\ prev'[node] = before
          /\ prev'[ring[1]] = node
          /\ \A m \in Scheduled \ {ring[1]} : prev'[m] = prev[m]
      BY <1>1, <2>4, <2>5 DEF SchedInv, SchedTypeOK
    <3>6. ASSUME NEW i \in 1 .. n + 1
          PROVE  /\ next'[longer[i]] = longer[After(i)']
                 /\ prev'[longer[After(i)']] = longer[i]
      <4>1. CASE i = n + 1
        <5>1. After(i)' = 1
          BY <4>1, <1>1, <2>2 DEF After
        <5> QED
          BY <5>1, <4>1, <2>8, <3>4, <3>5
      <4>2. CASE i = n
        <5>1. After(i)' = n + 1
          BY <4>2, <1>1, <2>2 DEF After
        <5>2. longer[i] = before /\ longer[n + 1] = node
          BY <4>2, <2>2, <2>8
        <5> QED
          BY <5>1, <5>2, <3>4, <3>5
      <4>3. CASE i \in 1 .. n - 1
        <5>1. After(i)' = i + 1 /\ After(i) = i + 1 /\ i + 1 \in 1 .. n /\ i \in 1 .. n
          BY <4>3, <1>1, <2>2 DEF After
        <5>2. longer[i] = ring[i] /\ longer[i + 1] = ring[i + 1]
          BY <5>1, <2>8
        <5>3. ring[i] # before /\ ring[i + 1] # ring[1]
          BY <5>1, <4>3, <2>1, <2>2 DEF IsRing
        <5>4. next[ring[i]] = ring[i + 1] /\ prev[ring[i + 1]] = ring[i]
          BY <5>1, <2>1, <2>2 DEF IsRing
        <5>5. ring[i] \in Scheduled /\ ring[i + 1] \in Scheduled
          BY <5>1, <2>3
        <5> QED
          BY <5>1, <5>2, <5>3, <5>4, <5>5, <3>4, <3>5
      <4> QED
        BY <4>1, <4>2, <4>3, <2>2
    <3> HIDE DEF longer
    <3> QED
      BY <1>1, <2>2, <3>1, <3>2, <3>3, <3>6 DEF IsRing
  <2> QED
    BY <2>7, <2>9
<1> QED
  BY <1>2, <1>3 DEF schedule_process

LEMMA ScheduleRing ==
  ASSUME SchedInv, NEW node, schedule_process(node), halted' \in BOOLEAN
  PROVE  SchedInv'
<1>1. PICK n \in Nat : n = scheduler_front
  BY DEF SchedInv, SchedTypeOK
<1>2. PICK ring \in [1 .. n -> Scheduled] : IsRing(ring)
  BY <1>1 DEF SchedInv, OneRing
<1>3. OneRing'
  BY <1>1, <1>2, RingGrows DEF OneRing
<1>4. /\ node \in Node
      /\ node \notin Scheduled
      /\ scheduler_front' = scheduler_front + 1
      /\ Scheduled' = Scheduled \cup {node}
      /\ scheduler_front \in Nat
      /\ Scheduled \subseteq Node
  BY NewNode DEF SchedInv, schedule_process, SchedTypeOK
<1>5. CASE FirstNode(node)
  <2>1. SchedTypeOK'
    BY <1>4, <1>5 DEF SchedTypeOK, SchedInv, FirstNode
  <2>2. current_process' # NoProcess /\ scheduler_front' # 0
    BY <1>4, <1>5 DEF FirstNode, Node, NoProcess
  <2> QED
    BY <1>3, <2>1, <2>2 DEF SchedInv
<1>6. CASE Between(node, prev[current_process], current_process)
  <2>1. current_process \in Scheduled /\ n # 0
    BY <1>1, <1>6 DEF Between, SchedInv, SchedTypeOK
  <2>2. 1 \in 1 .. n /\ n \in 1 .. n
    BY <2>1
  <2>3. prev[current_process] = ring[n] /\ ring[n] \in Node
    BY <1>1, <1>2, <1>4, <2>1, <2>2 DEF IsRing, After
  <2>4. SchedTypeOK'
    BY <1>4, <1>6, <2>1, <2>3 DEF SchedTypeOK, SchedInv, Between
  <2>5. current_process' # NoProcess /\ scheduler_front' # 0
    BY <1>4, <1>6 DEF Between
  <2> QED
    BY <1>3, <2>4, <2>5 DEF SchedInv
<1> QED
  BY <1>5, <1>6 DEF schedule_process

(***************************************************************************)
(* scheduler_next_process turns the ring by one.                           *)
(***************************************************************************)
Turned(n, ring) == [i \in 1 .. n |-> ring[IF i = n THEN 1 ELSE i + 1]]

LEMMA RingTurns ==
  ASSUME SchedInv, current_process # NoProcess, scheduler_next_process,
         NEW n \in Nat, n = scheduler_front,
         NEW ring \in [1 .. n -> Scheduled], IsRing(ring)
  PROVE  /\ Turned(n, ring) \in [1 .. scheduler_front' -> Scheduled']
         /\ IsRing(Turned(n, ring))'
         /\ current_process' \in Scheduled
<1>1. ring \in [1 .. scheduler_front -> Scheduled] /\ IsRing(ring)
  OBVIOUS
<1>2. n = scheduler_front /\ n # 0
  BY DEF SchedInv, SchedTypeOK
<1>3. /\ current_process' = next[current_process]
      /\ UNCHANGED <<scheduler_front, next, prev>>
      /\ Scheduled' = Scheduled
  BY DEF scheduler_next_process, Scheduled
<1>4. \A i \in 1 .. n : After(i) \in 1 .. n
  BY <1>2 DEF After
<1> DEFINE turned == Turned(n, ring)
<1>5. turned \in [1 .. scheduler_front' -> Scheduled']
  BY <1>1, <1>2, <1>3 DEF Turned
<1>6. \A i \in 1 .. n : turned[i] = ring[After(i)]
  BY <1>2 DEF After, Turned
<1>7. IsRing(turned)'
  <2>1. turned[1] = current_process'
    BY <1>1, <1>2, <1>3, <1>6 DEF IsRing, After
  <2>2. \A i, k \in 1 .. n : After(i) = After(k) => i = k
    BY <1>2 DEF After
  <2>3. \A i, k \in 1 .. n : turned[i] = turned[k] => i = k
    BY <1>1, <1>2, <1>4, <1>6, <2>2 DEF IsRing
  <2>4. \A m \in Scheduled : \E i \in 1 .. n : turned[i] = m
    <3> TAKE m \in Scheduled
    <3>1. PICK k \in 1 .. n : ring[k] = m
      BY <1>1, <1>2 DEF IsRing
    <3>2. PICK i \in 1 .. n : After(i) = k
      <4>1. CASE k = 1
        BY <4>1, <1>2 DEF After
      <4>2. CASE k # 1
        <5>1. k - 1 \in 1 .. n /\ After(k - 1) = k
          BY <4>2, <1>2 DEF After
        <5> QED
          BY <5>1
      <4> QED
        BY <4>1, <4>2
    <3> QED
      BY <3>1, <3>2, <1>6
  <2>5. \A i \in 1 .. n :
           next[turned[i]] = turned[After(i)] /\ prev[turned[After(i)]] = turned[i]
    BY <1>1, <1>2, <1>4, <1>6 DEF IsRing
  <2>6. \A i : After(i)' = After(i)
    BY <1>3 DEF After
  <2> HIDE DEF turned
  <2> QED
    BY <1>2, <1>3, <2>1, <2>3, <2>4, <2>5, <2>6 DEF IsRing
<1>8. current_process' \in Scheduled
  BY <1>1, <1>2, <1>3, <1>4 DEF IsRing
<1> QED
  BY <1>5, <1>7, <1>8

LEMMA SwitchRing ==
  ASSUME SchedInv, current_process # NoProcess, scheduler_next_process,
         halted' \in BOOLEAN
  PROVE  SchedInv'
<1>1. PICK n \in Nat : n = scheduler_front
  BY DEF SchedInv, SchedTypeOK
<1>2. PICK ring \in [1 .. n -> Scheduled] : IsRing(ring)
  BY <1>1 DEF SchedInv, OneRing
<1>3. OneRing' /\ current_process' \in Scheduled
  BY <1>1, <1>2, RingTurns DEF OneRing
<1>4. UNCHANGED <<scheduler_front, next, prev>> /\ Scheduled' = Scheduled
  BY DEF scheduler_next_process, Scheduled
<1>5. SchedTypeOK'
  BY <1>3, <1>4 DEF SchedInv, SchedTypeOK
<1>6. current_process' # NoProcess /\ scheduler_front' # 0
  BY <1>3, <1>4 DEF SchedInv, NoProcess, Scheduled
<1> QED
  BY <1>3, <1>5, <1>6 DEF SchedInv

(***************************************************************************)
(* Steps of other components leave the ring alone.                         *)
(***************************************************************************)
LEMMA RingUntouched ==
  ASSUME SchedInv, halted' \in BOOLEAN,
         UNCHANGED <<scheduler_front, current_process, next, prev>>
  PROVE  SchedInv'
<1>1. SchedTypeOK'
  BY DEF SchedInv, SchedTypeOK, Scheduled
<1>2. PICK ring \in [1 .. scheduler_front -> Scheduled] : IsRing(ring)
  BY DEF SchedInv, OneRing
<1>3. ring \in [1 .. scheduler_front' -> Scheduled'] /\ IsRing(ring)'
  BY <1>2 DEF IsRing, After, Scheduled
<1> QED
  BY <1>1, <1>3 DEF SchedInv, OneRing

LEMMA SchedInvAlways == SchedSpec => []SchedInv
<1>1. SchedInit => SchedInv
  BY InitRing DEF SchedInit
<1>2. SchedInv /\ [SchedNext]_scheduler_vars => SchedInv'
  <2> SUFFICES ASSUME SchedInv, [SchedNext]_scheduler_vars PROVE SchedInv'
    OBVIOUS
  <2>1. CASE Schedule
    BY <2>1, ScheduleRing DEF Schedule, SchedInv, SchedTypeOK
  <2>2. CASE Switch
    BY <2>2, SwitchRing DEF Switch, SchedInv, SchedTypeOK
  <2>3. CASE Refuse
    BY <2>3, RingUntouched DEF Refuse, kernel_panic
  <2>4. CASE UNCHANGED scheduler_vars
    BY <2>4, RingUntouched DEF scheduler_vars, SchedInv, SchedTypeOK
  <2> QED
    BY <2>1, <2>2, <2>3, <2>4 DEF SchedNext, SchedStopped
<1> QED
  BY <1>1, <1>2, PTL DEF SchedSpec

(***************************************************************************)
(* scheduler.c 20-65: the scheduler's variables keep their types, and no   *)
(* node starts outside the reserved region, for any sizes and PID_MAX.     *)
(***************************************************************************)
THEOREM SchedTypeCorrect == SchedSpec => []SchedTypeOK
<1>1. SchedInv => SchedTypeOK
  BY DEF SchedInv
<1> QED
  BY <1>1, SchedInvAlways, PTL

(***************************************************************************)
(* scheduler.c 46-65: the scheduled processes form one closed doubly       *)
(* linked ring, so switching visits all of them and loses none.            *)
(***************************************************************************)
THEOREM RingIsOne == SchedSpec => []OneRing
<1>1. SchedInv => OneRing
  BY DEF SchedInv
<1> QED
  BY <1>1, SchedInvAlways, PTL

-----------------------------------------------------------------------------
(***************************************************************************)
(* Induction, as a fact about sets of numbers.                             *)
(***************************************************************************)
Less == {pair \in Nat \X Nat : pair[1] < pair[2]}

LEMMA LeastNumber ==
  ASSUME NEW T \in SUBSET Nat, T # {}
  PROVE  \E m \in T : \A k \in T : m <= k
<1>1. IsWellFoundedOn(Less, Nat)
  BY NatLessThanWellFounded DEF OpToRel, Less
<1>2. PICK m \in T : \A k \in T : <<k, m>> \notin Less
  BY <1>1, WFMin
<1>3. \A k \in T : ~(k < m)
  BY <1>2 DEF Less
<1> QED
  BY <1>3

(***************************************************************************)
(* The nodes next leads through are the ring, in its order: RingOrder is   *)
(* defined step by step, and no step leaves the ring.                      *)
(***************************************************************************)
Steps(n, first, link, step) ==
  step = [k \in 0 .. n |-> IF k = 0 THEN first ELSE link[step[k - 1]]]

\* ring is a ring of n nodes from first on, as far as link is concerned.
Linked(n, first, link, ring) ==
  /\ n # 0 => ring[1] = first
  /\ \A k \in 1 .. n : link[ring[k]] = ring[IF k = n THEN 1 ELSE k + 1]

LEMMA StepsExist ==
  ASSUME NEW n \in Nat, NEW first, NEW link, NEW ring, Linked(n, first, link, ring)
  PROVE  \E step : Steps(n, first, link, step)
<1> DEFINE step == [k \in 0 .. n |-> IF k = n THEN first ELSE ring[k + 1]]
<1>1. \A k \in 1 .. n : step[k - 1] = ring[k]
  OBVIOUS
<1>2. \A k \in 1 .. n : step[k] = ring[IF k = n THEN 1 ELSE k + 1]
  BY DEF Linked
<1>3. step[0] = first
  BY DEF Linked
<1>4. \A k \in 0 .. n : step[k] = IF k = 0 THEN first ELSE link[step[k - 1]]
  BY <1>1, <1>2, <1>3 DEF Linked
<1>5. Steps(n, first, link, step)
  BY <1>4 DEF Steps
<1> QED
  BY <1>5

LEMMA StepsFollowRing ==
  ASSUME NEW n \in Nat, NEW first, NEW link, NEW ring, Linked(n, first, link, ring),
         NEW step, Steps(n, first, link, step)
  PROVE  \A k \in 1 .. n : step[k - 1] = ring[k]
<1> DEFINE Astray == {k \in 1 .. n : step[k - 1] # ring[k]}
<1> SUFFICES ASSUME Astray # {} PROVE FALSE
  OBVIOUS
<1>0. Astray \in SUBSET Nat
  OBVIOUS
<1> HIDE DEF Astray
<1>1. PICK m \in Astray : \A k \in Astray : m <= k
  BY <1>0, LeastNumber
<1> USE DEF Astray
<1>2. m # 1
  BY <1>1 DEF Steps, Linked
<1>3. m - 1 \in 1 .. n /\ step[m - 2] = ring[m - 1]
  BY <1>1, <1>2
<1>4. step[m - 1] = link[step[m - 2]]
  BY <1>1, <1>3 DEF Steps
<1>5. link[ring[m - 1]] = ring[m]
  BY <1>1, <1>3 DEF Linked
<1> QED
  BY <1>1, <1>3, <1>4, <1>5

Order(n, first, link) ==
  LET step[k \in 0 .. n] == IF k = 0 THEN first ELSE link[step[k - 1]]
  IN  [k \in 1 .. n |-> step[k - 1]]

LEMMA OrderIsRing ==
  ASSUME NEW n \in Nat, NEW first, NEW link, NEW S, NEW ring \in [1 .. n -> S],
         Linked(n, first, link, ring)
  PROVE  Order(n, first, link) = ring
<1> DEFINE step == CHOOSE s : Steps(n, first, link, s)
<1>1. Steps(n, first, link, step)
  BY StepsExist
<1>2. \A k \in 1 .. n : step[k - 1] = ring[k]
  BY <1>1, StepsFollowRing
<1>3. [k \in 1 .. n |-> step[k - 1]] = ring
  BY <1>2
<1> QED
  BY <1>3 DEF Steps, Order

LEMMA RingOrderIs ==
  ASSUME NEW n \in Nat, n = scheduler_front, NEW S, NEW ring \in [1 .. n -> S],
         Linked(n, current_process, next, ring)
  PROVE  RingOrder = ring
<1>1. PICK c : c = current_process
  OBVIOUS
<1>2. PICK l : l = next
  OBVIOUS
<1>3. Linked(n, c, l, ring)
  BY <1>1, <1>2
<1>4. Order(n, c, l) = ring
  BY <1>3, OrderIsRing
<1> QED
  BY <1>1, <1>2, <1>4 DEF RingOrder, Order

LEMMA RingOrderWillBe ==
  ASSUME NEW n \in Nat, n = scheduler_front', NEW S, NEW ring \in [1 .. n -> S],
         Linked(n, current_process', next', ring)
  PROVE  RingOrder' = ring
<1>1. PICK c : c = current_process'
  OBVIOUS
<1>2. PICK l : l = next'
  OBVIOUS
<1>3. Linked(n, c, l, ring)
  BY <1>1, <1>2
<1>4. Order(n, c, l) = ring
  BY <1>3, OrderIsRing
<1> QED
  BY <1>1, <1>2, <1>4 DEF RingOrder, Order

LEMMA RingLinked ==
  ASSUME NEW n \in Nat, n = scheduler_front, NEW ring, IsRing(ring)
  PROVE  Linked(n, current_process, next, ring)
BY DEF Linked, IsRing, After

LEMMA RingWillBeLinked ==
  ASSUME NEW n \in Nat, n = scheduler_front', NEW ring, IsRing(ring)'
  PROVE  Linked(n, current_process', next', ring)
BY DEF Linked, IsRing, After

LEMMA QueueInit ==
  ASSUME init_scheduler
  PROVE  Queue!Init
<1>1. scheduler_front = 0
  BY DEF init_scheduler
<1> DEFINE none == [i \in 1 .. 0 |-> 0]
<1>2. Linked(0, current_process, next, none) /\ none \in [1 .. 0 -> Nat]
  BY DEF Linked
<1> HIDE DEF none
<1>3. RingOrder = none
  BY <1>1, <1>2, RingOrderIs
<1> QED
  BY <1>3 DEF none, Queue!Init

(***************************************************************************)
(* Scheduling joins the queue, switching rotates it.                       *)
(***************************************************************************)
LEMMA ScheduleJoins ==
  ASSUME SchedInv, NEW node, schedule_process(node)
  PROVE  Queue!Join
<1>1. PICK n \in Nat : n = scheduler_front
  BY DEF SchedInv, SchedTypeOK
<1>2. PICK ring \in [1 .. n -> Scheduled] : IsRing(ring)
  BY <1>1 DEF SchedInv, OneRing
<1>3. /\ node \in Node
      /\ node \notin Scheduled
      /\ scheduler_front' = n + 1
  BY <1>1, NewNode DEF SchedInv, schedule_process
<1> DEFINE longer == Longer(n, ring, node)
<1>4. longer \in [1 .. n + 1 -> Scheduled'] /\ IsRing(longer)'
  BY <1>1, <1>2, <1>3, RingGrows
<1>5. RingOrder = ring
  BY <1>1, <1>2, RingLinked, RingOrderIs
<1>6. RingOrder' = longer
  <2>1. PICK S : S = Scheduled'
    OBVIOUS
  <2>2. n + 1 \in Nat /\ n + 1 = scheduler_front' /\ longer \in [1 .. n + 1 -> S]
    BY <1>3, <1>4, <2>1
  <2> HIDE DEF longer
  <2>3. Linked(n + 1, current_process', next', longer)
    BY <1>4, <2>2, RingWillBeLinked
  <2> QED
    BY <2>2, <2>3, RingOrderWillBe
<1>7. ring \in Seq(Scheduled) /\ Len(ring) = n
  BY <1>2
<1>8. longer = Append(ring, node)
  <2>1. /\ Append(ring, node) \in Seq(Scheduled \cup {node})
        /\ Len(Append(ring, node)) = n + 1
        /\ Append(ring, node)[n + 1] = node
        /\ \A i \in 1 .. n : Append(ring, node)[i] = ring[i]
    BY <1>7
  <2>2. /\ longer \in Seq(Scheduled \cup {node})
        /\ Len(longer) = n + 1
        /\ longer[n + 1] = node
        /\ \A i \in 1 .. n : longer[i] = ring[i]
    BY <1>2 DEF Longer
  <2> HIDE DEF longer
  <2>3. \A i \in 1 .. n + 1 : longer[i] = Append(ring, node)[i]
    BY <2>1, <2>2
  <2> QED
    BY <2>1, <2>2, <2>3
<1>9. node \in Node \ Queue!ToSet(RingOrder)
  BY <1>2, <1>3, <1>5 DEF Queue!ToSet
<1> QED
  BY <1>5, <1>6, <1>8, <1>9 DEF Queue!Join

LEMMA SwitchRotates ==
  ASSUME SchedInv, current_process # NoProcess, scheduler_next_process
  PROVE  Queue!Rotate
<1>1. PICK n \in Nat : n = scheduler_front /\ n # 0
  BY DEF SchedInv, SchedTypeOK
<1>2. PICK ring \in [1 .. n -> Scheduled] : IsRing(ring)
  BY <1>1 DEF SchedInv, OneRing
<1>3. scheduler_front' = n
  BY <1>1 DEF scheduler_next_process
<1> DEFINE turned == Turned(n, ring)
<1>4. turned \in [1 .. n -> Scheduled'] /\ IsRing(turned)'
  BY <1>1, <1>2, <1>3, RingTurns
<1>5. RingOrder = ring
  BY <1>1, <1>2, RingLinked, RingOrderIs
<1>6. RingOrder' = turned
  BY <1>1, <1>3, <1>4, RingWillBeLinked, RingOrderWillBe
<1>7. ring \in Seq(Scheduled) /\ Len(ring) = n
  BY <1>2
<1>8. turned = Append(Tail(ring), Head(ring)) /\ ring # <<>>
  BY <1>1, <1>7 DEF Turned
<1> QED
  BY <1>5, <1>6, <1>8 DEF Queue!Rotate

LEMMA RingStays ==
  ASSUME UNCHANGED <<scheduler_front, current_process, next>>
  PROVE  UNCHANGED RingOrder
BY DEF RingOrder

(***************************************************************************)
(* scheduler.c 20-65: the ring implements the round-robin queue of         *)
(* RoundRobin, however many processes there are and in whatever order they *)
(* are scheduled and switched: every new process waits behind all those    *)
(* that were there, and every switch sends the running one to the tail.    *)
(***************************************************************************)
THEOREM RingIsRoundRobin == SchedSpec => ImplementsRoundRobin
<1>1. SchedInit => Queue!Init
  BY QueueInit DEF SchedInit
<1>2. SchedInv /\ [SchedNext]_scheduler_vars => [Queue!Next]_RingOrder
  <2> SUFFICES ASSUME SchedInv, [SchedNext]_scheduler_vars
               PROVE  Queue!Join \/ Queue!Rotate \/ UNCHANGED RingOrder
    BY DEF Queue!Next
  <2>1. CASE Schedule
    BY <2>1, ScheduleJoins DEF Schedule
  <2>2. CASE Switch
    BY <2>2, SwitchRotates DEF Switch
  <2>3. CASE Refuse
    BY <2>3, RingStays DEF Refuse
  <2>4. CASE UNCHANGED scheduler_vars
    BY <2>4, RingStays DEF scheduler_vars
  <2> QED
    BY <2>1, <2>2, <2>3, <2>4 DEF SchedNext, SchedStopped
<1> QED
  BY <1>1, <1>2, SchedInvAlways, PTL DEF SchedSpec, ImplementsRoundRobin, Queue!Spec

=============================================================================
