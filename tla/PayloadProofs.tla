---------------------------- MODULE PayloadProofs ---------------------------
(***************************************************************************)
(* The list of payloads and the message for a URI: what one allocates,     *)
(* links, hands out and frees, for every number of payloads and nodes, and *)
(* what the other makes of a URI, for every text and every outcome of the  *)
(* random numbers.                                                         *)
(***************************************************************************)
EXTENDS Payload, SipUri, SequenceTheorems, WellFoundedInduction, TLAPS

(* The nodes in the order the walk from current_node meets them.            *)
Follows(order, n) ==
  /\ order \in [1..n -> Node]
  /\ \A j, k \in 1..n : order[j] = order[k] => j = k
  /\ \A a \in Node : a \in Allocated <=> \E k \in 1..n : order[k] = a
  /\ \A k \in 1..n : heap[order[k]].next = IF k = n THEN current_node ELSE order[k + 1]

(* Before cleanup the first of them is current_node itself.                 *)
Whole(order, n) ==
  pc \in {"alloc", "fill", "ready"} => current_node = IF n = 0 THEN Null ELSE order[1]

(* Setup gives them the payloads asked for, the newest node first.          *)
Filled(order, n) ==
  /\ pc \in {"alloc", "fill"} => \A k \in 2..n : heap[order[k]].payload = plinfo[k - 1]
  /\ pc = "alloc" => n = pinfo /\ (n > 0 => heap[current_node].payload = plinfo[n])
  /\ pc = "fill"  => n = pinfo + 1 /\ n <= Len(plinfo)
  /\ pc = "ready" => n = Len(plinfo) /\ n > 0

(* What cleanup still has to free begins with the node it frees next.       *)
Left(order, n) ==
  /\ pc = "free" => node = IF n = 0 THEN Null ELSE order[1]
  /\ pc = "free" /\ n > 0 => current_node = order[1] \/ current_node \notin Allocated
  /\ pc = "gone" => n = 0 /\ current_node = Null

Ring(order, n) == Follows(order, n) /\ Whole(order, n) /\ Filled(order, n) /\ Left(order, n)

Inv == TypeOK /\ ~corrupt /\ \E n \in Nat : \E order \in [1..n -> Node] : Ring(order, n)
-----------------------------------------------------------------------------
Slot == [payload : Content \cup {None}, next : Node]

LEMMA AllocatedIsSlot ==
  ASSUME TypeOK, NEW a \in Allocated
  PROVE  a \in Node /\ heap[a] \in Slot
  BY DEF TypeOK, Allocated, Slot

LEMMA SlotIsAllocated ==
  ASSUME NEW a \in Node, heap[a] \in Slot
  PROVE  a \in Allocated
  BY NoneAssumption DEF Allocated, Slot

LEMMA RingIsAllocated ==
  ASSUME TypeOK, NEW n \in Nat, NEW order, Follows(order, n), NEW k \in 1..n
  PROVE  order[k] \in Allocated /\ order[k] \in Node /\ heap[order[k]] \in Slot
<1>1. order[k] \in Node /\ order[k] \in Allocated
  BY DEF Follows
<1> QED
  BY <1>1, AllocatedIsSlot

LEMMA PayloadAskedFor ==
  ASSUME TypeOK, NEW k \in 1..Len(plinfo)
  PROVE  plinfo[k] \in Content
  BY PlinfosAssumption DEF TypeOK

(* A ring of at least one node has current_node as its first, before cleanup. *)
LEMMA CurrentIsFirst ==
  ASSUME TypeOK, NEW n \in Nat, NEW order, Ring(order, n), pc \in {"alloc", "fill", "ready"}
  PROVE  /\ current_node = Null <=> n = 0
         /\ n > 0 => current_node = order[1] /\ current_node \in Allocated
<1>1. CASE n = 0
  BY <1>1 DEF Ring, Whole
<1>2. CASE n > 0
  <2>1. 1 \in 1..n
    BY <1>2
  <2>2. order[1] \in Allocated /\ order[1] \in Node
    BY <2>1, RingIsAllocated DEF Ring
  <2> QED
    BY <1>2, <2>2, NullAssumption DEF Ring, Whole
<1> QED
  BY <1>1, <1>2
-----------------------------------------------------------------------------
LEMMA InitEstablishesInv == Init => Inv
<1> SUFFICES ASSUME Init PROVE Inv
  OBVIOUS
<1>1. TypeOK
  <2>1. plinfo \in Seq(Content)
    BY PlinfosAssumption DEF Init
  <2>2. 0 \in 0..Len(plinfo)
    BY <2>1
  <2>3. heap \in [Node -> Slot \cup {None}]
    BY DEF Init
  <2> QED
    BY <2>2, <2>3 DEF Init, TypeOK, Slot
<1> DEFINE order == [k \in 1..0 |-> Null]
<1>2. order \in [1..0 -> Node]
  OBVIOUS
<1>3. Allocated = {}
  BY DEF Init, Allocated
<1> HIDE DEF order
<1>4. Ring(order, 0)
  <2>1. Follows(order, 0)
    BY <1>2, <1>3 DEF Follows
  <2>2. Whole(order, 0) /\ Left(order, 0)
    BY DEF Init, Whole, Left
  <2>3. Filled(order, 0)
    BY DEF Init, Filled
  <2> QED
    BY <2>1, <2>2, <2>3 DEF Ring
<1> QED
  BY <1>1, <1>2, <1>4 DEF Inv, Init

(* The new node comes first and the one that was first comes last.          *)
LEMMA AllocKeepsRing ==
  ASSUME TypeOK, TypeOK', Alloc, NEW n \in Nat, NEW order \in [1..n -> Node], Ring(order, n)
  PROVE  \E m \in Nat : \E longer \in [1..m -> Node] : Ring(longer, m)'
<1>1. PICK a \in Node \ Allocated : Link(a) /\ current_node' = a
  BY DEF Alloc
<1>2. pc = "alloc" /\ pc' = "fill" /\ pinfo < Len(plinfo) /\ UNCHANGED <<plinfo, pinfo>>
  BY DEF Alloc
<1>3. n = pinfo /\ current_node = IF n = 0 THEN Null ELSE order[1]
  BY <1>2 DEF Ring, Filled, Whole
<1>4. heap \in [Node -> Slot \cup {None}]
  BY DEF TypeOK, Slot
<1> DEFINE longer == [k \in 1..(n + 1) |->
                        IF k = 1 THEN a ELSE IF k = n + 1 THEN order[1] ELSE order[k]]
<1>5. longer \in [1..(n + 1) -> Node]
  OBVIOUS
<1>6. CASE n = 0
  <2>1. heap' = [heap EXCEPT ![a] = [payload |-> None, next |-> a]]
    BY <1>1, <1>3, <1>6 DEF Link
  <2>2. heap'[a] = [payload |-> None, next |-> a] /\ heap'[a].next = a
    BY <2>1, <1>1, <1>4
  <2>3. heap'[a] \in Slot
    BY <2>2, <1>1 DEF Slot
  <2>4. \A b \in Node : b \in Allocated' <=> b = a
    <3>1. \A b \in Node : b \notin Allocated
      BY <1>6 DEF Ring, Follows
    <3>2. \A b \in Node \ {a} : heap'[b] = None
      BY <3>1, <2>1, <1>4, <1>1 DEF Allocated
    <3>3. heap'[a] # None
      BY <2>3, NoneAssumption DEF Slot
    <3> QED
      BY <3>2, <3>3, <1>1 DEF Allocated
  <2>5. longer[1] = a
    OBVIOUS
  <2> HIDE DEF longer
  <2>6. Follows(longer, n + 1)'
    BY <1>1, <1>5, <1>6, <2>2, <2>4, <2>5 DEF Follows
  <2>7. Whole(longer, n + 1)' /\ Left(longer, n + 1)'
    BY <1>1, <1>2, <1>6, <2>5 DEF Whole, Left
  <2>8. Filled(longer, n + 1)'
    BY <1>2, <1>3, <1>6 DEF Filled, TypeOK
  <2> QED
    BY <1>5, <2>6, <2>7, <2>8 DEF Ring
<1>7. CASE n > 0
  <2> DEFINE c == order[1]
  <2>1. c \in Allocated /\ c \in Node /\ heap[c] \in Slot /\ a # c /\ c # Null
    BY <1>7, <1>1, RingIsAllocated, NullAssumption DEF Ring
  <2>2. /\ current_node = c
        /\ heap' = [heap EXCEPT ![a] = [payload |-> None, next |-> heap[c].next], ![c].next = a]
    <3>1. current_node = c
      BY <1>3, <1>7
    <3> QED
      BY <3>1, <1>1, <2>1 DEF Link
  <2> HIDE DEF c
  <2>3. /\ heap'[a] = [payload |-> None, next |-> heap[c].next]
        /\ heap'[c] = [heap[c] EXCEPT !.next = a]
        /\ \A b \in Node \ {a, c} : heap'[b] = heap[b]
    BY <2>1, <2>2, <1>1, <1>4
  <2>4. heap'[a].next = heap[c].next /\ heap'[c].next = a /\ heap'[a] \in Slot /\ heap'[c] \in Slot
    BY <2>1, <2>3, <1>1 DEF Slot
  <2>5. \A b \in Node : b \in Allocated' <=> b = a \/ b \in Allocated
    <3>1. a \in Allocated' /\ c \in Allocated'
      BY <2>1, <2>4, <1>1, NoneAssumption DEF Allocated, Slot
    <3>2. \A b \in Node \ {a, c} : b \in Allocated' <=> b \in Allocated
      BY <2>3 DEF Allocated
    <3> QED
      BY <3>1, <3>2, <2>1
  <2>6. /\ longer[1] = a
        /\ longer[n + 1] = c
        /\ \A k \in 2..n : longer[k] = order[k]
    BY <1>7 DEF c
  <2> HIDE DEF longer
  <2>7. \A k \in 1..n : order[k] # a /\ order[k] \in Allocated /\ (k # 1 => order[k] # c)
    <3>1. \A k \in 1..n : order[k] \in Allocated
      BY RingIsAllocated DEF Ring
    <3> QED
      BY <3>1, <1>1, <1>7 DEF Ring, Follows, c
  <2>8. Follows(longer, n + 1)'
    <3>1. \A j, k \in 1..(n + 1) : longer[j] = longer[k] => j = k
      <4> SUFFICES ASSUME NEW j \in 1..(n + 1), NEW k \in 1..(n + 1), longer[j] = longer[k]
                   PROVE  j = k
        OBVIOUS
      <4>1. j \in {1, n + 1} \/ j \in 2..n
        OBVIOUS
      <4>2. k \in {1, n + 1} \/ k \in 2..n
        OBVIOUS
      <4> QED
        BY <4>1, <4>2, <2>1, <2>6, <2>7, <1>7 DEF Ring, Follows
    <3>2. ASSUME NEW b \in Node
          PROVE  b \in Allocated' <=> \E k \in 1..(n + 1) : longer[k] = b
      <4>1. ASSUME b \in Allocated' PROVE \E k \in 1..(n + 1) : longer[k] = b
        <5>1. CASE b = a
          BY <5>1, <2>6
        <5>2. CASE b = c
          BY <5>2, <2>6
        <5>3. CASE b # a /\ b # c
          <6>1. PICK k \in 1..n : order[k] = b
            BY <4>1, <5>3, <2>5 DEF Ring, Follows
          <6>2. k \in 2..n
            BY <6>1, <5>3 DEF c
          <6> QED
            BY <6>1, <6>2, <2>6
        <5> QED
          BY <5>1, <5>2, <5>3
      <4>2. ASSUME NEW k \in 1..(n + 1), longer[k] = b PROVE b \in Allocated'
        <5>1. k \in {1, n + 1} \/ k \in 2..n
          OBVIOUS
        <5> QED
          BY <5>1, <4>2, <2>1, <2>5, <2>6, <2>7
      <4> QED
        BY <4>1, <4>2
    <3>3. ASSUME NEW k \in 1..(n + 1)
          PROVE  heap'[longer[k]].next = IF k = n + 1 THEN a ELSE longer[k + 1]
      <4>1. heap[c].next = IF n = 1 THEN c ELSE order[2]
        BY <1>7, <2>2 DEF Ring, Follows, c
      <4>2. CASE k = 1
        BY <4>1, <4>2, <2>4, <2>6, <1>7
      <4>3. CASE k = n + 1
        BY <4>3, <2>4, <2>6
      <4>4. CASE k \in 2..n
        <5>1. longer[k] = order[k] /\ heap'[order[k]] = heap[order[k]]
          BY <4>4, <2>3, <2>6, <2>7
        <5>2. heap[order[k]].next = IF k = n THEN c ELSE order[k + 1]
          BY <4>4, <2>2 DEF Ring, Follows
        <5>3. longer[k + 1] = IF k = n THEN c ELSE order[k + 1]
          BY <4>4, <2>6
        <5> QED
          BY <5>1, <5>2, <5>3, <4>4
      <4> QED
        BY <4>2, <4>3, <4>4
    <3> QED
      BY <3>1, <3>2, <3>3, <1>1, <1>5 DEF Follows
  <2>9. Whole(longer, n + 1)' /\ Left(longer, n + 1)'
    BY <1>1, <1>2, <1>7, <2>6 DEF Whole, Left
  <2>10. Filled(longer, n + 1)'
    <3>1. ASSUME NEW k \in 2..(n + 1) PROVE heap'[longer[k]].payload = plinfo[k - 1]
      <4>1. CASE k = n + 1
        <5>1. heap[c].payload = plinfo[n]
          BY <1>2, <1>7, <2>2 DEF Ring, Filled
        <5>2. heap'[c].payload = heap[c].payload
          BY <2>1, <2>3 DEF Slot
        <5> QED
          BY <4>1, <5>1, <5>2, <2>6
      <4>2. CASE k \in 2..n
        <5>1. longer[k] = order[k] /\ heap'[order[k]] = heap[order[k]]
          BY <4>2, <2>3, <2>6, <2>7
        <5> QED
          BY <4>2, <5>1, <1>2 DEF Ring, Filled
      <4> QED
        BY <4>1, <4>2
    <3> QED
      BY <3>1, <1>2, <1>3 DEF Filled, TypeOK
  <2> QED
    BY <1>5, <2>8, <2>9, <2>10 DEF Ring
<1> QED
  BY <1>6, <1>7

(* The cursor moves on by one node: the first becomes the last.             *)
Turned(order, n) == [k \in 1..n |-> IF k = n THEN order[1] ELSE order[k + 1]]

LEMMA TurnKeepsOrder ==
  ASSUME TypeOK, NEW n \in Nat, NEW order \in [1..n -> Node], Follows(order, n),
         n > 0, current_node = order[1],
         current_node' = heap[current_node].next, UNCHANGED heap
  PROVE  /\ Turned(order, n) \in [1..n -> Node]
         /\ Follows(Turned(order, n), n)'
         /\ current_node' = Turned(order, n)[1]
<1> DEFINE turned == Turned(order, n)
<1>1. turned \in [1..n -> Node]
  BY DEF Turned
<1>2. \A k \in 1..n : turned[k] = IF k = n THEN order[1] ELSE order[k + 1]
  BY DEF Turned
<1> HIDE DEF turned
<1>3. current_node' = turned[1]
  BY <1>2 DEF Follows
<1>4. \A j, k \in 1..n : turned[j] = turned[k] => j = k
  <2> SUFFICES ASSUME NEW j \in 1..n, NEW k \in 1..n, turned[j] = turned[k] PROVE j = k
    OBVIOUS
  <2> DEFINE at(i) == IF i = n THEN 1 ELSE i + 1
  <2>1. at(j) \in 1..n /\ at(k) \in 1..n /\ order[at(j)] = order[at(k)]
    BY <1>2
  <2>2. at(j) = at(k)
    BY <2>1, Zenon DEF Follows
  <2> QED
    BY <2>2
<1>5. ASSUME NEW b \in Node PROVE b \in Allocated' <=> \E k \in 1..n : turned[k] = b
  <2>1. b \in Allocated' <=> \E k \in 1..n : order[k] = b
    BY DEF Follows, Allocated
  <2>2. ASSUME NEW k \in 1..n PROVE \E i \in 1..n : turned[i] = order[k]
    <3> DEFINE i == IF k = 1 THEN n ELSE k - 1
    <3>1. i \in 1..n /\ turned[i] = order[k]
      BY <1>2
    <3> QED
      BY <3>1
  <2>3. ASSUME NEW k \in 1..n PROVE \E i \in 1..n : order[i] = turned[k]
    BY <1>2
  <2> QED
    BY <2>1, <2>2, <2>3
<1>6. ASSUME NEW k \in 1..n
      PROVE  heap'[turned[k]].next = IF k = n THEN current_node' ELSE turned[k + 1]
  <2>1. CASE k = n
    BY <1>2, <2>1
  <2>2. CASE k # n
    <3>1. turned[k] = order[k + 1] /\ k + 1 \in 1..n
      BY <1>2, <2>2
    <3>2. heap[order[k + 1]].next = IF k + 1 = n THEN current_node ELSE order[k + 2]
      BY <3>1 DEF Follows
    <3>3. turned[k + 1] = IF k + 1 = n THEN order[1] ELSE order[k + 2]
      BY <1>2, <3>1
    <3> QED
      BY <2>2, <3>1, <3>2, <3>3
  <2> QED
    BY <2>1, <2>2
<1>7. Follows(turned, n)'
  BY <1>1, <1>4, <1>5, <1>6 DEF Follows
<1> QED
  BY <1>1, <1>3, <1>7 DEF turned

LEMMA StartCleanupKeepsRing ==
  ASSUME TypeOK, StartCleanup, pc \in {"alloc", "fill", "ready"}, UNCHANGED <<heap, current_node>>,
         NEW n \in Nat, NEW order \in [1..n -> Node], Ring(order, n)
  PROVE  Ring(order, n)'
<1>1. Follows(order, n)'
  BY DEF Ring, Follows, Allocated
<1>2. node' = IF n = 0 THEN Null ELSE order[1]
  BY DEF Ring, Whole, StartCleanup
<1>3. n > 0 => current_node' = order[1]
  BY DEF Ring, Whole
<1>4. pc' = "free"
  BY DEF StartCleanup
<1> QED
  BY <1>1, <1>2, <1>3, <1>4 DEF Ring, Whole, Filled, Left

LEMMA FillKeepsRing ==
  ASSUME TypeOK, Fill, NEW n \in Nat, NEW order \in [1..n -> Node], Ring(order, n)
  PROVE  Ring(order, n)'
<1>1. /\ pc = "fill" /\ pc' = "alloc" /\ pinfo' = pinfo + 1
      /\ heap' = [heap EXCEPT ![current_node].payload = plinfo[pinfo + 1]]
      /\ UNCHANGED <<plinfo, current_node, node>>
  BY DEF Fill
<1>2. n = pinfo + 1 /\ n > 0 /\ 1 \in 1..n
  BY <1>1 DEF Ring, Filled, TypeOK
<1>3. current_node = order[1] /\ current_node \in Allocated /\ current_node \in Node
  BY <1>1, <1>2, CurrentIsFirst DEF Allocated
<1>4. heap \in [Node -> Slot \cup {None}] /\ heap[current_node] \in Slot
  BY <1>3, AllocatedIsSlot DEF TypeOK, Slot
<1> DEFINE c == current_node
<1>5. /\ heap'[c] = [heap[c] EXCEPT !.payload = plinfo[pinfo + 1]]
      /\ \A b \in Node \ {c} : heap'[b] = heap[b]
  BY <1>1, <1>3, <1>4
<1>6. heap'[c].next = heap[c].next /\ heap'[c].payload = plinfo[n]
  BY <1>2, <1>4, <1>5 DEF Slot
<1>7. heap'[c] # None
  <2>1. plinfo[n] \in Content
    BY <1>1, <1>2, PayloadAskedFor DEF Ring, Filled
  <2>2. heap'[c] \in Slot
    BY <1>2, <1>4, <1>5, <2>1 DEF Slot
  <2> QED
    BY <2>2, NoneAssumption DEF Slot
<1> HIDE DEF c
<1>8. \A b \in Node : b \in Allocated' <=> b \in Allocated
  BY <1>3, <1>5, <1>7 DEF Allocated, c
<1>9. \A b \in Node : b \in Allocated => heap'[b].next = heap[b].next
  BY <1>5, <1>6
<1>10. \A k \in 1..n : order[k] \in Allocated /\ order[k] \in Node /\ (k # 1 => order[k] # c)
  <2>1. \A k \in 1..n : order[k] \in Allocated /\ order[k] \in Node
    BY RingIsAllocated DEF Ring
  <2> QED
    BY <2>1, <1>2, <1>3 DEF Ring, Follows, c
<1>11. Follows(order, n)'
  BY <1>1, <1>8, <1>9, <1>10 DEF Ring, Follows
<1>12. Whole(order, n)' /\ Left(order, n)'
  BY <1>1, <1>2, <1>3 DEF Whole, Left
<1>13. Filled(order, n)'
  <2>1. ASSUME NEW k \in 2..n PROVE heap'[order[k]].payload = plinfo[k - 1]
    <3>1. heap'[order[k]] = heap[order[k]]
      BY <1>5, <1>10
    <3> QED
      BY <3>1, <1>1 DEF Ring, Filled
  <2> QED
    BY <2>1, <1>1, <1>2, <1>6 DEF Filled, c
<1> QED
  BY <1>11, <1>12, <1>13 DEF Ring

LEMMA SetupDoneKeepsRing ==
  ASSUME TypeOK, SetupDone, NEW n \in Nat, NEW order \in [1..n -> Node], Ring(order, n)
  PROVE  \E m \in Nat : \E next \in [1..m -> Node] : Ring(next, m)'
<1>1. pc = "alloc" /\ pinfo = Len(plinfo) /\ n = pinfo /\ UNCHANGED <<plinfo, heap>>
  BY DEF SetupDone, Ring, Filled
<1>2. CASE current_node = Null
  <2>1. Ring(order, n)'
    BY <1>1, <1>2, StartCleanupKeepsRing DEF SetupDone
  <2> QED
    BY <2>1
<1>3. CASE current_node # Null
  <2>1. pc' = "ready" /\ current_node' = heap[current_node].next
    BY <1>3 DEF SetupDone
  <2>2. n > 0 /\ current_node = order[1]
    BY <1>1, <1>3, CurrentIsFirst
  <2>3. /\ Turned(order, n) \in [1..n -> Node]
        /\ Follows(Turned(order, n), n)'
        /\ current_node' = Turned(order, n)[1]
    BY <1>1, <2>1, <2>2, TurnKeepsOrder DEF Ring
  <2>4. Whole(Turned(order, n), n)' /\ Filled(Turned(order, n), n)' /\ Left(Turned(order, n), n)'
    BY <1>1, <2>1, <2>2, <2>3 DEF Whole, Filled, Left
  <2> QED
    BY <2>3, <2>4 DEF Ring
<1> QED
  BY <1>2, <1>3

LEMMA GetKeepsRing ==
  ASSUME TypeOK, Get, NEW n \in Nat, NEW order \in [1..n -> Node], Ring(order, n)
  PROVE  /\ Turned(order, n) \in [1..n -> Node]
         /\ Ring(Turned(order, n), n)'
<1>1. pc = "ready" /\ UNCHANGED <<plinfo, heap, pc>> /\ current_node' = heap[current_node].next
  BY DEF Get
<1>2. n > 0 /\ n = Len(plinfo) /\ current_node = order[1]
  BY <1>1, CurrentIsFirst DEF Ring, Filled
<1>3. /\ Turned(order, n) \in [1..n -> Node]
      /\ Follows(Turned(order, n), n)'
      /\ current_node' = Turned(order, n)[1]
  BY <1>1, <1>2, TurnKeepsOrder DEF Ring
<1>4. Whole(Turned(order, n), n)' /\ Filled(Turned(order, n), n)' /\ Left(Turned(order, n), n)'
  BY <1>1, <1>2, <1>3 DEF Whole, Filled, Left
<1> QED
  BY <1>3, <1>4 DEF Ring

(* Cleanup frees the first node and goes on with the next of those left.    *)
LEMMA FreeKeepsRing ==
  ASSUME TypeOK, Free, NEW n \in Nat, NEW order \in [1..n -> Node], Ring(order, n)
  PROVE  /\ node \in Allocated
         /\ \E m \in Nat : \E rest \in [1..m -> Node] : Ring(rest, m)'
<1>1. /\ pc = "free" /\ node # Null
      /\ heap' = [heap EXCEPT ![node] = None]
      /\ IF Next_node = current_node THEN node' = Null ELSE node' = Next_node
      /\ UNCHANGED <<plinfo, current_node, pc, pinfo>>
  BY DEF Free
<1>2. n > 0 /\ node = order[1] /\ 1 \in 1..n
  BY <1>1 DEF Ring, Left
<1>3. node \in Allocated /\ node \in Node
  BY <1>2, RingIsAllocated DEF Ring
<1>4. Next_node = IF n = 1 THEN current_node ELSE order[2]
  BY <1>2, <1>3 DEF Next_node, Ring, Follows
<1> DEFINE m == n - 1
           rest == [k \in 1..m |-> order[k + 1]]
<1>5. m \in Nat /\ rest \in [1..m -> Node] /\ \A k \in 1..m : rest[k] = order[k + 1] /\ k + 1 \in 1..n
  BY <1>2
<1>6. \A b \in Node : heap'[b] = IF b = node THEN None ELSE heap[b]
  BY <1>1, <1>3 DEF TypeOK
<1>7. \A b \in Node : b \in Allocated' <=> b \in Allocated /\ b # node
  BY <1>6 DEF Allocated
<1>8. \A k \in 1..n : k # 1 => order[k] # node
  BY <1>2 DEF Ring, Follows
<1> HIDE DEF m, rest
<1>9. Follows(rest, m)'
  <2>1. \A j, k \in 1..m : rest[j] = rest[k] => j = k
    <3> SUFFICES ASSUME NEW j \in 1..m, NEW k \in 1..m, rest[j] = rest[k] PROVE j = k
      OBVIOUS
    <3>1. order[j + 1] = order[k + 1] /\ j + 1 \in 1..n /\ k + 1 \in 1..n
      BY <1>5
    <3>2. j + 1 = k + 1
      BY <3>1 DEF Ring, Follows
    <3> QED
      BY <3>2, <1>5
  <2>2. ASSUME NEW b \in Node PROVE b \in Allocated' <=> \E k \in 1..m : rest[k] = b
    <3>1. ASSUME b \in Allocated' PROVE \E k \in 1..m : rest[k] = b
      <4>1. PICK k \in 1..n : order[k] = b
        BY <1>7, <3>1 DEF Ring, Follows
      <4>2. k # 1
        BY <1>2, <1>7, <3>1, <4>1
      <4>3. k - 1 \in 1..m /\ rest[k - 1] = b
        BY <4>1, <4>2, <1>5 DEF m
      <4> QED
        BY <4>3
    <3>2. ASSUME NEW k \in 1..m, rest[k] = b PROVE b \in Allocated'
      <4>1. order[k + 1] = b /\ k + 1 \in 1..n /\ k + 1 # 1
        BY <1>5, <3>2
      <4> QED
        BY <4>1, <1>7, <1>8 DEF Ring, Follows
    <3> QED
      BY <3>1, <3>2
  <2>3. ASSUME NEW k \in 1..m
        PROVE  heap'[rest[k]].next = IF k = m THEN current_node' ELSE rest[k + 1]
    <3>1. rest[k] = order[k + 1] /\ k + 1 \in 1..n /\ k + 1 # 1 /\ order[k + 1] \in Node
      BY <1>5
    <3>2. heap'[rest[k]] = heap[order[k + 1]]
      BY <3>1, <1>6, <1>8
    <3>3. heap[order[k + 1]].next = IF k + 1 = n THEN current_node ELSE order[k + 2]
      BY <3>1 DEF Ring, Follows
    <3>4. k # m => rest[k + 1] = order[k + 2]
      BY <1>5
    <3> QED
      BY <3>2, <3>3, <3>4, <1>1 DEF m
  <2> QED
    BY <2>1, <2>2, <2>3, <1>5 DEF Follows
<1>10. Left(rest, m)'
  <2>1. CASE m = 0
    <3>1. node' = Null
      BY <1>1, <1>4, <2>1 DEF m
    <3> QED
      BY <1>1, <2>1, <3>1 DEF Left
  <2>2. CASE m > 0
    <3>1. order[2] # current_node /\ rest[1] = order[2]
      <4>1. 2 \in 1..n /\ order[2] \in Allocated /\ rest[1] = order[2]
        BY <2>2, <1>5, RingIsAllocated DEF Ring, m
      <4>2. current_node = order[1] \/ current_node \notin Allocated
        BY <1>1, <1>2 DEF Ring, Left
      <4> QED
        BY <4>1, <4>2, <1>8, <1>2
    <3>2. node' = rest[1]
      BY <1>1, <1>4, <2>2, <3>1 DEF m
    <3>3. current_node' \notin Allocated'
      <4>1. current_node = node \/ current_node \notin Allocated
        BY <1>1, <1>2 DEF Ring, Left
      <4>2. Allocated' \subseteq Node
        BY DEF Allocated
      <4> QED
        BY <4>1, <4>2, <1>1, <1>7
    <3> QED
      BY <1>1, <2>2, <3>2, <3>3 DEF Left
  <2> QED
    BY <2>1, <2>2, <1>5
<1>11. Whole(rest, m)' /\ Filled(rest, m)'
  BY <1>1 DEF Whole, Filled
<1> QED
  BY <1>3, <1>5, <1>9, <1>10, <1>11 DEF Ring

-----------------------------------------------------------------------------
LEMMA CurrentIsSlot ==
  ASSUME Inv, pc \in {"alloc", "fill", "ready"}, current_node # Null
  PROVE  current_node \in Node /\ current_node \in Allocated /\ heap[current_node] \in Slot
<1>1. PICK n \in Nat : \E order \in [1..n -> Node] : Ring(order, n)
  BY DEF Inv
<1>2. PICK order \in [1..n -> Node] : Ring(order, n)
  BY <1>1
<1>3. current_node \in Allocated
  BY <1>2, CurrentIsFirst DEF Inv
<1> QED
  BY <1>3, AllocatedIsSlot DEF Inv

(* Where setup fills a node and where the handler reads one, there is one.  *)
LEMMA CurrentExists ==
  ASSUME Inv, pc \in {"fill", "ready"}
  PROVE  current_node # Null
<1>1. PICK n \in Nat : \E order \in [1..n -> Node] : Ring(order, n)
  BY DEF Inv
<1>2. PICK order \in [1..n -> Node] : Ring(order, n)
  BY <1>1
<1>3. n > 0
  BY <1>2 DEF Ring, Filled, Inv, TypeOK
<1> QED
  BY <1>2, <1>3, CurrentIsFirst DEF Inv

LEMMA TypeKept == Inv /\ [Next]_vars => TypeOK'
<1> SUFFICES ASSUME Inv, [Next]_vars PROVE TypeOK'
  OBVIOUS
<1> USE DEF Inv
<1>t. plinfo \in Seq(Content) /\ Len(plinfo) \in Nat
  BY PlinfosAssumption DEF TypeOK
<1>h. heap \in [Node -> Slot \cup {None}]
  BY DEF TypeOK, Slot
<1>1. CASE Alloc
  <2>1. PICK a \in Node \ Allocated : Link(a) /\ current_node' = a
    BY <1>1 DEF Alloc
  <2>2. CASE current_node = Null
    <3>1. heap' \in [Node -> Slot \cup {None}]
      BY <2>1, <2>2, <1>h DEF Link, Slot
    <3> QED
      BY <1>1, <2>1, <3>1 DEF Alloc, TypeOK, Slot
  <2>3. CASE current_node # Null
    <3>1. current_node \in Node /\ heap[current_node] \in Slot
      BY <2>3, <1>1, CurrentIsSlot DEF Alloc
    <3> DEFINE fresh == [payload |-> None, next |-> heap[current_node].next]
    <3>2. fresh \in Slot /\ [heap[current_node] EXCEPT !.next = a] \in Slot /\ [fresh EXCEPT !.next = a] \in Slot
      BY <3>1, <2>1 DEF Slot
    <3>3. heap' = [heap EXCEPT ![a] = fresh, ![current_node].next = a]
      BY <2>1, <2>3 DEF Link
    <3>4. \A b \in Node : heap'[b] \in Slot \cup {None}
      <4> HIDE DEF fresh
      <4> QED
        BY <3>1, <3>2, <3>3, <1>h, <2>1
    <3>5. heap' \in [Node -> Slot \cup {None}]
      BY <3>3, <3>4, <1>h
    <3> QED
      BY <1>1, <2>1, <3>5 DEF Alloc, TypeOK, Slot
  <2> QED
    BY <2>2, <2>3
<1>2. CASE AllocFails
  BY <1>2 DEF AllocFails, StartCleanup, TypeOK
<1>3. CASE Fill
  <2>1. current_node \in Node /\ heap[current_node] \in Slot
    BY <1>3, CurrentIsSlot, CurrentExists DEF Fill
  <2>2. pinfo + 1 \in 1..Len(plinfo)
    <3>1. PICK n \in Nat : \E order \in [1..n -> Node] : Ring(order, n)
      OBVIOUS
    <3>2. n = pinfo + 1 /\ n <= Len(plinfo)
      BY <3>1, <1>3 DEF Fill, Ring, Filled
    <3> QED
      BY <3>2, <1>t DEF TypeOK
  <2>3. [heap[current_node] EXCEPT !.payload = plinfo[pinfo + 1]] \in Slot
    BY <2>1, <2>2, PayloadAskedFor DEF Slot
  <2>4. heap' \in [Node -> Slot \cup {None}]
    BY <1>3, <2>1, <2>3, <1>h DEF Fill
  <2>5. pinfo' \in 0..Len(plinfo)
    BY <1>3, <2>2, <1>t DEF Fill, TypeOK
  <2> QED
    BY <1>3, <2>4, <2>5 DEF Fill, TypeOK, Slot
<1>4. CASE FillFails
  BY <1>4 DEF FillFails, StartCleanup, TypeOK
<1>5. CASE SetupDone
  <2>1. CASE current_node = Null
    BY <1>5, <2>1 DEF SetupDone, StartCleanup, TypeOK
  <2>2. CASE current_node # Null
    <3>1. heap[current_node] \in Slot
      BY <1>5, <2>2, CurrentIsSlot DEF SetupDone
    <3> QED
      BY <1>5, <2>2, <3>1 DEF SetupDone, TypeOK, Slot
  <2> QED
    BY <2>1, <2>2
<1>6. CASE Get
  <2>1. heap[current_node] \in Slot
    BY <1>6, CurrentIsSlot, CurrentExists DEF Get
  <2> QED
    BY <1>6, <2>1 DEF Get, TypeOK, Slot
<1>7. CASE Cleanup
  BY <1>7 DEF Cleanup, StartCleanup, TypeOK
<1>8. CASE Free
  <2>1. Next_node \in Node \cup {Null}
    BY AllocatedIsSlot DEF Next_node, Slot
  <2>2. heap' \in [Node -> Slot \cup {None}]
    BY <1>8, <1>h DEF Free
  <2>3. corrupt' \in BOOLEAN
    BY <1>8 DEF Free, TypeOK
  <2> QED
    BY <1>8, <2>1, <2>2, <2>3 DEF Free, TypeOK, Slot
<1>9. CASE Freed
  BY <1>9 DEF Freed, TypeOK
<1>10. CASE UNCHANGED vars
  BY <1>10 DEF vars, TypeOK
<1> QED
  BY <1>1, <1>2, <1>3, <1>4, <1>5, <1>6, <1>7, <1>8, <1>9, <1>10 DEF Next

LEMMA NextKeepsInv == Inv /\ [Next]_vars => Inv'
<1> SUFFICES ASSUME Inv, [Next]_vars PROVE Inv'
  OBVIOUS
<1>1. PICK n \in Nat : \E order \in [1..n -> Node] : Ring(order, n)
  BY DEF Inv
<1>2. PICK order \in [1..n -> Node] : Ring(order, n)
  BY <1>1
<1>3. TypeOK /\ TypeOK' /\ ~corrupt
  BY TypeKept DEF Inv
<1> DEFINE Ringed == \E m \in Nat : \E next \in [1..m -> Node] : Ring(next, m)'
<1> SUFFICES Ringed /\ ~corrupt'
  BY <1>3 DEF Inv
<1>4. CASE Alloc
  <2>1. Ringed
    BY <1>2, <1>3, <1>4, AllocKeepsRing
  <2> QED
    BY <2>1, <1>3, <1>4 DEF Alloc
<1>5. CASE AllocFails \/ FillFails \/ Cleanup
  <2>1. StartCleanup /\ pc \in {"alloc", "fill", "ready"} /\ UNCHANGED <<heap, current_node, corrupt>>
    BY <1>5 DEF AllocFails, FillFails, Cleanup
  <2>2. Ring(order, n)'
    BY <1>2, <1>3, <2>1, StartCleanupKeepsRing
  <2> QED
    BY <2>1, <2>2, <1>3
<1>6. CASE Fill
  <2>1. Ring(order, n)'
    BY <1>2, <1>3, <1>6, FillKeepsRing
  <2> QED
    BY <2>1, <1>3, <1>6 DEF Fill
<1>7. CASE SetupDone
  <2>1. Ringed
    BY <1>2, <1>3, <1>7, SetupDoneKeepsRing
  <2> QED
    BY <2>1, <1>3, <1>7 DEF SetupDone
<1>8. CASE Get
  <2>1. Turned(order, n) \in [1..n -> Node] /\ Ring(Turned(order, n), n)'
    BY <1>2, <1>3, <1>8, GetKeepsRing
  <2> QED
    BY <2>1, <1>3, <1>8 DEF Get
<1>9. CASE Free
  <2>1. node \in Allocated /\ Ringed
    BY <1>2, <1>3, <1>9, FreeKeepsRing
  <2> QED
    BY <2>1, <1>3, <1>9 DEF Free
<1>10. CASE Freed
  <2>1. n = 0
    <3>1. n > 0 => order[1] \in Node
      BY <1>2
    <3> QED
      BY <3>1, <1>2, <1>10, NullAssumption DEF Freed, Ring, Left
  <2>2. /\ UNCHANGED <<heap, corrupt>> /\ current_node' = Null /\ pc' = "gone"
    BY <1>10 DEF Freed
  <2>3. Follows(order, n)'
    BY <1>2, <2>1, <2>2 DEF Ring, Follows, Allocated
  <2>4. Whole(order, n)' /\ Filled(order, n)' /\ Left(order, n)'
    BY <2>1, <2>2 DEF Whole, Filled, Left
  <2> QED
    BY <2>2, <2>3, <2>4, <1>3 DEF Ring
<1>11. CASE UNCHANGED vars
  <2>1. Ring(order, n)'
    BY <1>2, <1>11 DEF vars, Ring, Follows, Whole, Filled, Left, Allocated
  <2> QED
    BY <2>1, <1>3, <1>11 DEF vars
<1> QED
  BY <1>4, <1>5, <1>6, <1>7, <1>8, <1>9, <1>10, <1>11 DEF Next

LEMMA InvAlways == Spec => []Inv
  BY InitEstablishesInv, NextKeepsInv, PTL DEF Spec

(* However many payloads are asked for, whichever allocation or payload     *)
(* fails and wherever the cursor stands when the daemon ends, cleanup frees *)
(* every node once, uses none after that, and leaves none                   *)
(* (payload.c:351-372).                                                     *)
THEOREM FreesOnce == Spec => []FreesEachNodeOnce
<1>1. Inv => FreesEachNodeOnce
  <2> SUFFICES ASSUME Inv, pc = "gone" PROVE Allocated = {} /\ current_node = Null
    BY DEF Inv, FreesEachNodeOnce
  <2>1. PICK n \in Nat : \E order \in [1..n -> Node] : Ring(order, n)
    BY DEF Inv
  <2>2. PICK order \in [1..n -> Node] : Ring(order, n)
    BY <2>1
  <2>3. n = 0 /\ current_node = Null
    BY <2>2 DEF Ring, Left
  <2>4. 1..n = {}
    BY <2>3
  <2>5. \A a \in Node : a \notin Allocated
    BY <2>2, <2>4, Zenon DEF Ring, Follows
  <2> QED
    BY <2>3, <2>5 DEF Allocated
<1> QED
  BY <1>1, InvAlways, PTL
-----------------------------------------------------------------------------
(* A set of natural numbers that is not empty has a least element.          *)
LEMMA LeastNatural ==
  ASSUME NEW T \in SUBSET Nat, T # {}
  PROVE  \E n \in T : \A m \in T : n <= m
<1> DEFINE less == OpToRel(<, Nat)
<1>1. IsWellFoundedOn(less, Nat)
  BY NatLessThanWellFounded
<1>2. ASSUME NEW a \in Nat, NEW b \in Nat, a < b PROVE <<a, b>> \in less
  <2>1. <<a, b>> \in Nat \X Nat /\ <<a, b>>[1] < <<a, b>>[2]
    BY <1>2
  <2>2. less = {ss \in Nat \X Nat : ss[1] < ss[2]}
    BY Zenon DEF OpToRel
  <2> QED
    BY <2>1, <2>2, Zenon
<1> HIDE DEF less
<1>3. PICK n \in T : \A m \in T : ~ (<<m, n>> \in less)
  BY <1>1, WFMin
<1>4. ASSUME NEW m \in T PROVE n <= m
  <2>1. m \in Nat /\ n \in Nat
    OBVIOUS
  <2>2. ~ (m < n)
    BY <1>2, <1>3, <2>1
  <2> QED
    BY <2>1, <2>2
<1> QED
  BY <1>4

(* What the walk along the circle reads, node by node, is the order of it.  *)
CircleIsOrder ==
  \A order \in [1..Len(plinfo) -> Node] :
    /\ Len(plinfo) > 0
    /\ Follows(order, Len(plinfo))
    /\ current_node = order[1]
    => Circle = [k \in 1..Len(plinfo) |-> heap[order[k]].payload]

LEMMA CircleInOrder == Len(plinfo) \in Nat => CircleIsOrder
<1> SUFFICES ASSUME NEW n \in Nat, n = Len(plinfo), n > 0, NEW order \in [1..n -> Node],
                    Follows(order, n), current_node = order[1]
             PROVE  Circle = [k \in 1..n |-> heap[order[k]].payload]
  BY DEF CircleIsOrder
<1> DEFINE step(g) == [k \in 1..Len(plinfo) |-> IF k = 1 THEN current_node ELSE heap[g[k - 1]].next]
           walk == CHOOSE g : g = step(g)
<1>1. order = step(order)
  <2>1. \A k \in 1..n : order[k] = IF k = 1 THEN current_node ELSE heap[order[k - 1]].next
    BY DEF Follows
  <2> QED
    BY <2>1
<1>2. walk = step(walk)
  BY <1>1
<1>3. Circle = [k \in 1..Len(plinfo) |-> heap[walk[k]].payload]
  BY DEF Circle
<1> HIDE DEF walk
<1>4. \A k \in 1..n : walk[k] = IF k = 1 THEN current_node ELSE heap[walk[k - 1]].next
  BY <1>2
<1>5. \A k \in 1..n : order[k] = IF k = 1 THEN current_node ELSE heap[order[k - 1]].next
  BY <1>1
<1>6. \A k \in 1..n : walk[k] = order[k]
  <2> DEFINE T == {k \in 1..n : walk[k] # order[k]}
  <2> SUFFICES ASSUME T # {} PROVE FALSE
    OBVIOUS
  <2>1. T \in SUBSET Nat
    OBVIOUS
  <2>2. PICK k \in T : \A m \in T : k <= m
    <3> HIDE DEF T
    <3> QED
      BY <2>1, LeastNatural
  <2>3. k \in 1..n /\ walk[k] # order[k] /\ k # 1
    BY <1>4, <1>5
  <2>4. k - 1 \in 1..n /\ walk[k - 1] = order[k - 1]
    BY <2>2, <2>3
  <2> QED
    BY <2>3, <2>4, <1>4, <1>5
<1> QED
  BY <1>3, <1>6

(* While the handler runs, th_payload_get hands out the payloads in the     *)
(* order of the command line, over and over, beginning with the first, for  *)
(* every list of payloads (payload.c:306-313, :347, :387-389).              *)
THEOREM TakeTurns == Spec => PayloadsTakeTurns
<1> DEFINE turns == IF pc = "ready" THEN Circle ELSE << >>
<1>1. Init => Turns!Init
  BY DEF Init, Turns!Init
<1>c. (Len(plinfo) \in Nat)' => CircleIsOrder'
  BY CircleInOrder, PTL
<1>2. Inv /\ Inv' /\ [Next]_vars => [Turns!Next]_<<plinfo, turns, out>>
  <2> SUFFICES ASSUME Inv, Inv', [Next]_vars
               PROVE  Turns!Next \/ UNCHANGED <<plinfo, turns, out>>
    OBVIOUS
  <2>i. PICK n \in Nat : \E order \in [1..n -> Node] : Ring(order, n)
    BY DEF Inv
  <2>o. PICK order \in [1..n -> Node] : Ring(order, n)
    BY <2>i
  <2>1. ASSUME pc # "ready", pc' # "ready", UNCHANGED <<plinfo, out>>
        PROVE  UNCHANGED <<plinfo, turns, out>>
    BY <2>1
  <2>2. CASE Alloc \/ AllocFails \/ Fill \/ FillFails \/ Free \/ Freed
    BY <2>1, <2>2 DEF Alloc, AllocFails, Fill, FillFails, Free, Freed, StartCleanup
  <2>3. CASE SetupDone
    <3>1. pc = "alloc" /\ pinfo = Len(plinfo) /\ n = pinfo /\ UNCHANGED <<plinfo, heap, out>>
      BY <2>3, <2>o DEF SetupDone, Ring, Filled
    <3>2. CASE current_node = Null
      BY <2>1, <2>3, <3>1, <3>2 DEF SetupDone, StartCleanup
    <3>3. CASE current_node # Null
      <4>1. pc' = "ready" /\ current_node' = heap[current_node].next
        BY <2>3, <3>3 DEF SetupDone
      <4>2. n > 0 /\ current_node = order[1]
        BY <2>o, <3>1, <3>3, CurrentIsFirst DEF Inv
      <4> DEFINE turned == Turned(order, n)
      <4>3. turned \in [1..n -> Node] /\ Follows(turned, n)' /\ current_node' = turned[1]
        BY <2>o, <3>1, <4>1, <4>2, TurnKeepsOrder DEF Inv, Ring
      <4>4. \A k \in 1..n : turned[k] = IF k = n THEN order[1] ELSE order[k + 1]
        BY DEF Turned
      <4> HIDE DEF turned
      <4>5. Circle' = [k \in 1..n |-> heap'[turned[k]].payload]
        BY <3>1, <4>2, <4>3, <1>c DEF CircleIsOrder
      <4>6. \A k \in 1..n : heap[turned[k]].payload = plinfo[k]
        BY <2>o, <3>1, <4>2, <4>4 DEF Ring, Filled
      <4>7. Circle' = plinfo
        <5>1. plinfo \in Seq(Content)
          BY PlinfosAssumption DEF Inv, TypeOK
        <5>2. plinfo = [k \in 1..n |-> plinfo[k]]
          BY <3>1, <5>1
        <5> QED
          BY <3>1, <4>5, <4>6, <5>2
      <4> QED
        BY <3>1, <4>1, <4>7 DEF Turns!Next, Turns!Ready
    <3> QED
      BY <3>2, <3>3
  <2>4. CASE Get
    <3>1. /\ pc = "ready" /\ UNCHANGED <<plinfo, heap, pc>>
          /\ out' = heap[current_node].payload /\ current_node' = heap[current_node].next
      BY <2>4 DEF Get
    <3>2. n > 0 /\ n = Len(plinfo) /\ current_node = order[1]
      BY <2>o, <3>1, CurrentIsFirst DEF Inv, Ring, Filled
    <3>3. Circle = [k \in 1..n |-> heap[order[k]].payload]
      BY <2>o, <3>2, CircleInOrder DEF CircleIsOrder, Ring
    <3> DEFINE turned == Turned(order, n)
    <3>4. turned \in [1..n -> Node] /\ Follows(turned, n)' /\ current_node' = turned[1]
      BY <2>o, <3>1, <3>2, TurnKeepsOrder DEF Inv, Ring
    <3>5. \A k \in 1..n : turned[k] = IF k = n THEN order[1] ELSE order[k + 1]
      BY DEF Turned
    <3> HIDE DEF turned
    <3>6. Circle' = [k \in 1..n |-> heap'[turned[k]].payload]
      BY <3>1, <3>2, <3>4, <1>c DEF CircleIsOrder
    <3> DEFINE c == Circle
    <3>7. c \in Seq(Content \cup {None}) /\ Len(c) = n
      <4>1. \A k \in 1..n : heap[order[k]].payload \in Content \cup {None}
        BY <2>o, RingIsAllocated DEF Inv, Ring, Slot
      <4> QED
        BY <3>3, <4>1
    <3>8. \A k \in 1..n : c[k] = heap[order[k]].payload
      BY <3>3
    <3> HIDE DEF c
    <3>9. Append(Tail(c), Head(c)) = [k \in 1..n |-> IF k = n THEN c[1] ELSE c[k + 1]]
      <4> DEFINE t == Tail(c)
      <4>1. t \in Seq(Content \cup {None}) /\ Len(t) = n - 1 /\ Head(c) = c[1]
            /\ \A k \in 1..(n - 1) : t[k] = c[k + 1]
        BY <3>2, <3>7
      <4>2. Head(c) \in Content \cup {None}
        BY <3>2, <3>7
      <4> HIDE DEF t
      <4> DEFINE a == Append(t, Head(c))
      <4>3. a \in Seq(Content \cup {None}) /\ Len(a) = n
            /\ \A k \in 1..n : a[k] = IF k = n THEN Head(c) ELSE t[k]
        BY <3>2, <4>1, <4>2
      <4>4. a = [k \in 1..n |-> a[k]]
        <5>1. a \in [1..Len(a) -> Content \cup {None}]
          BY <4>3, LenProperties
        <5> QED
          BY <4>3, <5>1
      <4> HIDE DEF a
      <4>5. \A k \in 1..n : a[k] = IF k = n THEN c[1] ELSE c[k + 1]
        BY <4>1, <4>3
      <4>6. a = [k \in 1..n |-> IF k = n THEN c[1] ELSE c[k + 1]]
        BY <4>4, <4>5
      <4> QED
        BY <4>6 DEF a, t
    <3>10. Circle' = Append(Tail(c), Head(c)) /\ out' = Head(c) /\ c # << >>
      <4>1. Circle' = [k \in 1..n |-> IF k = n THEN c[1] ELSE c[k + 1]]
        BY <3>1, <3>2, <3>5, <3>6, <3>8
      <4>2. out' = Head(c) /\ c # << >>
        BY <3>1, <3>2, <3>7, <3>8
      <4> QED
        BY <3>9, <4>1, <4>2
    <3> QED
      BY <3>1, <3>10 DEF Turns!Next, Turns!Get, c
  <2>5. CASE Cleanup
    BY <2>5 DEF Cleanup, StartCleanup, Turns!Next, Turns!Cleanup
  <2>6. CASE UNCHANGED vars
    <3>1. UNCHANGED Circle
      BY <2>6 DEF vars, Circle
    <3> QED
      BY <2>6, <3>1 DEF vars
  <2> QED
    BY <2>2, <2>3, <2>4, <2>5, <2>6 DEF Next
<1> QED
  BY <1>1, <1>2, InvAlways, PTL DEF Spec, PayloadsTakeTurns, Turns!Spec
-----------------------------------------------------------------------------
Sized == bytes \in Nat

LEMMA SizeIsNat == \A c \in Piece : Size[c] \in Nat
  BY LongAssumption DEF Size

LEMMA SizedAlways == UriSpec => []Sized
<1>1. NoUri => Sized
  BY DEF NoUri, Sized
<1>2. Sized /\ [Typed]_uvars => Sized'
  <2> SUFFICES ASSUME Sized, [Typed]_uvars PROVE Sized'
    OBVIOUS
  <2>1. ASSUME NEW c \in Piece, Type(c) PROVE Sized'
    BY <2>1, SizeIsNat DEF Sized, Type
  <2>2. CASE UNCHANGED uvars
    BY <2>2 DEF Sized, uvars
  <2> QED BY <2>1, <2>2 DEF Typed
<1> QED BY <1>1, <1>2, PTL DEF UriSpec

(* The body is at most 390 bytes, so its length takes at most three digits.  *)
LEMMA SdpFits ==
  ASSUME NEW ims \in BOOLEAN, NEW d \in Draw
  PROVE  SdpLength(ims, d) \in 0..390 /\ Decimal(SdpLength(ims, d)) \in 1..3
<1>1. d.local \in 10..15 /\ d.session \in 2..20
  BY DEF Draw
<1>2. SdpLength(ims, d) \in 0..390
  BY <1>1 DEF SdpLength
<1> QED BY <1>2 DEF Decimal

LEMMA MessageFits ==
  ASSUME bytes \in 0..SIP_URI_MAXLEN, NEW ims \in BOOLEAN, NEW d \in Draw
  PROVE  InviteLength(ims, d) < BUFFLEN
<1>1. d.local \in 10..15 /\ d.dialog \in 3..48
  BY DEF Draw
<1> DEFINE sdp == SdpLength(ims, d)
           digits == Decimal(SdpLength(ims, d))
<1>2. sdp \in 0..390 /\ digits \in 1..3
  BY SdpFits
<1>3. InviteLength(ims, d) =
        205 + 2 * bytes + (bytes - 4) + 4 * d.local + d.dialog + (IF ims THEN 131 ELSE 0) + digits + sdp
  BY DEF InviteLength
<1>4. bytes \in Nat /\ bytes <= 120
  BY DEF SIP_URI_MAXLEN
<1> HIDE DEF sdp, digits
<1>5. 2 * bytes + (bytes - 4) <= 356 /\ 4 * d.local <= 60
  BY <1>1, <1>4
<1>6. (IF ims THEN 131 ELSE 0) \in 0..131
  OBVIOUS
<1> QED BY <1>1, <1>2, <1>3, <1>4, <1>5, <1>6 DEF BUFFLEN

(* Every URI the daemon accepts fits into its message, whatever the random   *)
(* numbers are: setup never fails on some starts and not on others           *)
(* (payload.c:33-34, :186-193, :226-238).                                    *)
THEOREM InviteFits == UriSpec => []AcceptedUriFits
<1>1. Sized => AcceptedUriFits
  <2> SUFFICES ASSUME Sized, Accepted, NEW d \in Draws, NEW ims \in BOOLEAN
               PROVE  InviteLength(ims, d) < BUFFLEN
    BY DEF AcceptedUriFits
  <2>1. bytes \in 0..SIP_URI_MAXLEN
    BY DEF Sized, Accepted, SIP_URI_MAXLEN
  <2> QED BY <2>1, DrawsAssumption, MessageFits
<1> QED BY <1>1, SizedAlways, PTL
-----------------------------------------------------------------------------
LEMMA TextAlways == UriSpec => [](text \in Seq(Piece))
<1>1. NoUri => text \in Seq(Piece)
  BY DEF NoUri
<1>2. text \in Seq(Piece) /\ [Typed]_uvars => (text \in Seq(Piece))'
  BY DEF Typed, Type, uvars
<1> QED
  BY <1>1, <1>2, PTL DEF UriSpec

LEMMA FirstIs ==
  ASSUME NEW s, NEW i, NEW end, NEW cs, NEW k \in i..end,
         k = end \/ s[k] \in cs, \A j \in i..(k - 1) : s[j] \notin cs
  PROVE  First(s, i, end, cs) = k
<1> DEFINE Is(m) == (m = end \/ s[m] \in cs) /\ \A j \in i..(m - 1) : s[j] \notin cs
<1>1. \A m \in i..end : Is(m) => m = k
  <2> SUFFICES ASSUME NEW m \in i..end, Is(m), m # k PROVE FALSE
    OBVIOUS
  <2>1. CASE m < k
    <3>1. m \in i..(k - 1) /\ m # end
      BY <2>1
    <3> QED
      BY <3>1
  <2>2. CASE k < m
    <3>1. k \in i..(m - 1) /\ k # end
      BY <2>2
    <3> QED
      BY <3>1
  <2> QED
    BY <2>1, <2>2
<1>2. Is(k)
  OBVIOUS
<1>3. First(s, i, end, cs) = CHOOSE m \in i..end : Is(m)
  BY DEF First
<1> HIDE DEF Is
<1> QED
  BY <1>1, <1>2, <1>3

(* The last name of a host, without its trailing dot.                       *)
Undotted(h) == IF h # <<>> /\ h[Len(h)] = "." THEN SubSeq(h, 1, Len(h) - 1) ELSE h
Ims(h) == h = <<Observed>> \/ EndsIn(h, Suffix)

(* strpbrk and memchr find the parts of a URI where its grammar has them.   *)
LEMMA PartsFound ==
  ASSUME NEW s \in Seq(Piece), NEW p \in Parts(s)
  PROVE  /\ AuthorityEnd(s) = p.port + 1
         /\ HostStart(s) = p.user + 1
         /\ IsName(s, p.user + 1, p.host) => Host(s) = Undotted(SubSeq(s, p.user + 1, p.host))
<1>1. p.user \in 0..Len(s) /\ p.host \in 0..Len(s) /\ p.port \in 0..Len(s) /\ Len(s) \in Nat
  <2>1. p.user \in 0..Len(s) /\ p.host \in 0..Len(s) /\ p.port \in 0..Len(s)
    BY DEF Parts
  <2>2. Len(s) \in Nat
    BY LenProperties
  <2> QED
    BY <2>1, <2>2
<1> DEFINE u == p.user
           h == p.host
           q == p.port
<1>2. /\ u = 0 \/ s[u] = "@"
      /\ \A i \in 1..(u - 1) : s[i] \notin {"@", ";", "?"}
      /\ IsName(s, u + 1, h) \/ IsAddress(s, u + 1, h)
      /\ q = h \/ (s[h + 1] = ":" /\ \A i \in (h + 2)..q : s[i] = "x")
      /\ q = Len(s) \/ s[q + 1] \in {";", "?"}
  BY DEF Parts
<1>3. /\ \A c \in Name : c \notin {"@", ":", ";", "?", "["}
      /\ \A c \in {":", "[", "]"} : c \notin {"@", ";", "?"}
  BY DEF Name, Suffix, Observed
<1>4. u \in Nat /\ h \in Nat /\ q \in Nat /\ u < h /\ h <= q /\ q <= Len(s)
  <2>1. u < h /\ h <= q
    BY DEF Parts
  <2> QED
    BY <1>1, <2>1
<1> HIDE DEF u, h, q
<1>5. ASSUME NEW i \in (u + 1)..q PROVE s[i] # "@" /\ s[i] \notin {";", "?"}
  <2>1. CASE i \in (u + 1)..h
    <3>1. s[i] \in Name \/ s[i] \in {":", "[", "]"}
      <4>1. CASE IsName(s, u + 1, h)
        BY <2>1, <4>1 DEF IsName
      <4>2. CASE IsAddress(s, u + 1, h)
        <5>1. i = u + 1 \/ i = h \/ i \in (u + 1 + 1)..(h - 1)
          BY <2>1, <1>4
        <5> QED
          BY <4>2, <5>1 DEF IsAddress
      <4> QED
        BY <4>1, <4>2, <1>2
    <3> QED
      BY <3>1, <1>3
  <2>2. CASE i = h + 1
    <3>1. q # h
      BY <2>2, <1>4
    <3> QED
      BY <2>2, <3>1, <1>2
  <2>3. CASE i \in (h + 2)..q
    <3>1. q # h
      BY <2>3, <1>4
    <3>2. s[i] = "x"
      BY <2>3, <3>1, <1>2
    <3> QED
      BY <3>2
  <2>4. i \in (u + 1)..h \/ i = h + 1 \/ i \in (h + 2)..q
    BY <1>4
  <2> QED
    BY <2>1, <2>2, <2>3, <2>4
<1>6. ASSUME NEW i \in 1..q PROVE s[i] \notin {";", "?"}
  <2>1. i \in 1..(u - 1) \/ (i = u /\ u # 0) \/ i \in (u + 1)..q
    BY <1>4
  <2>2. CASE i = u /\ u # 0
    <3>1. s[i] = "@"
      BY <2>2, <1>2
    <3> QED
      BY <3>1
  <2>3. CASE i \in 1..(u - 1)
    BY <2>3, <1>2
  <2>4. CASE i \in (u + 1)..q
    BY <2>4, <1>5
  <2> QED
    BY <2>1, <2>2, <2>3, <2>4
<1>a. (q + 1) - 1 = q /\ (h + 1) - 1 = h /\ 1 \in Int /\ Len(s) + 1 \in Int /\ q + 1 \in Int /\ u + 1 \in Int
  BY <1>1, <1>4
<1>7. AuthorityEnd(s) = q + 1
  <2>1. q + 1 \in 1..(Len(s) + 1)
    BY <1>1, <1>4
  <2>2. q + 1 = Len(s) + 1 \/ s[q + 1] \in {";", "?"}
    BY <1>1, <1>2, <1>4
  <2>3. \A j \in 1..((q + 1) - 1) : s[j] \notin {";", "?"}
    BY <1>a, <1>6
  <2>4. First(s, 1, Len(s) + 1, {";", "?"}) = q + 1
    <3> DEFINE end == Len(s) + 1
               cs == {";", "?"}
    <3>1. end \in Int /\ q + 1 \in 1..end /\ (q + 1 = end \/ s[q + 1] \in cs)
      BY <1>a, <2>1, <2>2
    <3>2. \A j \in 1..((q + 1) - 1) : s[j] \notin cs
      BY <2>3
    <3> HIDE DEF end, cs
    <3>3. First(s, 1, end, cs) = q + 1
      BY <1>a, <3>1, <3>2, FirstIs, Zenon
    <3> QED
      BY <3>3 DEF end, cs
  <2> QED
    BY <2>4 DEF AuthorityEnd
<1>8. HostStart(s) = u + 1
  <2>1. CASE u = 0
    <3>1. \A j \in 1..((q + 1) - 1) : s[j] \notin {"@"}
      <4> SUFFICES ASSUME NEW j \in 1..q PROVE s[j] # "@"
        BY <1>a
      <4>1. j \in (u + 1)..q
        BY <2>1, <1>4
      <4> QED
        BY <4>1, <1>5
    <3>2. q + 1 \in 1..(q + 1)
      BY <1>4
    <3>3. First(s, 1, q + 1, {"@"}) = q + 1
      BY <1>a, <3>1, <3>2, FirstIs, Zenon
    <3> QED
      BY <1>7, <2>1, <3>3 DEF HostStart
  <2>2. CASE u # 0
    <3>1. u \in 1..(q + 1) /\ u # q + 1
      BY <1>4, <2>2
    <3>2. s[u] \in {"@"} /\ \A j \in 1..(u - 1) : s[j] \notin {"@"}
      BY <1>2, <2>2
    <3>3. First(s, 1, q + 1, {"@"}) = u
      BY <1>a, <3>1, <3>2, FirstIs, Zenon
    <3> QED
      BY <1>7, <3>1, <3>3 DEF HostStart
  <2> QED
    BY <2>1, <2>2
<1>9. ASSUME IsName(s, u + 1, h) PROVE First(s, u + 1, q + 1, {":"}) = h + 1
  <2>1. h + 1 \in (u + 1)..(q + 1)
    BY <1>4
  <2>2. h + 1 = q + 1 \/ s[h + 1] \in {":"}
    BY <1>2
  <2>3. \A j \in (u + 1)..((h + 1) - 1) : s[j] \notin {":"}
    <3>1. ASSUME NEW j \in (u + 1)..h PROVE s[j] # ":"
      <4>1. s[j] \in Name
        BY <1>9 DEF IsName
      <4> QED
        BY <4>1, <1>3
    <3> QED
      BY <1>a, <3>1
  <2> DEFINE cs == {":"}
  <2>4. (h + 1 = q + 1 \/ s[h + 1] \in cs) /\ \A j \in (u + 1)..((h + 1) - 1) : s[j] \notin cs
    BY <2>2, <2>3
  <2> HIDE DEF cs
  <2>5. First(s, u + 1, q + 1, cs) = h + 1
    BY <2>1, <2>4, FirstIs, Zenon
  <2> QED
    BY <2>5 DEF cs
<1>10. IsName(s, u + 1, h) => Host(s) = Undotted(SubSeq(s, u + 1, h))
  BY <1>7, <1>8, <1>9, <1>a DEF Host, Undotted
<1> QED
  BY <1>7, <1>8, <1>10 DEF u, h, q

(* A host may be written with a trailing dot or without.                    *)
LEMMA DotIgnored ==
  ASSUME NEW h \in Seq(Piece), h # <<>>
  PROVE  ImsHost(h) <=> Ims(Undotted(h))
<1>1. Len(h) \in Nat /\ Len(h) > 0
  OBVIOUS
<1>w. SubSeq(h, 1, Len(h)) = h
  OBVIOUS
<1> DEFINE front == SubSeq(h, 1, Len(h) - 1)
<1>2. front \in Seq(Piece) /\ Len(front) = Len(h) - 1
  <2> DEFINE n == Len(h) - 1
  <2>1. n \in Nat /\ 1 \in Int /\ \A i \in 1..n : h[i] \in Piece
    BY <1>1
  <2> HIDE DEF n
  <2>2. (IF 1 <= n THEN n - 1 + 1 ELSE 0) = n
    BY <2>1
  <2>3. n \in Int
    BY <2>1
  <2>4. SubSeq(h, 1, n) \in Seq(Piece) /\ Len(SubSeq(h, 1, n)) = n
    BY <2>1, <2>2, <2>3, SubSeqProperties
  <2> QED
    BY <2>4 DEF n
<1>3. h[Len(h)] = "." <=> h = Append(front, ".")
  <2>1. h = Append(front, h[Len(h)])
    <3>1. h[Len(h)] \in Piece
      BY <1>1
    <3>2. \A i \in 1..Len(front) : front[i] = h[i]
      BY <1>1
    <3> DEFINE a == Append(front, h[Len(h)])
    <3> HIDE DEF front
    <3>3. a \in Seq(Piece) /\ Len(a) = Len(h)
      BY <1>2, <3>1
    <3>4. \A i \in 1..Len(h) : a[i] = h[i]
      <4> SUFFICES ASSUME NEW i \in 1..Len(h) PROVE a[i] = h[i]
        OBVIOUS
      <4>1. a[Len(front) + 1] = h[Len(h)] /\ \A j \in 1..Len(front) : a[j] = front[j]
        BY <1>2, <3>1, AppendProperties
      <4>2. CASE i = Len(front) + 1
        <5>1. i = Len(h)
          BY <4>2, <1>1, <1>2
        <5> QED
          BY <4>1, <4>2, <5>1
      <4>3. CASE i \in 1..Len(front)
        BY <4>1, <4>3, <3>2
      <4>4. i = Len(front) + 1 \/ i \in 1..Len(front)
        <5>1. Len(front) = Len(h) - 1
          BY <1>2
        <5> QED
          BY <1>1, <5>1
      <4> QED
        BY <4>2, <4>3, <4>4
    <3> HIDE DEF a
    <3>5. a = h
      BY <3>3, <3>4, LenProperties
    <3> QED
      BY <3>5 DEF a
  <2>2. h = Append(front, ".") => h[Len(h)] = "."
    <3> HIDE DEF front
    <3>1. "." \in Piece
      BY DEF Piece, Name
    <3>2. Append(front, ".")[Len(front) + 1] = "."
      BY <1>2, <3>1, AppendProperties
    <3> QED
      BY <1>1, <1>2, <3>2
  <2> QED
    BY <2>1, <2>2
<1>4. front # h /\ h # Append(h, ".")
  <2>1. "." \in Piece
    BY DEF Piece, Name
  <2>2. Len(Append(h, ".")) = Len(h) + 1
    BY <2>1, AppendProperties
  <2>3. Len(Append(h, ".")) # Len(h) /\ Len(front) # Len(h)
    <3>1. Len(front) = Len(h) - 1
      BY <1>2
    <3> QED
      BY <1>1, <2>2, <3>1
  <2> HIDE DEF front
  <2> QED
    BY <2>3
<1>5. Ims(h) => h[Len(h)] # "."
  <2>1. ASSUME h = <<Observed>> PROVE h[Len(h)] # "."
    BY <2>1 DEF Observed
  <2>2. ASSUME EndsIn(h, Suffix) PROVE h[Len(h)] # "."
    BY <2>2 DEF EndsIn, Suffix
  <2> QED
    BY <2>1, <2>2 DEF Ims
<1>6. ImsHost(h) <=> Ims(h) \/ (h = Append(front, ".") /\ Ims(front))
  <2>1. {SubSeq(h, 1, n) : n \in {Len(h), Len(h) - 1}} = {h, front}
    BY <1>w
  <2> HIDE DEF front
  <2> QED
    BY <2>1, <1>4 DEF ImsHost, Ims
<1>7. Undotted(h) = IF h[Len(h)] = "." THEN front ELSE h
  BY DEF Undotted
<1> HIDE DEF front
<1> QED
  BY <1>3, <1>5, <1>6, <1>7

(* The dialect of a URI is that of its host, whatever stands around it:     *)
(* for every text of any length, not only the short ones                    *)
(* (payload.c:119-162).                                                     *)
THEOREM Classified == UriSpec => []ClassifiedByHost
<1>1. text \in Seq(Piece) => ClassifiedByHost
  <2> SUFFICES ASSUME text \in Seq(Piece), NEW p \in Parts(text)
               PROVE  is_ims_sip_uri(text) <=> ImsHost(SubSeq(text, p.user + 1, p.host))
    BY DEF ClassifiedByHost
  <2>1. /\ p.user \in Nat /\ p.host \in 1..Len(text) /\ p.port \in Nat
        /\ p.user < p.host /\ p.host <= p.port
        /\ IsName(text, p.user + 1, p.host) \/ IsAddress(text, p.user + 1, p.host)
    <3>1. p.user \in 0..Len(text) /\ p.host \in 0..Len(text) /\ p.port \in 0..Len(text)
      BY DEF Parts
    <3>2. p.user < p.host /\ p.host <= p.port
      BY DEF Parts
    <3>3. IsName(text, p.user + 1, p.host) \/ IsAddress(text, p.user + 1, p.host)
      BY DEF Parts
    <3> QED
      BY <3>1, <3>2, <3>3
  <2> DEFINE h == SubSeq(text, p.user + 1, p.host)
  <2>2. /\ h \in Seq(Piece) /\ h # <<>>
        /\ Len(h) \in Nat \ {0} /\ h[Len(h)] = text[p.host]
    <3>1. p.user + 1 \in 1..Len(text) /\ p.user + 1 <= p.host
      BY <2>1
    <3>2. h \in Seq(Piece) /\ Len(h) = p.host - (p.user + 1) + 1
      BY <2>1, <3>1, SubSeqProperties
    <3> DEFINE m == p.user + 1
               n == p.host
    <3>3. Len(h) \in Nat \ {0} /\ Len(h) = n - m + 1 /\ m + (n - m + 1) - 1 = n
      BY <2>1, <3>2
    <3>4. h[Len(h)] = text[p.host]
      <4>1. /\ m \in 1..(Len(text) + 1) /\ n \in (m - 1)..Len(text) /\ m \in Int /\ n \in Int
            /\ m <= n /\ (n - m + 1) \in 1..(n - m + 1)
        BY <2>1, <3>1
      <4> HIDE DEF m, n
      <4>2. SubSeq(text, m, n)[n - m + 1] = text[m + (n - m + 1) - 1]
        BY <4>1, SubSeqProperties
      <4>3. Len(h) = n - m + 1 /\ m + (n - m + 1) - 1 = n
        BY <3>3
      <4> QED
        BY <4>2, <4>3 DEF m, n
    <3> HIDE DEF h
    <3> QED
      BY <3>2, <3>3, <3>4
  <2>3. HostStart(text) = p.user + 1 /\ AuthorityEnd(text) = p.port + 1 /\ p.user + 1 < p.port + 1
    BY <2>1, PartsFound
  <2>4. CASE IsName(text, p.user + 1, p.host)
    <3>1. text[p.user + 1] # "["
      <4>1. text[p.user + 1] \in Name
        BY <2>1, <2>4 DEF IsName
      <4> QED
        BY <4>1 DEF Name, Suffix, Observed
    <3>2. Host(text) = Undotted(h)
      BY <2>4, PartsFound
    <3> HIDE DEF h
    <3>3. is_ims_sip_uri(text) <=> Ims(Undotted(h))
      BY <2>3, <3>1, <3>2 DEF is_ims_sip_uri, Ims
    <3>4. ImsHost(h) <=> Ims(Undotted(h))
      BY <2>2, DotIgnored
    <3> QED
      BY <3>3, <3>4 DEF h
  <2>5. CASE IsAddress(text, p.user + 1, p.host)
    <3>1. text[p.user + 1] = "[" /\ h[Len(h)] = "]"
      BY <2>2, <2>5 DEF IsAddress
    <3>2. ~is_ims_sip_uri(text)
      BY <2>3, <3>1 DEF is_ims_sip_uri
    <3> HIDE DEF h
    <3>3. Undotted(h) = h
      BY <3>1 DEF Undotted
    <3>4. ~Ims(h)
      <4>1. h # <<Observed>>
        <5> SUFFICES ASSUME h = <<Observed>> PROVE FALSE
          OBVIOUS
        <5>1. Len(<<Observed>>) = 1 /\ <<Observed>>[1] = Observed
          OBVIOUS
        <5>2. h[Len(h)] = Observed
          BY <5>1
        <5> QED
          BY <3>1, <5>2 DEF Observed
      <4>2. ~EndsIn(h, Suffix)
        BY <3>1 DEF EndsIn, Suffix
      <4> QED
        BY <4>1, <4>2 DEF Ims
    <3>5. ~ImsHost(h)
      BY <2>2, <3>3, <3>4, DotIgnored
    <3> QED
      BY <3>2, <3>5 DEF h
  <2> QED
    BY <2>1, <2>4, <2>5
<1> QED
  BY <1>1, TextAlways, PTL
=============================================================================
