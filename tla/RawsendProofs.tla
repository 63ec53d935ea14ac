--------------------------- MODULE RawsendProofs ---------------------------
(***************************************************************************)
(* Theorems about the handler, for every cache, route and set of options,  *)
(* and about the TTL arithmetic of Hops, for every TTL.                    *)
(***************************************************************************)
EXTENDS Rawsend, TLAPS

(* What -y accepts (mainfun.c:333-340), 0 when it is not given; -t is a byte *)
(* above zero.                                                               *)
Pct == 0..99

(* A packet that left its host with a usual TTL and passed that many routers *)
(* is never taken to come from farther than it does.                         *)
THEOREM EstimateIsLowerBound ==
  ASSUME NEW initial \in InitialTtl, NEW routers \in Nat, routers < initial
  PROVE  HopEstimate(initial - routers) \in 0..routers
BY DEF InitialTtl, HopEstimate

(* Up to the next smaller usual TTL the estimate is exact. *)
THEOREM EstimateIsExact ==
  ASSUME NEW initial \in InitialTtl, NEW routers \in Nat, routers < 64
  PROVE  HopEstimate(initial - routers) = routers
BY DEF InitialTtl, HopEstimate

(* A share of less than the whole is less than the whole. *)
LEMMA ShareIsLess ==
  ASSUME NEW hops \in Nat, hops > 0, NEW pct \in Pct
  PROVE  (hops * pct) \div 100 \in 0..hops-1
<1>1. hops * pct \in Nat /\ hops * pct <= hops * 99
  BY DEF Pct
<1>2. hops * 99 < hops * 100
  OBVIOUS
<1>3. PICK n \in Nat : n = hops * pct
  BY <1>1
<1>4. n < hops * 100
  BY <1>1, <1>2, <1>3
<1>5. n \div 100 \in 0..hops-1
  BY <1>4
<1>. QED BY <1>3, <1>5

(* A decoy for a far peer lives at least as long as -t asks for and shorter  *)
(* than the way back is estimated to be, whatever share -y asks for; no     *)
(* result leaves the uint8_t that calc_snd_ttl returns.                      *)
THEOREM DecoyTtlBetween ==
  ASSUME NEW ttl \in Byte, NEW least \in Byte, NEW pct \in Pct,
         HopEstimate(ttl) > least
  PROVE  /\ CalcSndTtl(HopEstimate(ttl), pct, least) >= least
         /\ CalcSndTtl(HopEstimate(ttl), pct, least) < HopEstimate(ttl)
         /\ CalcSndTtl(HopEstimate(ttl), pct, least) \in Byte
<1>1. HopEstimate(ttl) \in 1..127 /\ least \in Nat
  BY DEF HopEstimate, Byte
<1>2. (HopEstimate(ttl) * pct) \div 100 \in 0..HopEstimate(ttl)-1
  BY <1>1, ShareIsLess
<1>. HIDE DEF HopEstimate
<1>. QED BY <1>1, <1>2 DEF CalcSndTtl, Byte

(* Together: a decoy answering a packet dies before it reaches the host that *)
(* sent the packet, and a host nearer than -t is spared (rawsend.c:406-416). *)
THEOREM DecoyDiesOnTheWay ==
  ASSUME NEW initial \in InitialTtl, NEW routers \in Nat, routers < initial,
         NEW least \in Byte, NEW pct \in Pct,
         HopEstimate(initial - routers) > least
  PROVE  /\ CalcSndTtl(HopEstimate(initial - routers), pct, least) < routers
         /\ least < routers
<1>1. initial - routers \in Byte
  BY DEF InitialTtl, Byte
<1>2. HopEstimate(initial - routers) \in 0..routers
  BY EstimateIsLowerBound
<1>3. CalcSndTtl(HopEstimate(initial - routers), pct, least)
        < HopEstimate(initial - routers)
  BY <1>1, DecoyTtlBetween
<1>4. CalcSndTtl(HopEstimate(initial - routers), pct, least) \in Byte
  BY <1>1, DecoyTtlBetween
<1>. HIDE DEF HopEstimate, CalcSndTtl
<1>. QED BY <1>2, <1>3, <1>4 DEF Byte
-----------------------------------------------------------------------------
Engaged == {"decoys", "verdict", "failed"}

Places == pc \in {"off", "idle", "stopped"} \cup Engaged

(* While decoys are due the packet is one the options ask for.               *)
Due ==
  pc = "decoys" =>
    /\ pkt.peer \in Peer /\ pkt.ifindex \in Ifindex /\ Recognised(pkt.peer)
    /\ IF NeedSnat THEN g_ctx.inbound ELSE g_ctx.outbound

(* What the code says of a binding the kernel has.                           *)
Bindings ==
  /\ sockif \in [Family -> Ifindex \cup {-1}] /\ bound \in [Family -> Ifindex \cup {-1}]
  /\ \A f \in Family : sockif[f] # -1 => bound[f] = sockif[f]

Opened == pc \notin {"off", "stopped"} => open = Wanted

Decoys ==
  /\ \E S : sent \in Seq(S)
  /\ pc \notin Engaged => sent = <<>>

Inv == Places /\ Due /\ Bindings /\ Opened /\ Decoys /\ ByItsInterface

LEMMA NothingSent == ASSUME sent = <<>> PROVE ByItsInterface /\ \E S : sent \in Seq(S)
<1>1. <<>> \in Seq({})
  OBVIOUS
<1> QED BY <1>1 DEF ByItsInterface

LEMMA InitInv == Init => Inv
<1> SUFFICES ASSUME Init PROVE Inv
  OBVIOUS
<1>1. Places /\ Due /\ Bindings /\ Opened
  BY DEF Init, Places, Due, Bindings, Opened, Family
<1>2. Decoys /\ ByItsInterface
  BY NothingSent DEF Init, Decoys
<1> QED BY <1>1, <1>2 DEF Inv

(* Where the handler only moves on, nothing else is at stake.                *)
LEMMA MoveOn ==
  ASSUME Inv, UNCHANGED <<g_ctx, sockif, bound, sent>>, sent = <<>>, Places', Due', Opened'
  PROVE  Inv'
<1>1. Bindings'
  BY DEF Inv, Bindings
<1>2. ByItsInterface' /\ Decoys'
  BY DEF Inv, ByItsInterface, Decoys
<1> QED BY <1>1, <1>2 DEF Inv

LEMMA SetupPreserves == Inv /\ (Setup \/ Unreadable) => Inv'
<1> SUFFICES ASSUME Inv, Setup \/ Unreadable PROVE Inv'
  OBVIOUS
<1>1. sent = <<>> /\ UNCHANGED <<g_ctx, sockif, bound, sent>>
  BY DEF Inv, Decoys, Setup, Unreadable, Engaged
<1>2. Places' /\ Due' /\ Opened'
  BY DEF Inv, Places, Due, Opened, Wanted, Setup, Unreadable, Engaged
<1> QED BY <1>1, <1>2, MoveOn

LEMMA CleanupPreserves == Inv /\ Cleanup => Inv'
<1> SUFFICES ASSUME Inv, Cleanup PROVE Inv'
  OBVIOUS
<1>1. Places' /\ Due' /\ Opened'
  BY DEF Places, Due, Opened, Cleanup
<1>2. Bindings'
  BY DEF Bindings, Cleanup, Family
<1>3. sent' = <<>>
  BY DEF Inv, Decoys, Cleanup, Engaged
<1>4. ByItsInterface' /\ Decoys'
  BY <1>3 DEF Inv, Decoys, ByItsInterface, Cleanup
<1> QED BY <1>1, <1>2, <1>4 DEF Inv

LEMMA PacketPreserves ==
  ASSUME Inv, NEW peer \in Peer, NEW ifindex \in Ifindex,
         \/ \E routers \in Routers, initial \in InitialTtl : Inbound(peer, ifindex, routers, initial)
         \/ Outbound(peer, ifindex)
  PROVE  Inv'
<1>1. /\ pc = "idle" /\ Recognised(peer) /\ UNCHANGED <<g_ctx, open, sockif, bound, sent>>
      /\ pc' \in {"decoys", "verdict"}
      /\ pkt'.peer = peer /\ pkt'.ifindex = ifindex
      /\ pc' = "decoys" => IF pkt'.pkttype = "PACKET_OUTGOING" THEN g_ctx.inbound ELSE g_ctx.outbound
  BY DEF Inbound, Outbound, Answer, Engage, Spare
<1>2. sent = <<>> /\ Places' /\ Opened'
  BY <1>1 DEF Inv, Decoys, Places, Opened, Wanted, Engaged
<1>3. Due'
  BY <1>1 DEF Due, Recognised, NeedSnat
<1> QED BY <1>1, <1>2, <1>3, MoveOn

LEMMA BindPreserves == Inv /\ Bind => Inv'
<1> SUFFICES ASSUME Inv, Bind PROVE Inv'
  OBVIOUS
<1>1. pc = "decoys" /\ pkt.ifindex \in Ifindex
  BY DEF Inv, Due, Bind
<1>2. Places' /\ Due' /\ Opened' /\ ByItsInterface'
  BY DEF Inv, Places, Due, Recognised, NeedSnat, Opened, Wanted, ByItsInterface, Bind
<1>3. Decoys'
  BY DEF Inv, Decoys, Bind
<1>4. Bindings'
  BY <1>1 DEF Inv, Bindings, Bind
<1> QED BY <1>2, <1>3, <1>4 DEF Inv

(* A decoy sent from a bound socket leaves by what the code noted, which is  *)
(* where its packet goes.                                                    *)
LEMMA SendPreserves == Inv /\ Send => Inv'
<1> SUFFICES ASSUME Inv, Send PROVE Inv'
  OBVIOUS
<1> DEFINE d == [egress |-> Egress, ttl |-> decoy.ttl, payload |-> decoy.payload]
<1>1. /\ pc = "decoys" /\ ~MustBind /\ sent' = Append(sent, d) /\ pc' \in {"decoys", "verdict"}
      /\ UNCHANGED <<g_ctx, open, sockif, bound, pkt>>
  BY DEF Send
<1>2. Places' /\ Due' /\ Opened' /\ Bindings'
  BY <1>1 DEF Inv, Places, Engaged, Due, Recognised, NeedSnat, Opened, Wanted, Bindings
<1>3. Egress = pkt.ifindex
  <2>1. Fam \in Family
    BY <1>1 DEF Inv, Due, Fam, Peer, Cache!Sockaddr, Family
  <2>2. CASE NeedSnat
    <3>1. sockif[Fam] = pkt.ifindex
      BY <1>1, <2>2 DEF MustBind
    <3>2. pkt.ifindex # -1
      BY <1>1, IfindexAssumption DEF Inv, Due
    <3> QED BY <2>1, <2>2, <3>1, <3>2 DEF Inv, Bindings, Egress
  <2> QED BY <2>2 DEF Egress
<1>4. d.egress = pkt.ifindex
  BY <1>3
<1>5. PICK S : sent \in Seq(S)
  BY DEF Inv, Decoys
<1> HIDE DEF d
<1>6. sent \in Seq(S \cup {d})
  BY <1>5
<1>7. /\ sent' \in Seq(S \cup {d}) /\ Len(sent') = Len(sent) + 1
      /\ \A k \in 1..Len(sent') : sent'[k] = IF k <= Len(sent) THEN sent[k] ELSE d
  BY <1>1, <1>6
<1>8. ByItsInterface'
  BY <1>1, <1>4, <1>6, <1>7 DEF Inv, ByItsInterface
<1>9. Decoys'
  BY <1>1, <1>7 DEF Decoys, Engaged
<1> QED BY <1>2, <1>8, <1>9 DEF Inv

LEMMA FailurePreserves == Inv /\ (BindFails \/ SendFails) => Inv'
<1> SUFFICES ASSUME Inv, BindFails \/ SendFails PROVE Inv'
  OBVIOUS
<1>1. /\ pc = "decoys" /\ pc' = "failed"
      /\ UNCHANGED <<g_ctx, open, sockif, bound, pkt, sent>>
  BY DEF BindFails, SendFails
<1>2. Places' /\ Due' /\ Opened' /\ Bindings'
  BY <1>1 DEF Inv, Places, Engaged, Due, Opened, Wanted, Bindings
<1>3. ByItsInterface' /\ Decoys'
  BY <1>1 DEF Inv, ByItsInterface, Decoys, Engaged
<1> QED BY <1>2, <1>3 DEF Inv

LEMMA VerdictPreserves == Inv /\ Verdict => Inv'
<1> SUFFICES ASSUME Inv, Verdict PROVE Inv'
  OBVIOUS
<1>1. Places' /\ Due' /\ Opened' /\ Bindings'
  BY DEF Inv, Places, Engaged, Due, Opened, Wanted, Bindings, Verdict
<1>2. sent' = <<>> /\ <<>> \in Seq({})
  BY DEF Verdict
<1>3. ByItsInterface' /\ Decoys'
  BY <1>2 DEF ByItsInterface, Decoys
<1> QED BY <1>1, <1>3 DEF Inv

LEMMA StutterPreserves == Inv /\ UNCHANGED vars => Inv'
<1> SUFFICES ASSUME Inv, UNCHANGED vars PROVE Inv'
  OBVIOUS
<1>1. Places' /\ Due' /\ Opened' /\ Bindings'
  BY DEF Inv, Places, Due, Recognised, NeedSnat, Opened, Wanted, Bindings, vars
<1>2. ByItsInterface' /\ Decoys'
  BY DEF Inv, ByItsInterface, Decoys, vars
<1> QED BY <1>1, <1>2 DEF Inv

LEMMA NextInv == Inv /\ [Next]_vars => Inv'
  BY SetupPreserves, CleanupPreserves, PacketPreserves, BindPreserves, SendPreserves,
     FailurePreserves, VerdictPreserves, StutterPreserves DEF Next

LEMMA Invariance == Spec => []Inv
  BY InitInv, NextInv, PTL DEF Spec

(* The handler never uses a socket its options did not open                  *)
(* (rawsend.c:293-320, :149-235).                                            *)
LEMMA SocketsAreOpen == Inv => UsesOpenSocket
BY DEF Inv, Due, Opened, Wanted, Recognised, UsesOpenSocket, Socket, NeedSnat, Fam

(* Every decoy leaves by the interface of its packet and by an open socket,  *)
(* for all interfaces, options and failures (rawsend.c:156-183, :293-320).   *)
THEOREM DecoysLeaveByTheirInterface == Spec => []EgressMatches
<1>1. Inv => EgressMatches
  BY SocketsAreOpen DEF Inv, EgressMatches
<1> QED BY <1>1, Invariance, PTL
-----------------------------------------------------------------------------
(* The ring of the cache: the remainders it takes, the slot before its end,  *)
(* and its next end.                                                         *)
LEMMA CapacityIsPositive == Capacity \in Nat \ {0} /\ 0 \in Cache!Index
  BY CacheAssumption DEF Cache!Index

LEMMA ModSmall ==
  ASSUME NEW n \in Nat \ {0}, NEW x \in 0..n-1
  PROVE  x % n = x
OBVIOUS

LEMMA ModWrap ==
  ASSUME NEW n \in Nat \ {0}, NEW x \in n..(2*n-1)
  PROVE  x % n = x - n
<1>1. x = n * 1 + (x - n)
  OBVIOUS
<1>2. x - n \in 0..n-1
  OBVIOUS
<1> QED BY <1>1, <1>2, Z3

LEMMA BeforeCases ==
  ASSUME NEW end \in Cache!Index, NEW i \in Cache!Index
  PROVE  /\ Cache!Before(end, i) \in Cache!Index
         /\ i < end  => Cache!Before(end, i) = end - i - 1
         /\ i >= end => Cache!Before(end, i) = end + Capacity - i - 1
<1> DEFINE x == end + Capacity - i - 1
<1> USE CapacityIsPositive DEF Cache!Index
<1>1. CASE i < end
  <2>1. x \in Capacity..(2*Capacity-1) BY <1>1
  <2>2. x % Capacity = x - Capacity    BY <2>1, ModWrap
  <2> QED BY <1>1, <2>2 DEF Cache!Before
<1>2. CASE i >= end
  <2>1. x \in 0..Capacity-1  BY <1>2
  <2>2. x % Capacity = x     BY <2>1, ModSmall
  <2> QED BY <1>2, <2>1, <2>2 DEF Cache!Before
<1> QED BY <1>1, <1>2

LEMMA EndCases ==
  ASSUME NEW end \in Cache!Index
  PROVE  /\ end + 1 < Capacity => (end + 1) % Capacity = end + 1
         /\ end + 1 = Capacity => (end + 1) % Capacity = 0
<1> USE CapacityIsPositive DEF Cache!Index
<1>1. CASE end + 1 < Capacity
  BY <1>1, ModSmall
<1>2. CASE end + 1 = Capacity
  <2>1. end + 1 \in Capacity..(2*Capacity-1) BY <1>2
  <2> QED BY <1>2, <2>1, ModWrap
<1> QED BY <1>1, <1>2

LEMMA EndMoves ==
  ASSUME NEW end \in Cache!Index, NEW e, e = (end + 1) % Capacity
  PROVE  /\ Cache!Before(e, 0) = end
         /\ \A i \in 0..Capacity-2 : /\ Cache!Before(e, i + 1) = Cache!Before(end, i)
                                     /\ Cache!Before(end, i) # end
         /\ Cache!Before(end, Capacity - 1) = end
<1> USE CapacityIsPositive DEF Cache!Index
<1>1. e = IF end + 1 = Capacity THEN 0 ELSE end + 1
  <2>1. CASE end + 1 = Capacity
    BY <2>1, ModWrap
  <2>2. CASE end + 1 # Capacity
    BY <2>2, ModSmall
  <2> QED BY <2>1, <2>2
<1>2. e \in Cache!Index
  BY <1>1
<1>3. Cache!Before(e, 0) = end /\ Cache!Before(end, Capacity - 1) = end
  <2>1. 0 \in Cache!Index /\ Capacity - 1 \in Cache!Index
    OBVIOUS
  <2>2. /\ 0 < e  => Cache!Before(e, 0) = e - 0 - 1
        /\ 0 >= e => Cache!Before(e, 0) = e + Capacity - 0 - 1
    BY <1>2, <2>1, BeforeCases
  <2>3. /\ Capacity - 1 < end  => Cache!Before(end, Capacity - 1) = end - (Capacity - 1) - 1
        /\ Capacity - 1 >= end => Cache!Before(end, Capacity - 1) = end + Capacity - (Capacity - 1) - 1
    BY <2>1, BeforeCases
  <2> QED BY <1>1, <2>2, <2>3
<1>4. ASSUME NEW i \in 0..Capacity-2
      PROVE  Cache!Before(e, i + 1) = Cache!Before(end, i) /\ Cache!Before(end, i) # end
  <2>1. i \in Cache!Index /\ i + 1 \in Cache!Index
    OBVIOUS
  <2>2. /\ i < end  => Cache!Before(end, i) = end - i - 1
        /\ i >= end => Cache!Before(end, i) = end + Capacity - i - 1
        /\ i + 1 < e  => Cache!Before(e, i + 1) = e - (i + 1) - 1
        /\ i + 1 >= e => Cache!Before(e, i + 1) = e + Capacity - (i + 1) - 1
    BY <1>2, <2>1, BeforeCases
  <2> QED BY <1>1, <2>1, <2>2
<1> QED BY <1>3, <1>4

LEMMA NewestMoves ==
  ASSUME NEW end \in Cache!Index
  PROVE  /\ Cache!Advance(end) \in Cache!Index
         /\ Cache!Before(Cache!Advance(end), 0) = end
         /\ \A i \in 0..Capacity-2 : /\ Cache!Before(Cache!Advance(end), i + 1) = Cache!Before(end, i)
                                     /\ Cache!Before(end, i) # end
<1>1. Capacity \in Nat \ {0}
  BY CacheAssumption
<1>2. Cache!Advance(end) \in Cache!Index
  <2>1. /\ end + 1 < Capacity => (end + 1) % Capacity = end + 1
        /\ end + 1 = Capacity => (end + 1) % Capacity = 0
    BY <1>1, EndCases DEF Cache!Index
  <2> QED
    BY <1>1, <2>1 DEF Cache!Advance, Cache!Index
<1>3. /\ Cache!Before((end + 1) % Capacity, 0) = end
      /\ \A i \in 0..Capacity-2 : /\ Cache!Before((end + 1) % Capacity, i + 1) = Cache!Before(end, i)
                                  /\ Cache!Before(end, i) # end
  BY EndMoves
<1> QED
  BY <1>2, <1>3 DEF Cache!Advance

LEMMA NewestInRing ==
  ASSUME NEW end \in Cache!Index, NEW i \in Cache!Index
  PROVE  Cache!Before(end, i) \in Cache!Index
  BY BeforeCases

(* The handler has a cache, and before it has, no peer was heard.           *)
CacheUp ==
  /\ Cache!TypeOK
  /\ pc \notin {"off", "stopped"} => srci # Null
  /\ pc = "off" => \A to \in Peer \X Ifindex : heard[to] = Unheard

(* The cache has what was heard of a peer, unless Capacity packets came      *)
(* since, and nothing newer of that peer.                                    *)
Remembered(to) ==
  LET h == heard[to]
      of(j) == srci[Cache!Newest(j)]
  IN  /\ h.age < Capacity =>
           /\ h.age < srci_count
           /\ Cache!Matches(of(h.age), to[1], to[2])
           /\ \E initial \in InitialTtl : h.routers < initial /\ of(h.age).ttl = initial - h.routers
      /\ \A j \in 0..(srci_count - 1) : j < h.age => ~Cache!Matches(of(j), to[1], to[2])

Memory == srci # Null => \A to \in Peer \X Ifindex : Remembered(to)

(* How far away the handler takes the peer of a packet to be.               *)
Estimated(hops) ==
  /\ Known(pkt)  => hops <= Heard(pkt).routers /\ (Heard(pkt).routers < 64 => hops = Heard(pkt).routers)
  /\ ~Known(pkt) => hops = 64

Enabled == IF NeedSnat THEN g_ctx.inbound ELSE g_ctx.outbound

Decided ==
  pc \in {"decoys", "verdict"} =>
    /\ pkt \in Packet
    /\ \E hops \in 0..127 :
         /\ Estimated(hops)
         /\ pc = "decoys" =>
              /\ Enabled /\ IsFar(hops, g_ctx) /\ Len(sent) < g_ctx.repeat
              /\ decoy \in [ttl : {DecoyTtl(hops, g_ctx)} \cap Byte, payload : 1..Payloads]
         /\ pc = "verdict" =>
              Len(sent) = IF Enabled /\ IsFar(hops, g_ctx) THEN g_ctx.repeat ELSE 0

LEMMA OptionsTyped ==
  ASSUME TypeOK
  PROVE  /\ g_ctx.ttl \in 1..255 /\ g_ctx.dynamic_pct \in 0..99 /\ g_ctx.repeat \in 1..10
         /\ g_ctx.inbound \in BOOLEAN /\ g_ctx.outbound \in BOOLEAN /\ g_ctx.nohopest \in BOOLEAN
  BY OptionsAssumption DEF TypeOK
-----------------------------------------------------------------------------
(* A put makes what it stores the newest and moves everything else back.    *)
LEMMA PutRemembers ==
  ASSUME TypeOK, Cache!TypeOK, srci # Null, Memory,
         NEW peer \in Peer, NEW ifindex \in Ifindex, NEW ttl \in Byte, NEW hwaddr \in Hwaddr,
         NEW routers \in Routers, NEW initial \in InitialTtl, routers < initial, ttl = initial - routers,
         Cache!Put(peer, ifindex, ttl, hwaddr),
         heard' = [to \in Peer \X Ifindex |->
            IF to = <<peer, ifindex>> THEN [routers |-> routers, age |-> 0] ELSE Older(heard[to])]
  PROVE  Cache!TypeOK' /\ srci' # Null /\ Memory'
<1> DEFINE info == [addr |-> peer, ifindex |-> ifindex, ttl |-> ttl, hwaddr |-> hwaddr]
<1>1. ifindex \in Nat /\ ifindex # 0 /\ peer \notin Cache!Foreign
  BY IfindexAssumption DEF Peer, Cache!Sockaddr, Cache!Foreign
<1>2. Cache!PutStore(info)
  BY <1>1 DEF Cache!Put, Cache!PutRefused
<1>3. info \in Cache!Info /\ info \in Cache!Slot /\ info # Blank
  BY <1>1, CacheAssumption DEF Cache!Info, Cache!Slot, Peer
<1>4. /\ srci \in [Cache!Index -> Cache!Slot] /\ srci_end \in Cache!Index /\ srci_count \in 0..Capacity
      /\ Capacity \in Nat \ {0}
  BY CapacityIsPositive DEF Cache!TypeOK
<1>5. Cache!Matches(info, peer, ifindex)
  BY <1>3 DEF Cache!Matches
<1>6. ASSUME NEW to \in Peer \X Ifindex, to # <<peer, ifindex>> PROVE ~Cache!Matches(info, to[1], to[2])
  <2>1. to = <<to[1], to[2]>>
    OBVIOUS
  <2> QED
    BY <1>6, <2>1 DEF Cache!Matches
<1>a. info.ttl = ttl
  OBVIOUS
<1> HIDE DEF info
<1>7. /\ srci' = [srci EXCEPT ![srci_end] = info]
      /\ srci_end' = Cache!Advance(srci_end)
      /\ srci_count' = IF srci_count < Capacity THEN srci_count + 1 ELSE srci_count
  BY <1>2 DEF Cache!PutStore, Cache!Grow
<1>8. /\ srci' \in [Cache!Index -> Cache!Slot] /\ srci_end' \in Cache!Index
      /\ srci_count' \in 1..Capacity
  BY <1>3, <1>4, <1>7, NewestMoves
<1>9. Cache!TypeOK' /\ srci' # Null
  BY <1>4, <1>8, CacheAssumption DEF Cache!TypeOK
<1>10. srci'[Cache!Before(srci_end', 0)] = info
  <2>1. Cache!Before(srci_end', 0) = srci_end
    BY <1>4, <1>7, NewestMoves DEF Cache!Newest
  <2> QED
    BY <2>1, <1>4, <1>7
<1>11. ASSUME NEW j \in 0..(Capacity - 2)
       PROVE  srci'[Cache!Before(srci_end', j + 1)] = srci[Cache!Newest(j)]
  <2>1. Cache!Before(srci_end', j + 1) = Cache!Newest(j) /\ Cache!Newest(j) # srci_end
    BY <1>4, <1>7, NewestMoves DEF Cache!Newest
  <2>2. Cache!Newest(j) \in Cache!Index
    <3>1. j \in Cache!Index
      BY <1>4 DEF Cache!Index
    <3> QED
      BY <1>4, <3>1, NewestInRing DEF Cache!Newest
  <2> QED
    BY <2>1, <2>2, <1>4, <1>7
<1>12. ASSUME NEW to \in Peer \X Ifindex PROVE Remembered(to)'
  <2>1. CASE to = <<peer, ifindex>>
    <3>1. heard'[to] = [routers |-> routers, age |-> 0]
      BY <2>1
    <3>2. to[1] = peer /\ to[2] = ifindex
      BY <2>1
    <3>3. heard'[to].age = 0 /\ heard'[to].routers = routers
      BY <3>1
    <3>4. 0 < srci_count' /\ \A j \in 0..(srci_count' - 1) : ~(j < 0)
      <4>1. \A n \in 1..Capacity : 0 < n /\ \A j \in 0..(n - 1) : ~(j < 0)
        BY <1>4
      <4> QED
        BY <4>1, <1>8
    <3>5. /\ Cache!Matches(srci'[Cache!Before(srci_end', 0)], to[1], to[2])
          /\ srci'[Cache!Before(srci_end', 0)].ttl = initial - routers
      BY <1>5, <1>10, <1>a, <3>2
    <3> QED
      BY <3>3, <3>4, <3>5, <1>4 DEF Remembered, Cache!Matches, Cache!Newest
  <2>2. CASE to # <<peer, ifindex>>
    <3> DEFINE h == heard[to]
    <3>1. h \in [routers : Routers \cup {0}, age : 0..Capacity] /\ Remembered(to)
      BY DEF TypeOK, Memory
    <3>2. heard'[to] = Older(h)
      BY <2>2
    <3> HIDE DEF h
    <3>3. ASSUME NEW j \in 0..(srci_count' - 1), j < heard'[to].age
          PROVE  ~Cache!Matches(srci'[Cache!Before(srci_end', j)], to[1], to[2])
      <4>1. CASE j = 0
        BY <4>1, <2>2, <1>6, <1>10
      <4>2. CASE j # 0
        <5> DEFINE i == j - 1
        <5>1. i \in 0..(Capacity - 2) /\ i \in 0..(srci_count - 1) /\ i + 1 = j
          BY <4>2, <1>4, <1>7, <1>8
        <5>2. i < h.age
          BY <3>1, <3>2, <3>3, <4>2, <1>4, <1>8 DEF Older, Unheard
        <5>3. ~Cache!Matches(srci[Cache!Newest(i)], to[1], to[2])
          BY <3>1, <5>1, <5>2 DEF Remembered, h
        <5> HIDE DEF i
        <5> QED
          BY <5>1, <5>3, <1>11
      <4> QED
        BY <4>1, <4>2
    <3>4. ASSUME heard'[to].age < Capacity
          PROVE  /\ heard'[to].age < srci_count'
                 /\ Cache!Matches(srci'[Cache!Before(srci_end', heard'[to].age)], to[1], to[2])
                 /\ \E in \in InitialTtl : /\ heard'[to].routers < in
                                           /\ srci'[Cache!Before(srci_end', heard'[to].age)].ttl = in - heard'[to].routers
      <4> DEFINE a == h.age
      <4>1. a \in 0..(Capacity - 2) /\ heard'[to].age = a + 1 /\ heard'[to].routers = h.routers
        BY <3>1, <3>2, <3>4, <1>4 DEF Older, Unheard
      <4>2. /\ a < srci_count
            /\ Cache!Matches(srci[Cache!Newest(a)], to[1], to[2])
            /\ \E in \in InitialTtl : h.routers < in /\ srci[Cache!Newest(a)].ttl = in - h.routers
        BY <3>1, <4>1, <1>4 DEF Remembered, h
      <4> HIDE DEF a
      <4>3. srci'[Cache!Before(srci_end', a + 1)] = srci[Cache!Newest(a)]
        BY <4>1, <1>11
      <4>4. a + 1 < srci_count'
        BY <4>1, <4>2, <1>4, <1>7
      <4> QED
        BY <4>1, <4>2, <4>3, <4>4
    <3> QED
      BY <3>3, <3>4 DEF Remembered, Cache!Newest
  <2> QED
    BY <2>1, <2>2
<1> QED
  BY <1>9, <1>12 DEF Memory

(* A lookup finds what was heard last, or nothing.                          *)
LEMMA GetRecalls ==
  ASSUME TypeOK, CacheUp, Memory, pc = "idle",
         NEW peer \in Peer, NEW ifindex \in Ifindex, Cache!Get(peer, ifindex)
  PROVE  LET h == heard[<<peer, ifindex>>]
         IN  /\ h.age < Capacity =>
                  \E initial \in InitialTtl : h.routers < initial /\ SourceTtl(ret') = initial - h.routers
             /\ ~(h.age < Capacity) => SourceTtl(ret') = 0
<1> DEFINE to == <<peer, ifindex>>
           h == heard[to]
<1>1. ifindex # 0 /\ peer \notin Cache!Foreign /\ srci # Null
  BY IfindexAssumption DEF CacheUp, Peer, Cache!Sockaddr, Cache!Foreign
<1>2. h \in [routers : Routers \cup {0}, age : 0..Capacity] /\ Remembered(to) /\ to[1] = peer /\ to[2] = ifindex
  BY <1>1 DEF TypeOK, Memory
<1>3. srci_count \in 0..Capacity /\ Capacity \in Nat \ {0}
  BY CapacityIsPositive DEF CacheUp, Cache!TypeOK
<1> HIDE DEF to
<1>4. /\ h.age < Capacity =>
           /\ h.age < srci_count
           /\ Cache!Matches(srci[Cache!Newest(h.age)], peer, ifindex)
           /\ \E initial \in InitialTtl :
                h.routers < initial /\ srci[Cache!Newest(h.age)].ttl = initial - h.routers
      /\ \A j \in 0..(srci_count - 1) : j < h.age => ~Cache!Matches(srci[Cache!Newest(j)], peer, ifindex)
  BY <1>2 DEF Remembered
<1> HIDE DEF h
<1>5. CASE h.age < Capacity
  <2>1. h.age \in 0..(srci_count - 1)
    BY <1>2, <1>3, <1>4, <1>5
  <2>2. Cache!GetFound(peer, ifindex)
    BY <1>1, <1>4, <1>5, <2>1 DEF Cache!Get, Cache!GetRefused, Cache!GetMissing
  <2>3. PICK i \in 0..(srci_count - 1) :
          /\ Cache!Matches(srci[Cache!Newest(i)], peer, ifindex)
          /\ \A j \in 0..(i - 1) : ~Cache!Matches(srci[Cache!Newest(j)], peer, ifindex)
          /\ ret' = [rc |-> 0, addr |-> peer, ifindex |-> ifindex,
                      ttl |-> srci[Cache!Newest(i)].ttl, hwaddr |-> srci[Cache!Newest(i)].hwaddr]
    BY <2>2 DEF Cache!GetFound
  <2>4. ~(i < h.age)
    BY <1>4, <2>3
  <2>5. ~(h.age < i)
    <3>1. h.age < i => h.age \in 0..(i - 1)
      BY <2>1
    <3> QED
      BY <3>1, <1>4, <1>5, <2>3
  <2>6. i = h.age
    BY <2>1, <2>4, <2>5
  <2>7. SourceTtl(ret') = srci[Cache!Newest(h.age)].ttl
    BY <2>3, <2>6 DEF SourceTtl
  <2> QED
    BY <2>7, <1>4, <1>5 DEF h, to
<1>6. CASE ~(h.age < Capacity)
  <2>1. \A j \in 0..(srci_count - 1) : j < h.age
    BY <1>2, <1>3, <1>6
  <2>2. Cache!GetMissing(peer, ifindex)
    BY <1>1, <1>4, <2>1 DEF Cache!Get, Cache!GetRefused, Cache!GetFound
  <2>3. SourceTtl(ret') = 0
    BY <2>2 DEF Cache!GetMissing, SourceTtl
  <2> QED
    BY <2>3, <1>6 DEF h, to
<1> QED
  BY <1>5, <1>6 DEF h, to

LEMMA EstimateRange ==
  ASSUME NEW ttl \in Byte
  PROVE  HopEstimate(ttl) \in 0..127
  BY DEF Byte, HopEstimate

LEMMA DecoyTtlOfFarPeer ==
  ASSUME TypeOK, NEW hops \in 0..127, IsFar(hops, g_ctx)
  PROVE  /\ DecoyTtl(hops, g_ctx) \in Byte
         /\ ~g_ctx.nohopest => DecoyTtl(hops, g_ctx) >= g_ctx.ttl /\ DecoyTtl(hops, g_ctx) < hops
<1>1. g_ctx.ttl \in 1..255 /\ g_ctx.dynamic_pct \in Pct
  BY OptionsTyped DEF Pct
<1>2. CASE g_ctx.nohopest
  BY <1>1, <1>2 DEF DecoyTtl, Byte
<1>3. CASE ~g_ctx.nohopest
  <2>1. hops > g_ctx.ttl /\ hops > 0 /\ hops \in Nat
    BY <1>1, <1>3 DEF IsFar
  <2> DEFINE share == (hops * g_ctx.dynamic_pct) \div 100
  <2>2. share \in 0..(hops - 1)
    BY <1>1, <2>1, ShareIsLess
  <2>3. DecoyTtl(hops, g_ctx) = IF g_ctx.dynamic_pct # 0 /\ share > g_ctx.ttl THEN share ELSE g_ctx.ttl
    BY <1>3 DEF DecoyTtl, CalcSndTtl
  <2> HIDE DEF share
  <2> QED
    BY <1>1, <2>1, <2>2, <2>3 DEF Byte
<1> QED
  BY <1>2, <1>3

LEMMA AnswerDecides ==
  ASSUME TypeOK, pkt' \in Packet, NEW hops \in 0..127, Estimated(hops)', UNCHANGED <<g_ctx, sent>>,
         sent = <<>>, Answer(Enabled', hops)
  PROVE  /\ Decided' /\ payload' \in 1..Payloads
         /\ decoy' \in [ttl : Byte, payload : 1..Payloads] \cup {None}
<1>1. g_ctx.repeat \in 1..10 /\ Len(sent') = 0 /\ Payloads \in Nat \ {0} /\ payload \in 1..Payloads
  BY OptionsTyped, PayloadsAssumption DEF TypeOK
<1>2. CASE Enabled' /\ Engage(hops)
  <2>1. IsFar(hops, g_ctx) /\ pc' = "decoys" /\ payload' = (payload % Payloads) + 1
        /\ decoy' = [ttl |-> DecoyTtl(hops, g_ctx), payload |-> payload]
    BY <1>2 DEF Engage, TakePayload
  <2>2. DecoyTtl(hops, g_ctx) \in Byte
    BY <2>1, DecoyTtlOfFarPeer
  <2>3. payload % Payloads \in 0..(Payloads - 1)
    BY <1>1
  <2>4. payload' \in 1..Payloads
    BY <1>1, <2>1, <2>3
  <2>5. decoy' \in [ttl : {DecoyTtl(hops, g_ctx)} \cap Byte, payload : 1..Payloads]
    BY <1>1, <2>1, <2>2
  <2>6. decoy' \in [ttl : Byte, payload : 1..Payloads]
    BY <1>1, <2>1, <2>2
  <2>7. Decided'
    <3>1. IsFar(hops, g_ctx)' /\ Len(sent') < g_ctx'.repeat
      BY <1>1, <2>1 DEF IsFar
    <3>2. decoy' \in [ttl : {DecoyTtl(hops, g_ctx)'} \cap Byte, payload : 1..Payloads]
      BY <2>5 DEF DecoyTtl
    <3> QED
      BY <1>2, <2>1, <3>1, <3>2, Zenon DEF Decided
  <2> QED
    BY <2>4, <2>6, <2>7
<1>3. CASE ~(Enabled' /\ IsFar(hops, g_ctx)) /\ Spare
  <2>1. pc' = "verdict" /\ UNCHANGED <<decoy, payload>>
    BY <1>3 DEF Spare
  <2>2. Decided'
    <3>1. ~(Enabled' /\ IsFar(hops, g_ctx)')
      BY <1>3 DEF IsFar
    <3>2. Len(sent') = IF Enabled' /\ IsFar(hops, g_ctx)' THEN g_ctx'.repeat ELSE 0
      BY <1>1, <3>1
    <3>3. pc' # "decoys"
      BY <2>1
    <3> QED
      BY <2>1, <3>2, <3>3, Zenon DEF Decided
  <2> QED
    BY <2>1, <2>2 DEF TypeOK
<1> QED
  BY <1>2, <1>3 DEF Answer
-----------------------------------------------------------------------------
(* What the rest of the proof adds to Inv.                                  *)
Rest == TypeOK /\ CacheUp /\ Memory /\ Decided

LEMMA InboundPreserves ==
  ASSUME Inv, Rest, NEW peer \in Peer, NEW ifindex \in Ifindex,
         NEW routers \in Routers, NEW initial \in InitialTtl, Inbound(peer, ifindex, routers, initial)
  PROVE  Rest'
<1> DEFINE ttl == initial - routers
           hops == HopEstimate(ttl)
<1>1. /\ pc = "idle" /\ ttl > 0 /\ UNCHANGED <<g_ctx, open, sockif, bound, sent>>
      /\ pkt' = [pkttype |-> "PACKET_HOST", peer |-> peer, ifindex |-> ifindex]
      /\ \E hwaddr \in Hwaddr : Cache!Put(peer, ifindex, ttl, hwaddr)
      /\ Answer(g_ctx.outbound, hops)
      /\ heard' = [to \in Peer \X Ifindex |->
           IF to = <<peer, ifindex>> THEN [routers |-> routers, age |-> 0] ELSE Older(heard[to])]
  BY DEF Inbound
<1>2. routers \in Nat /\ initial \in {64, 128, 255} /\ routers < initial /\ ttl \in Byte
  BY <1>1, RoutersAssumption DEF InitialTtl, Byte
<1>3. sent = <<>>
  BY <1>1 DEF Inv, Decoys, Engaged
<1>4. hops \in 0..127 /\ hops \in 0..routers /\ (routers < 64 => hops = routers)
  BY <1>2, EstimateRange, EstimateIsLowerBound, EstimateIsExact DEF InitialTtl
<1> HIDE DEF hops
<1>5. pkt' \in Packet /\ pkt'.pkttype = "PACKET_HOST" /\ pkt'.peer = peer /\ pkt'.ifindex = ifindex
  BY <1>1 DEF Packet
<1>6. Estimated(hops)' /\ Enabled' = g_ctx.outbound
  <2>1. heard'[<<pkt'.peer, pkt'.ifindex>>] = [routers |-> routers, age |-> 0]
    BY <1>1, <1>5
  <2>2. Heard(pkt)'.routers = routers /\ Heard(pkt)'.age = 0
    BY <2>1 DEF Heard
  <2>3. Known(pkt)'
    BY <2>2, CapacityIsPositive DEF Known
  <2>4. ~NeedSnat'
    BY <1>5 DEF NeedSnat
  <2> QED
    BY <1>1, <1>2, <1>4, <2>2, <2>3, <2>4 DEF Estimated, Enabled
<1>7. Decided' /\ payload' \in 1..Payloads /\ decoy' \in [ttl : Byte, payload : 1..Payloads] \cup {None}
  <2>1. Answer(Enabled', hops)
    BY <1>1, <1>6
  <2> QED
    BY <2>1, <1>1, <1>3, <1>4, <1>5, <1>6, AnswerDecides DEF Rest
<1>8. Cache!TypeOK' /\ srci' # Null /\ Memory'
  <2>1. Cache!TypeOK /\ srci # Null /\ Memory /\ TypeOK
    BY <1>1 DEF Rest, CacheUp
  <2>2. PICK hwaddr \in Hwaddr : Cache!Put(peer, ifindex, ttl, hwaddr)
    BY <1>1
  <2> HIDE DEF ttl
  <2>3. ttl = initial - routers
    BY DEF ttl
  <2> QED
    BY <1>1, <1>2, <2>1, <2>2, <2>3, PutRemembers
<1>9. pc' \in {"decoys", "verdict"}
  BY <1>1 DEF Answer, Engage, Spare
<1>10. heard' \in [Peer \X Ifindex -> [routers : Routers \cup {0}, age : 0..Capacity]]
  <2>1. ASSUME NEW h \in [routers : Routers \cup {0}, age : 0..Capacity]
        PROVE  Older(h) \in [routers : Routers \cup {0}, age : 0..Capacity]
    BY CapacityIsPositive DEF Older, Unheard
  <2>2. [routers |-> routers, age |-> 0] \in [routers : Routers \cup {0}, age : 0..Capacity]
    BY CapacityIsPositive
  <2>3. \A to \in Peer \X Ifindex : heard'[to] \in [routers : Routers \cup {0}, age : 0..Capacity]
    BY <1>1, <2>1, <2>2 DEF Rest, TypeOK
  <2> QED
    BY <1>1, <2>3
<1>11. TypeOK'
  BY <1>1, <1>5, <1>7, <1>9, <1>10 DEF Rest, TypeOK
<1> QED
  BY <1>7, <1>8, <1>9, <1>11 DEF Rest, CacheUp

LEMMA RoutersAreNumbers == \A n \in Routers \cup {0} : n \in Nat
  BY RoutersAssumption

LEMMA HopsOfPeer ==
  ASSUME NEW routers \in Nat, NEW initial \in InitialTtl, routers < initial
  PROVE  LET hops == HopEstimate(initial - routers)
         IN  hops \in 0..127 /\ hops <= routers /\ (routers < 64 => hops = routers)
<1>1. initial - routers \in Byte
  BY DEF InitialTtl, Byte
<1>2. HopEstimate(initial - routers) \in 0..127 /\ HopEstimate(initial - routers) \in 0..routers
      /\ (routers < 64 => HopEstimate(initial - routers) = routers)
  BY <1>1, EstimateRange, EstimateIsLowerBound, EstimateIsExact
<1> DEFINE h == HopEstimate(initial - routers)
<1>3. h \in 0..127 /\ h \in 0..routers /\ (routers < 64 => h = routers)
  BY <1>2
<1> HIDE DEF h
<1>4. h \in 0..127 /\ h <= routers /\ (routers < 64 => h = routers)
  BY <1>3
<1> QED
  BY <1>4 DEF h

LEMMA OutboundPreserves ==
  ASSUME Inv, Rest, NEW peer \in Peer, NEW ifindex \in Ifindex, Outbound(peer, ifindex)
  PROVE  Rest'
<1>1. /\ pc = "idle" /\ UNCHANGED <<g_ctx, open, sockif, bound, sent, heard>>
      /\ pkt' = [pkttype |-> "PACKET_OUTGOING", peer |-> peer, ifindex |-> ifindex]
      /\ Cache!Get(peer, ifindex)
      /\ Answer(g_ctx.inbound, HopEstimate(SourceTtl(ret')))
  BY DEF Outbound
<1>2. PICK h \in [routers : Routers \cup {0}, age : 0..Capacity] : h = heard[<<peer, ifindex>>]
  BY DEF Rest, TypeOK
<1>3. /\ h.age < Capacity =>
           \E initial \in InitialTtl : h.routers < initial /\ SourceTtl(ret') = initial - h.routers
      /\ ~(h.age < Capacity) => SourceTtl(ret') = 0
  BY <1>1, <1>2, GetRecalls DEF Rest
<1>4. PICK hops \in 0..127 :
        /\ hops = HopEstimate(SourceTtl(ret'))
        /\ h.age < Capacity => hops <= h.routers /\ (h.routers < 64 => hops = h.routers)
        /\ ~(h.age < Capacity) => hops = 64
  <2>1. CASE h.age < Capacity
    <3>1. PICK initial \in InitialTtl : h.routers < initial /\ SourceTtl(ret') = initial - h.routers
      BY <1>3, <2>1
    <3>2. h.routers \in Routers \cup {0}
      OBVIOUS
    <3>3. h.routers \in Nat
      BY <3>2, RoutersAreNumbers
    <3>4. HopEstimate(SourceTtl(ret')) = HopEstimate(initial - h.routers)
      BY <3>1
    <3> DEFINE hops == HopEstimate(initial - h.routers)
    <3>5. hops \in 0..127 /\ hops <= h.routers /\ (h.routers < 64 => hops = h.routers)
      BY <3>1, <3>3, HopsOfPeer
    <3> HIDE DEF hops
    <3> QED
      BY <2>1, <3>4, <3>5 DEF hops
  <2>2. CASE ~(h.age < Capacity)
    <3>1. SourceTtl(ret') = 0
      BY <1>3, <2>2
    <3>2. HopEstimate(SourceTtl(ret')) = 64
      BY <3>1 DEF HopEstimate
    <3> QED
      BY <2>2, <3>2
  <2> QED
    BY <2>1, <2>2
<1>5. pkt' \in Packet /\ pkt'.pkttype = "PACKET_OUTGOING" /\ pkt'.peer = peer /\ pkt'.ifindex = ifindex
  BY <1>1 DEF Packet
<1>6. Estimated(hops)' /\ Enabled' = g_ctx.inbound
  <2>1. Heard(pkt)' = h
    BY <1>1, <1>2, <1>5 DEF Heard
  <2>2. Known(pkt)' <=> h.age < Capacity
    BY <2>1 DEF Known
  <2>3. NeedSnat'
    BY <1>5 DEF NeedSnat
  <2>4. Estimated(hops)'
    BY <1>4, <2>1, <2>2 DEF Estimated
  <2> QED
    BY <1>1, <2>3, <2>4 DEF Enabled
<1>7. sent = <<>>
  BY <1>1 DEF Inv, Decoys, Engaged
<1>8. Decided' /\ payload' \in 1..Payloads /\ decoy' \in [ttl : Byte, payload : 1..Payloads] \cup {None}
  <2>1. Answer(Enabled', hops)
    BY <1>1, <1>4, <1>6
  <2> QED
    BY <2>1, <1>1, <1>4, <1>5, <1>6, <1>7, AnswerDecides DEF Rest
<1>9. UNCHANGED <<srci, srci_end, srci_count>>
  BY <1>1 DEF Cache!Get, Cache!GetRefused, Cache!GetFound, Cache!GetMissing
<1>10. pc' \in {"decoys", "verdict"}
  BY <1>1 DEF Answer, Engage, Spare
<1>11. TypeOK'
  BY <1>1, <1>5, <1>8, <1>10 DEF Rest, TypeOK
<1>12. CacheUp'
  BY <1>1, <1>9, <1>10 DEF Rest, CacheUp, Cache!TypeOK
<1>13. Memory'
  BY <1>1, <1>9 DEF Rest, Memory, Remembered, Cache!Newest
<1> QED
  BY <1>8, <1>11, <1>12, <1>13 DEF Rest

LEMMA InitRest == Init => Rest
<1> SUFFICES ASSUME Init PROVE Rest
  OBVIOUS
<1>1. TypeOK
  <2>1. Unheard \in [routers : Routers \cup {0}, age : 0..Capacity]
    BY CapacityIsPositive DEF Unheard
  <2>2. heard \in [Peer \X Ifindex -> [routers : Routers \cup {0}, age : 0..Capacity]]
    BY <2>1 DEF Init
  <2>3. sent \in Seq([egress : Ifindex \cup {-1}, ttl : Byte, payload : 1..Payloads])
    BY DEF Init
  <2> QED
    BY <2>2, <2>3, PayloadsAssumption DEF Init, TypeOK
<1>2. Cache!TypeOK /\ srci = Null
  BY CapacityIsPositive DEF Init, Cache!Init, Cache!TypeOK
<1>3. CacheUp
  BY <1>2 DEF Init, CacheUp
<1>4. Memory /\ Decided
  BY <1>2 DEF Init, Memory, Decided
<1> QED
  BY <1>1, <1>3, <1>4 DEF Rest

(* An empty cache remembers nobody, and nobody was heard.                    *)
LEMMA SetupRest == Rest /\ Setup => Rest'
<1> SUFFICES ASSUME Rest, Setup PROVE Rest'
  OBVIOUS
<1>1. TypeOK'
  BY DEF Rest, TypeOK, Setup, Wanted
<1>2. /\ srci' = [i \in Cache!Index |-> Blank] /\ srci_end' = 0 /\ srci_count' = 0
      /\ pc' = "idle" /\ heard' = heard
      /\ \A to \in Peer \X Ifindex : heard[to] = Unheard
  BY DEF Setup, Rest, CacheUp, Cache!SetupDone
<1>3. CacheUp'
  <2>1. srci' \in [Cache!Index -> Cache!Slot]
    BY <1>2 DEF Cache!Slot
  <2>2. srci' # Null
    BY <2>1, CacheAssumption
  <2> QED
    BY <1>2, <2>1, <2>2, CapacityIsPositive DEF CacheUp, Cache!TypeOK
<1>4. Memory'
  <2>1. ASSUME NEW to \in Peer \X Ifindex PROVE Remembered(to)'
    <3>1. heard'[to].age = Capacity /\ ~ \E j \in 0..(srci_count' - 1) : TRUE
      BY <1>2 DEF Unheard
    <3> QED
      BY <3>1, CapacityIsPositive DEF Remembered
  <2> QED
    BY <2>1 DEF Memory
<1>5. Decided'
  BY <1>2 DEF Decided
<1> QED
  BY <1>1, <1>3, <1>4, <1>5 DEF Rest

LEMMA CleanupRest == Rest /\ Cleanup => Rest'
<1> SUFFICES ASSUME Rest, Cleanup PROVE Rest'
  OBVIOUS
<1>1. TypeOK'
  BY DEF Rest, TypeOK, Cleanup, Family
<1>2. pc' = "stopped" /\ srci' = Null /\ Cache!TypeOK'
  BY CapacityIsPositive DEF Cleanup, Cache!Cleanup, Cache!TypeOK
<1>3. CacheUp' /\ Memory' /\ Decided'
  BY <1>2 DEF CacheUp, Memory, Decided
<1> QED
  BY <1>1, <1>3 DEF Rest

(* Steps of the handler that leave the cache alone keep what it remembers.  *)
LEMMA CacheKept ==
  ASSUME Rest, UNCHANGED <<cache, heard>>, pc \notin {"off", "stopped"}, pc' \notin {"off", "stopped"}
  PROVE  CacheUp' /\ Memory'
<1>1. UNCHANGED <<srci, srci_end, srci_count, heard>>
  BY DEF cache
<1>2. CacheUp'
  BY <1>1 DEF Rest, CacheUp, Cache!TypeOK
<1>3. Memory'
  BY <1>1 DEF Rest, Memory, Remembered, Cache!Newest
<1> QED
  BY <1>2, <1>3

LEMMA FailureRest == Rest /\ (Unreadable \/ BindFails \/ SendFails) => Rest'
<1> SUFFICES ASSUME Rest, Unreadable \/ BindFails \/ SendFails PROVE Rest'
  OBVIOUS
<1>1. /\ pc \in {"idle", "decoys"} /\ pc' = "failed"
      /\ UNCHANGED <<cache, g_ctx, open, sockif, bound, payload, pkt, decoy, sent, heard>>
  BY DEF Unreadable, BindFails, SendFails
<1>2. TypeOK'
  BY <1>1 DEF Rest, TypeOK
<1>3. Decided'
  BY <1>1 DEF Decided
<1> QED
  BY <1>1, <1>2, <1>3, CacheKept DEF Rest

LEMMA BindRest == Rest /\ Bind => Rest'
<1> SUFFICES ASSUME Rest, Bind PROVE Rest'
  OBVIOUS
<1>1. /\ pc = "decoys"
      /\ bound' = [bound EXCEPT ![Fam] = pkt.ifindex] /\ sockif' = [sockif EXCEPT ![Fam] = pkt.ifindex]
      /\ UNCHANGED <<cache, g_ctx, open, payload, pc, pkt, decoy, sent, heard>>
  BY DEF Bind
<1>2. pkt.ifindex \in Ifindex
  BY <1>1 DEF Rest, Decided, Packet
<1>3. TypeOK'
  BY <1>1, <1>2 DEF Rest, TypeOK
<1>4. Decided'
  BY <1>1 DEF Rest, Decided, Estimated, Known, Heard, Enabled, NeedSnat
<1> QED
  BY <1>1, <1>3, <1>4, CacheKept DEF Rest

(* The decoys go out one by one until -r of them did.                        *)
LEMMA SendRest == Rest /\ Send => Rest'
<1> SUFFICES ASSUME Rest, Send PROVE Rest'
  OBVIOUS
<1> DEFINE d == [egress |-> Egress, ttl |-> decoy.ttl, payload |-> decoy.payload]
           D == [egress : Ifindex \cup {-1}, ttl : Byte, payload : 1..Payloads]
<1>1. /\ pc = "decoys" /\ sent' = Append(sent, d)
      /\ pc' = IF Len(sent') < g_ctx.repeat THEN "decoys" ELSE "verdict"
      /\ UNCHANGED <<cache, g_ctx, open, sockif, bound, payload, pkt, decoy, heard>>
  BY DEF Send
<1>2. /\ pkt \in Packet /\ sent \in Seq(D)
      /\ \E hops \in 0..127 :
           /\ Estimated(hops) /\ Enabled /\ IsFar(hops, g_ctx) /\ Len(sent) < g_ctx.repeat
           /\ decoy \in [ttl : {DecoyTtl(hops, g_ctx)} \cap Byte, payload : 1..Payloads]
  BY <1>1 DEF Rest, Decided, TypeOK
<1>3. PICK hops \in 0..127 :
        /\ Estimated(hops) /\ Enabled /\ IsFar(hops, g_ctx) /\ Len(sent) < g_ctx.repeat
        /\ decoy \in [ttl : {DecoyTtl(hops, g_ctx)} \cap Byte, payload : 1..Payloads]
  BY <1>2
<1>4. d \in D
  <2>1. Egress \in Ifindex \cup {-1}
    <3>1. pkt.peer.family \in Family /\ pkt.ifindex \in Ifindex
      BY <1>2 DEF Packet, Peer, Cache!Sockaddr, Family
    <3> QED
      BY <3>1 DEF Egress, Fam, Rest, TypeOK
  <2> QED
    BY <2>1, <1>3
<1> HIDE DEF d, D
<1>5. sent' \in Seq(D) /\ Len(sent') = Len(sent) + 1
  BY <1>1, <1>2, <1>4
<1>6. TypeOK'
  BY <1>1, <1>5 DEF Rest, TypeOK, D
<1>7. Estimated(hops)' /\ Enabled' /\ IsFar(hops, g_ctx)'
      /\ decoy' \in [ttl : {DecoyTtl(hops, g_ctx)'} \cap Byte, payload : 1..Payloads]
  BY <1>1, <1>3 DEF Estimated, Known, Heard, Enabled, NeedSnat, IsFar, DecoyTtl, CalcSndTtl
<1>8. /\ pc' = "decoys" => Len(sent') < g_ctx'.repeat
      /\ pc' = "verdict" => Len(sent') = g_ctx'.repeat
  <2>1. g_ctx.repeat \in 1..10 /\ Len(sent) \in Nat /\ g_ctx' = g_ctx
    BY <1>1, <1>2, OptionsTyped DEF Rest
  <2> QED
    BY <2>1, <1>1, <1>3, <1>5
<1>9. Decided'
  <2>1. pkt' \in Packet
    BY <1>1, <1>2
  <2> QED
    BY <2>1, <1>7, <1>8, Zenon DEF Decided
<1>10. pc' \in {"decoys", "verdict"}
  BY <1>1
<1> QED
  BY <1>1, <1>6, <1>9, <1>10, CacheKept DEF Rest

LEMMA VerdictRest == Rest /\ Verdict => Rest'
<1> SUFFICES ASSUME Rest, Verdict PROVE Rest'
  OBVIOUS
<1>1. TypeOK'
  <2>1. sent' \in Seq([egress : Ifindex \cup {-1}, ttl : Byte, payload : 1..Payloads])
    BY DEF Verdict
  <2> QED
    BY <2>1 DEF Rest, TypeOK, Verdict
<1>2. CacheUp' /\ Memory'
  BY CacheKept DEF Verdict
<1>3. Decided'
  BY DEF Verdict, Decided
<1> QED
  BY <1>1, <1>2, <1>3 DEF Rest

LEMMA StutterRest == Rest /\ UNCHANGED vars => Rest'
<1> SUFFICES ASSUME Rest, UNCHANGED vars PROVE Rest'
  OBVIOUS
<1>1. UNCHANGED <<srci, srci_end, srci_count, g_ctx, open, sockif, bound, payload, pc, pkt, decoy, sent, heard>>
  BY DEF vars, cache
<1>2. TypeOK'
  BY <1>1 DEF Rest, TypeOK
<1>3. CacheUp'
  BY <1>1 DEF Rest, CacheUp, Cache!TypeOK
<1>4. Memory'
  BY <1>1 DEF Rest, Memory, Remembered, Cache!Newest
<1>5. Decided'
  <2>1. \A hops : Estimated(hops)' <=> Estimated(hops)
    BY <1>1 DEF Estimated, Known, Heard
  <2>2. Enabled' = Enabled
    BY <1>1 DEF Enabled, NeedSnat
  <2> QED
    BY <1>1, <2>1, <2>2 DEF Rest, Decided
<1> QED
  BY <1>2, <1>3, <1>4, <1>5 DEF Rest

LEMMA NextRest == Inv /\ Rest /\ [Next]_vars => Rest'
  BY SetupRest, CleanupRest, InboundPreserves, OutboundPreserves, FailureRest, BindRest, SendRest,
     VerdictRest, StutterRest DEF Next

LEMMA RestInvariance == Spec => []Rest
  BY InitRest, NextRest, Invariance, PTL DEF Spec

(* A decoy toward a peer that was heard lately on that interface dies before *)
(* it gets there and lives as long as -t asks for, however many packets of   *)
(* other peers went through the cache meanwhile, for every size of the cache *)
(* and every route (rawsend.c:406-416, :442-465).                            *)
THEOREM DecoysDieFirst == Spec => []DecoyDies
<1>1. Rest => DecoyDies
  <2> SUFFICES ASSUME Rest, pc = "decoys", ~g_ctx.nohopest, Known(pkt)
               PROVE  decoy.ttl >= g_ctx.ttl /\ decoy.ttl < Heard(pkt).routers
    BY DEF DecoyDies
  <2>1. PICK hops \in 0..127 : /\ hops <= Heard(pkt).routers /\ IsFar(hops, g_ctx)
                               /\ decoy.ttl = DecoyTtl(hops, g_ctx)
    BY DEF Rest, Decided, Estimated
  <2>2. pkt \in Packet
    BY DEF Rest, Decided
  <2>3. PICK h \in [routers : Routers \cup {0}, age : 0..Capacity] : h = Heard(pkt)
    <3>1. <<pkt.peer, pkt.ifindex>> \in Peer \X Ifindex
      BY <2>2 DEF Packet
    <3> QED
      BY <3>1 DEF Heard, Rest, TypeOK
  <2>4. h.routers \in Routers \cup {0}
    OBVIOUS
  <2>5. h.routers \in Nat
    BY <2>4, RoutersAreNumbers
  <2>6. DecoyTtl(hops, g_ctx) \in Byte /\ DecoyTtl(hops, g_ctx) >= g_ctx.ttl /\ DecoyTtl(hops, g_ctx) < hops
    BY <2>1, DecoyTtlOfFarPeer DEF Rest
  <2> QED
    BY <2>1, <2>3, <2>5, <2>6 DEF Byte
<1> QED
  BY <1>1, RestInvariance, PTL

(* A packet is accepted after all of its decoys or without any, as its       *)
(* direction and the distance of its peer ask for: all when the direction is *)
(* enabled and the peer is farther than -t (rawsend.c:385-492).              *)
THEOREM PacketsAnsweredInFull == Spec => []AnsweredInFull
<1>1. Rest => AnsweredInFull
  <2> SUFFICES ASSUME Rest, pc = "verdict", Heard(pkt).routers < 64
               PROVE  LET hops == IF Known(pkt) THEN Heard(pkt).routers ELSE 64
                      IN  Len(sent) = IF Enabled /\ IsFar(hops, g_ctx) THEN g_ctx.repeat ELSE 0
    BY DEF AnsweredInFull, Rest, Enabled
  <2>1. PICK hops \in 0..127 :
          Estimated(hops) /\ Len(sent) = IF Enabled /\ IsFar(hops, g_ctx) THEN g_ctx.repeat ELSE 0
    BY DEF Rest, Decided
  <2>2. hops = IF Known(pkt) THEN Heard(pkt).routers ELSE 64
    BY <2>1 DEF Estimated
  <2> QED
    BY <2>1, <2>2
<1> QED
  BY <1>1, RestInvariance, PTL
=============================================================================
