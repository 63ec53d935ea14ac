------------------------------ MODULE Rawsend ------------------------------
(***************************************************************************)
(* src/src/rawsend.c: what happens to one queued packet between its        *)
(* arrival and its verdict.  The source of an inbound packet is remembered *)
(* in the cache of srcinfo.c and looked up again for an outbound one; from *)
(* the TTL follows whether decoys are sent and how far they go.  Inbound   *)
(* packets are answered through a packet socket, outbound ones preceded    *)
(* through a raw socket bound to the interface they leave by.              *)
(***************************************************************************)
EXTENDS Hops, Sequences

CONSTANTS Capacity, Ip, Ifindex, Hwaddr, Null, Blank, \* of the cache
          Options,     \* what main() may leave in g_ctx
          Payloads,    \* number of payload nodes
          Routers,     \* how many routers a packet may have passed
          None

(* What main() leaves in g_ctx: -t and -r are not 0 and -y is a percentage,  *)
(* 0 when not given.  No packet without an interface gets to the handler.    *)
ASSUME OptionsAssumption ==
  Options \subseteq [inbound : BOOLEAN, outbound : BOOLEAN, use_ipv4 : BOOLEAN, use_ipv6 : BOOLEAN,
                     nohopest : BOOLEAN, dynamic_pct : 0..99, ttl : 1..255, repeat : 1..10]
ASSUME IfindexAssumption  == Ifindex \subseteq Nat \ {0}
ASSUME PayloadsAssumption == Payloads \in Nat \ {0}
ASSUME RoutersAssumption  == Routers \subseteq Nat

VARIABLES srci, srci_end, srci_count, ret,  \* the cache, see Srcinfo
          g_ctx,      \* the options, fixed
          open,       \* the sockets that are open
          sockif,     \* sock4if and sock6if
          bound,      \* the interface the kernel bound each raw socket to
          payload,    \* the node the next th_payload_get() returns
          pc, pkt,    \* where the handler is, and the packet it handles
          decoy,      \* TTL and payload of the decoys for that packet
          sent,       \* the decoys sent for it so far
          heard       \* ghost: where each peer was last heard, how long ago

cache == <<srci, srci_end, srci_count, ret>>
vars  == <<cache, g_ctx, open, sockif, bound, payload, pc, pkt, decoy, sent, heard>>

Cache == INSTANCE Srcinfo WITH Ttl <- Byte

ASSUME CacheAssumption ==
  /\ Capacity \in Nat \ {0}
  /\ Blank \notin Cache!Info
  /\ Null \notin [Cache!Index -> Cache!Slot]

Family == {"AF_INET", "AF_INET6"}
Peer   == Cache!Sockaddr
Packet == [pkttype : {"PACKET_HOST", "PACKET_OUTGOING"}, peer : Peer, ifindex : Ifindex]

Unheard == [routers |-> 0, age |-> Capacity]

Init ==
  /\ Cache!Init
  /\ g_ctx \in Options
  /\ open = {}
  /\ sockif = [f \in Family |-> -1] /\ bound = [f \in Family |-> -1]
  /\ payload = 1
  /\ pc = "off" /\ pkt = None /\ decoy = None /\ sent = <<>>
  /\ heard = [to \in Peer \X Ifindex |-> Unheard]
-----------------------------------------------------------------------------
Wanted ==
  (IF g_ctx.outbound THEN {"sockfd"} ELSE {}) \cup
  (IF g_ctx.inbound /\ g_ctx.use_ipv4 THEN {"sock4fd"} ELSE {}) \cup
  (IF g_ctx.inbound /\ g_ctx.use_ipv6 THEN {"sock6fd"} ELSE {})

(* fs_srcinfo_setup, then fs_rawsend_setup, as main() calls them. *)
Setup ==
  /\ pc = "off" /\ pc' = "idle"
  /\ Cache!SetupDone
  /\ open' = Wanted
  /\ UNCHANGED <<g_ctx, sockif, bound, payload, pkt, decoy, sent, heard>>

(* fs_rawsend_cleanup, also when a socket could not be opened. *)
Cleanup ==
  /\ pc \in {"off", "idle"} /\ pc' = "stopped"
  /\ Cache!Cleanup
  /\ open' = {}
  /\ sockif' = [f \in Family |-> -1] /\ bound' = [f \in Family |-> -1]
  /\ UNCHANGED <<g_ctx, payload, pkt, decoy, sent, heard>>
-----------------------------------------------------------------------------
(* th_payload_get *)
TakePayload == payload' = (payload % Payloads) + 1

Engage(hops) ==
  /\ IsFar(hops, g_ctx)
  /\ decoy' = [ttl |-> DecoyTtl(hops, g_ctx), payload |-> payload]
  /\ TakePayload
  /\ pc' = "decoys"

Spare == pc' = "verdict" /\ UNCHANGED <<decoy, payload>>

Answer(enabled, hops) ==
  \/ enabled /\ Engage(hops)
  \/ ~(enabled /\ IsFar(hops, g_ctx)) /\ Spare

Recognised(peer) ==
  IF peer.family = "AF_INET" THEN g_ctx.use_ipv4 ELSE g_ctx.use_ipv6

Older(h) == IF h.age + 1 < Capacity THEN [h EXCEPT !.age = @ + 1] ELSE Unheard

(* A packet from a peer that left with one of the usual TTLs. *)
Inbound(peer, ifindex, routers, initial) ==
  LET ttl == initial - routers IN
  /\ pc = "idle" /\ Recognised(peer) /\ ttl > 0
  /\ pkt' = [pkttype |-> "PACKET_HOST", peer |-> peer, ifindex |-> ifindex]
  /\ \E hwaddr \in Hwaddr : Cache!Put(peer, ifindex, ttl, hwaddr)
  /\ Answer(g_ctx.outbound, HopEstimate(ttl))
  /\ heard' = [to \in Peer \X Ifindex |->
       IF to = <<peer, ifindex>> THEN [routers |-> routers, age |-> 0] ELSE Older(heard[to])]
  /\ UNCHANGED <<g_ctx, open, sockif, bound, sent>>

(* Of a peer that is not in the cache the TTL counts as zero. *)
SourceTtl(answer) == IF answer.rc = 0 THEN answer.ttl ELSE 0

Outbound(peer, ifindex) ==
  /\ pc = "idle" /\ Recognised(peer)
  /\ pkt' = [pkttype |-> "PACKET_OUTGOING", peer |-> peer, ifindex |-> ifindex]
  /\ Cache!Get(peer, ifindex)
  /\ Answer(g_ctx.inbound, HopEstimate(SourceTtl(ret')))
  /\ UNCHANGED <<g_ctx, open, sockif, bound, sent, heard>>

(* An ethertype that is not wanted, or a packet that does not parse. *)
Unreadable ==
  /\ pc = "idle" /\ pc' = "failed"
  /\ UNCHANGED <<cache, g_ctx, open, sockif, bound, payload, pkt, decoy, sent, heard>>
-----------------------------------------------------------------------------
NeedSnat == pkt.pkttype = "PACKET_OUTGOING"
Fam      == pkt.peer.family
Socket   == IF ~NeedSnat THEN "sockfd" ELSE IF Fam = "AF_INET" THEN "sock4fd" ELSE "sock6fd"
MustBind == NeedSnat /\ sockif[Fam] # pkt.ifindex

(* sendto_snat binds its socket again only when the interface changed.      *)
Bind ==
  /\ pc = "decoys" /\ MustBind /\ Socket \in open
  /\ bound' = [bound EXCEPT ![Fam] = pkt.ifindex]
  /\ sockif' = [sockif EXCEPT ![Fam] = pkt.ifindex]
  /\ UNCHANGED <<cache, g_ctx, open, payload, pc, pkt, decoy, sent, heard>>

(* Mutant: the interface is noted before the binding is tried. *)
BindFailsNoted ==
  /\ pc = "decoys" /\ MustBind
  /\ pc' = "failed"
  /\ sockif' = [sockif EXCEPT ![Fam] = pkt.ifindex]
  /\ UNCHANGED <<cache, g_ctx, open, bound, payload, pkt, decoy, sent, heard>>
BindFails ==
  /\ pc = "decoys" /\ MustBind
  /\ pc' = "failed"
  /\ UNCHANGED <<cache, g_ctx, open, sockif, bound, payload, pkt, decoy, sent, heard>>

Egress == IF NeedSnat THEN bound[Fam] ELSE pkt.ifindex

(* Mutant: one decoy too many. *)
SendOneMore ==
  /\ pc = "decoys" /\ ~MustBind /\ Socket \in open
  /\ sent' = Append(sent, [egress |-> Egress, ttl |-> decoy.ttl, payload |-> decoy.payload])
  /\ pc' = IF Len(sent') <= g_ctx.repeat THEN "decoys" ELSE "verdict"
  /\ UNCHANGED <<cache, g_ctx, open, sockif, bound, payload, pkt, decoy, heard>>
Send ==
  /\ pc = "decoys" /\ ~MustBind /\ Socket \in open
  /\ sent' = Append(sent, [egress |-> Egress, ttl |-> decoy.ttl, payload |-> decoy.payload])
  /\ pc' = IF Len(sent') < g_ctx.repeat THEN "decoys" ELSE "verdict"
  /\ UNCHANGED <<cache, g_ctx, open, sockif, bound, payload, pkt, decoy, heard>>

SendFails ==
  /\ pc = "decoys" /\ ~MustBind
  /\ pc' = "failed"
  /\ UNCHANGED <<cache, g_ctx, open, sockif, bound, payload, pkt, decoy, sent, heard>>

(* The callback accepts the packet, whether the handler returned or failed. *)
Verdict ==
  /\ pc \in {"verdict", "failed"} /\ pc' = "idle"
  /\ pkt' = None /\ decoy' = None /\ sent' = <<>>
  /\ UNCHANGED <<cache, g_ctx, open, sockif, bound, payload, heard>>

Next ==
  \/ Setup
  \/ Cleanup
  \/ \E peer \in Peer, ifindex \in Ifindex, routers \in Routers, initial \in InitialTtl :
       Inbound(peer, ifindex, routers, initial)
  \/ \E peer \in Peer, ifindex \in Ifindex : Outbound(peer, ifindex)
  \/ Unreadable
  \/ Bind
  \/ BindFails
  \/ Send
  \/ SendFails
  \/ Verdict

Spec == Init /\ [][Next]_vars
-----------------------------------------------------------------------------
TypeOK ==
  /\ g_ctx \in Options
  /\ open \subseteq {"sockfd", "sock4fd", "sock6fd"}
  /\ sockif \in [Family -> Ifindex \cup {-1}] /\ bound \in [Family -> Ifindex \cup {-1}]
  /\ payload \in 1..Payloads
  /\ pc \in {"off", "idle", "decoys", "verdict", "failed", "stopped"}
  /\ pkt \in Packet \cup {None}
  /\ decoy \in [ttl : Byte, payload : 1..Payloads] \cup {None}
  /\ sent \in Seq([egress : Ifindex \cup {-1}, ttl : Byte, payload : 1..Payloads])
  /\ heard \in [Peer \X Ifindex -> [routers : Routers \cup {0}, age : 0..Capacity]]

Heard(p) == heard[<<p.peer, p.ifindex>>]
Known(p) == Heard(p).age < Capacity

(* A decoy toward a peer that was heard on that interface no more than      *)
(* Capacity inbound packets ago dies before it gets there, by the route the *)
(* peer was last heard on, and lives as long as -t asks for, whatever other *)
(* traffic went through the cache meanwhile (rawsend.c:406-416, :442-465).  *)
DecoyDies ==
  pc = "decoys" /\ ~g_ctx.nohopest /\ Known(pkt) =>
    decoy.ttl >= g_ctx.ttl /\ decoy.ttl < Heard(pkt).routers

(* A packet the handler accepts was preceded by all its decoys or by none:  *)
(* all when its direction is enabled and its peer is farther than -t, none  *)
(* otherwise.  A peer not heard lately counts as 64 hops away; one beyond   *)
(* 63 routers may be taken for a nearer one (rawsend.c:385-492).            *)
AnsweredInFull ==
  /\ TypeOK
  /\ pc = "verdict" /\ Heard(pkt).routers < 64 =>
    LET enabled == IF NeedSnat THEN g_ctx.inbound ELSE g_ctx.outbound
        hops    == IF Known(pkt) THEN Heard(pkt).routers ELSE 64
    IN Len(sent) = IF enabled /\ IsFar(hops, g_ctx) THEN g_ctx.repeat ELSE 0

(* The sockets the options open are those the handler comes to use          *)
(* (rawsend.c:293-320 opens them, :149-235 pick one).                      *)
UsesOpenSocket == pc = "decoys" => Socket \in open

ByItsInterface == \A k \in 1..Len(sent) : sent[k].egress = pkt.ifindex

(* Every decoy leaves by the interface its packet came in or goes out by,   *)
(* whatever binding failed before, and by a socket that setup opened:       *)
(* sock4if and sock6if never claim a binding that the kernel does not have, *)
(* nor does the handler pick a descriptor of -1 (rawsend.c:156-179).        *)
EgressMatches == UsesOpenSocket /\ ByItsInterface

(* -0 processes inbound packets and -1 outbound ones, as the usage text     *)
(* says (mainfun.c:67-68): decoys are sent for no other packet.             *)
UsageDirections ==
  sent # <<>> => IF NeedSnat THEN g_ctx.outbound ELSE g_ctx.inbound
=============================================================================
