------------------------------ MODULE Packets ------------------------------
(***************************************************************************)
(* src/src/ipv4pkt.c and ipv6pkt.c: parsing a packet from the queue into a *)
(* TTL and the size of its UDP payload, and building a decoy.  The IPv6    *)
(* parser walks over extension headers; what it finds in them is chosen    *)
(* when it reads it.                                                       *)
(***************************************************************************)
EXTENDS Integers, Sequences

CONSTANTS PktLen,     \* lengths of packets
          Plen,       \* what the IPv6 payload length field may hold
          Ihl,        \* what the IPv4 header length field may hold
          HdrExtLen,  \* what the length byte of an extension header may hold
          UdpLen,     \* what the UDP length field may hold
          Ttl,
          Size,       \* sizes of payloads
          None

Nibble == 0..15
Byte   == 0..255
WordMax == 65535
Word16 == 0..WordMax

ASSUME FieldsAssumption ==
  /\ PktLen \subseteq Word16 /\ Plen \subseteq Word16 /\ UdpLen \subseteq Word16
  /\ Ihl \subseteq Nibble /\ HdrExtLen \subseteq Byte /\ Ttl \subseteq Byte
ASSUME SizeAssumption == Size \subseteq 0..1200     \* BUFFLEN of payload.c
ASSUME NoneAssumption == None \notin Int

BufferSize == 1600     \* pkt_buff of send_payload
IpHdr  == 20
Ip6Hdr == 40
UdpHdr == 8
MaxExtensions == 16

Header == {"hopopts", "dstopts", "udp", "other"}

(* What is at fixed places: version and ihl of the first byte, the length of *)
(* the IP header (IPv4's counts the header, IPv6's does not), next header or *)
(* protocol, TTL or hop limit.                                               *)
Packet == [family : {4, 6}, len : Word16, version : Nibble, ihl : Nibble, plen : Word16,
           next : Header, ttl : Byte]

VARIABLES pc,      \* "idle" "parse" "walk" "accepted" "refused"
          pkt,
          offset, remaining, next_header, extensions,
          chain,   \* ghost: the extension headers read
          udp_len, \* the UDP length field: None if it was not read
          reach,   \* ghost: the end of what was read so far
          ttl, payload_len,  \* what the parser returns
          made     \* ghost: the decoy this packet was built as

walk == <<offset, remaining, next_header, extensions, chain, udp_len, reach>>
vars == <<pc, pkt, walk, ttl, payload_len, made>>

Start(p, m) ==
  /\ pc' = "parse" /\ pkt' = p /\ made' = m
  /\ offset' = Ip6Hdr /\ remaining' = 0 /\ next_header' = p.next /\ extensions' = 0
  /\ chain' = <<>> /\ udp_len' = None /\ reach' = 0 /\ ttl' = 0 /\ payload_len' = 0

Ip4(len, tot_len, ihl, next, t) ==
  [family |-> 4, len |-> len, version |-> 4, ihl |-> ihl, plen |-> tot_len, next |-> next, ttl |-> t]
Ip6(len, version, plen, next, t) ==
  [family |-> 6, len |-> len, version |-> version, ihl |-> 0, plen |-> plen, next |-> next, ttl |-> t]

Init ==
  /\ pc = "idle" /\ pkt = Ip4(0, 0, 0, "other", 0) /\ made = None
  /\ offset = Ip6Hdr /\ remaining = 0 /\ next_header = "other" /\ extensions = 0
  /\ chain = <<>> /\ udp_len = None /\ reach = 0 /\ ttl = 0 /\ payload_len = 0

(* The parsers keep nothing from one packet to the next: one is enough.      *)
Resting == pc = "idle"

(* Any bytes may come out of the queue; nobody looks at IPv4's total length. *)
Receive ==
  /\ Resting
  /\ \/ \E len \in PktLen, ihl \in Ihl, next \in {"udp", "other"}, t \in Ttl :
          Start(Ip4(len, 0, ihl, next, t), None)
     \/ \E len \in PktLen, version \in {4, 6}, plen \in Plen, next \in Header, t \in Ttl :
          Start(Ip6(len, version, plen, next, t), None)
-----------------------------------------------------------------------------
Word(n) == n % 65536     \* htons of a size_t

(* A decoy, handed to the parser as a capture of it would be.               *)
Made(t, size) == [ttl |-> t, size |-> size, udp_len |-> Word(UdpHdr + size)]

NoRoom(m) == pc' = "refused" /\ made' = m /\ UNCHANGED <<pkt, walk, ttl, payload_len>>

Build(p, size) ==
  /\ Resting
  /\ IF p.len + 1 <= BufferSize THEN Start(p, Made(p.ttl, size)) ELSE NoRoom(Made(p.ttl, size))

(* Mutant: the total length leaves the header out, as IPv6's length does.   *)
Make4PayloadLength(t, size) ==
  Build(Ip4(IpHdr + UdpHdr + size, Word(UdpHdr + size), IpHdr \div 4, "udp", t), size)
Make4(t, size) ==
  Build(Ip4(IpHdr + UdpHdr + size, Word(IpHdr + UdpHdr + size), IpHdr \div 4, "udp", t), size)

Make6(t, size) == Build(Ip6(Ip6Hdr + UdpHdr + size, 6, Word(UdpHdr + size), "udp", t), size)
-----------------------------------------------------------------------------
Refuse == pc' = "refused" /\ UNCHANGED <<pkt, made, ttl, payload_len>>
Accept(size) == pc' = "accepted" /\ ttl' = pkt.ttl /\ payload_len' = size /\ UNCHANGED <<pkt, made>>

(* The version is not looked at, and neither is the total length.           *)
Usable4 ==
  /\ pkt.len >= IpHdr /\ pkt.ihl * 4 >= IpHdr /\ pkt.next = "udp"
  /\ pkt.len >= pkt.ihl * 4 + UdpHdr

Parse4 ==
  /\ pc = "parse" /\ pkt.family = 4
  /\ IF Usable4 THEN Accept(pkt.len - pkt.ihl * 4 - UdpHdr) ELSE Refuse
  /\ reach' = IF pkt.len < IpHdr THEN 0 ELSE IF Usable4 THEN pkt.ihl * 4 + UdpHdr ELSE IpHdr
  /\ offset' = IF Usable4 THEN pkt.ihl * 4 ELSE offset
  /\ UNCHANGED <<remaining, next_header, extensions, chain, udp_len>>

Usable6 ==
  /\ pkt.len >= Ip6Hdr /\ pkt.version = 6 /\ pkt.plen # 0
  /\ pkt.plen <= pkt.len - Ip6Hdr

Parse6 ==
  /\ pc = "parse" /\ pkt.family = 6
  /\ IF Usable6 THEN pc' = "walk" /\ remaining' = pkt.plen /\ UNCHANGED <<pkt, made, ttl, payload_len>>
     ELSE Refuse /\ UNCHANGED remaining
  /\ reach' = IF pkt.len < Ip6Hdr THEN 0 ELSE Ip6Hdr
  /\ UNCHANGED <<offset, next_header, extensions, chain, udp_len>>

(* Mutants: one header too few; one byte may remain.                         *)
UnsupportedEarly ==
  \/ next_header \notin {"hopopts", "dstopts"}
  \/ next_header = "hopopts" /\ offset # Ip6Hdr
  \/ extensions + 1 >= MaxExtensions \/ remaining < 2
UnsupportedShort ==
  \/ next_header \notin {"hopopts", "dstopts"}
  \/ next_header = "hopopts" /\ offset # Ip6Hdr
  \/ extensions + 1 > MaxExtensions \/ remaining < 1
(* An extension header that is not read.                                     *)
Unsupported ==
  \/ next_header \notin {"hopopts", "dstopts"}
  \/ next_header = "hopopts" /\ offset # Ip6Hdr
  \/ extensions + 1 > MaxExtensions \/ remaining < 2

ExtensionUnsupported ==
  /\ pc = "walk" /\ next_header # "udp" /\ Unsupported
  /\ Refuse /\ UNCHANGED walk

(* One round of the loop.                                                    *)
Extension(next, hdr_ext_len) ==
  LET ext_len == (hdr_ext_len + 1) * 8 IN
  /\ pc = "walk" /\ next_header # "udp" /\ ~Unsupported
  /\ reach' = offset + 2
  /\ chain' = Append(chain, [type |-> next_header, at |-> offset, len |-> ext_len])
  /\ extensions' = extensions + 1
  /\ IF ext_len > remaining THEN Refuse /\ UNCHANGED <<offset, remaining, next_header>>
     ELSE /\ next_header' = next
          /\ offset' = offset + ext_len /\ remaining' = remaining - ext_len
          /\ UNCHANGED <<pc, pkt, made, ttl, payload_len>>
  /\ UNCHANGED udp_len

UdpTruncated ==
  /\ pc = "walk" /\ next_header = "udp" /\ remaining < UdpHdr
  /\ Refuse /\ UNCHANGED walk

Udp(len) ==
  /\ pc = "walk" /\ next_header = "udp" /\ remaining >= UdpHdr
  /\ udp_len' = len /\ reach' = offset + UdpHdr
  /\ IF len < UdpHdr \/ len # remaining THEN Refuse ELSE Accept(len - UdpHdr)
  /\ UNCHANGED <<offset, remaining, next_header, extensions, chain>>

(* What the field holds: in a decoy, what was put there.                     *)
UdpField == IF made = None THEN UdpLen ELSE {made.udp_len}

Next ==
  \/ Receive
  \/ \E t \in Ttl, size \in Size : Make4(t, size) \/ Make6(t, size)
  \/ Parse4 \/ Parse6 \/ ExtensionUnsupported \/ UdpTruncated
  \/ \E next \in Header, hdr_ext_len \in HdrExtLen : Extension(next, hdr_ext_len)
  \/ \E len \in UdpField : Udp(len)

Spec == Init /\ [][Next]_vars
-----------------------------------------------------------------------------
TypeOK ==
  /\ pc \in {"idle", "parse", "walk", "accepted", "refused"}
  /\ pkt \in Packet
  /\ offset \in Nat /\ remaining \in Nat /\ reach \in Nat
  /\ next_header \in Header /\ extensions \in 0..MaxExtensions
  /\ ttl \in Byte /\ payload_len \in Nat

(* Nothing is read behind the end of the packet, and the payload the parser  *)
(* reports ends inside it, whatever lengths the packet claims: the offset     *)
(* grows by up to 2048 per header (ipv6pkt.c:66-99, ipv4pkt.c:48-83).         *)
InBounds ==
  /\ reach <= pkt.len
  /\ pc = "accepted" => offset + UdpHdr + payload_len <= pkt.len

ChainEnd(n) == IF n = 0 THEN Ip6Hdr ELSE chain[n].at + chain[n].len
Last == ChainEnd(Len(chain))

(* What is wrong with an IPv6 packet as far as it was read: a reference that *)
(* looks at the headers as a whole, not one at a time.                       *)
Orderly ==
  /\ Len(chain) <= 16
  /\ \A i \in DOMAIN chain : chain[i].type = "dstopts" \/ (i = 1 /\ chain[i].type = "hopopts")
  /\ \A i \in DOMAIN chain : chain[i].at = ChainEnd(i - 1)
Defective ==
  \/ pkt.len < 40 \/ pkt.version # 6 \/ 40 + pkt.plen > pkt.len
  \/ ~Orderly
  \/ Last + 8 > 40 + pkt.plen
  \/ udp_len # None /\ Last + udp_len # 40 + pkt.plen
Continued == next_header = "dstopts" \/ (next_header = "hopopts" /\ chain = <<>>)

(* An accepted IPv6 packet is a chain of at most sixteen option headers,     *)
(* hop-by-hop only in front, without gaps, and a UDP packet that ends where  *)
(* the payload length says: its payload is not taken from a fragment, an     *)
(* encrypted packet or trailing bytes (ipv6pkt.c:67-99).                     *)
AcceptedIsUdp ==
  pc = "accepted" /\ pkt.family = 6 =>
    ~Defective /\ next_header = "udp" /\ offset = Last /\ payload_len = udp_len - 8

(* An IPv6 packet is refused only if it is not such a packet, whatever would *)
(* have followed (ipv6pkt.c:50-99).                                          *)
RefusedForCause ==
  pc = "refused" /\ pkt.family = 6 /\ made = None =>
    \/ Defective
    \/ next_header # "udp" /\ (~Continued \/ Len(chain) = 16)

(* The parser takes exactly these packets.                                   *)
AcceptsExactlyUdp == AcceptedIsUdp /\ RefusedForCause

(* What the length fields say: how long the packet is, and where the payload *)
(* of the IP packet begins.                                                  *)
IpLen  == IF pkt.family = 4 THEN pkt.plen ELSE Ip6Hdr + pkt.plen
IpHead == IF pkt.family = 4 THEN pkt.ihl * 4 ELSE Ip6Hdr

(* The three lengths of a decoy, that of its capture, of its IP header and   *)
(* of its UDP header, say the same of its payload.                           *)
DecoyLengths ==
  made # None => /\ IpLen = pkt.len
                 /\ made.udp_len = IpLen - IpHead
                 /\ made.size = made.udp_len - UdpHdr
DecoyAccepted ==
  made # None => pc # "refused" /\ (pc = "accepted" => ttl = made.ttl /\ payload_len = made.size)

(* A decoy fits the buffer for every payload there may be, and the lengths   *)
(* in it are consistent: read back it has its TTL and payload, by the        *)
(* program's own parser, which does not look at the lengths of IPv4, and by  *)
(* whoever goes by them (ipv4pkt.c:108-134, ipv6pkt.c:136-157,               *)
(* rawsend.c:201).                                                           *)
DecoyReadsBack == DecoyAccepted /\ DecoyLengths
=============================================================================
