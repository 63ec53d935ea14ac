--------------------------- MODULE PacketsProofs ---------------------------
(* Theorems about Packets, for every length field a packet may hold.        *)
EXTENDS Packets, TLAPS

Extensions == [type : {"hopopts", "dstopts"}, at : Nat, len : Nat]

(* In the loop the offset and what remains always add up to the end of the   *)
(* payload, and the headers read lie one behind the other up to the offset.  *)
Walking ==
  pc = "walk" =>
    /\ pkt.family = 6 /\ Usable6
    /\ offset + remaining = Ip6Hdr + pkt.plen
    /\ offset = Last /\ Orderly /\ Len(chain) = extensions
    /\ udp_len = None
    /\ reach <= offset

Chained == chain \in Seq(Extensions) /\ \A i \in DOMAIN chain : chain[i].at >= Ip6Hdr /\ chain[i].len >= 8

BeforeWalk ==
  pc = "parse" =>
    /\ chain = <<>> /\ udp_len = None /\ extensions = 0 /\ offset = Ip6Hdr /\ reach = 0
    /\ next_header = pkt.next

(* A decoy on its way through the parser.                                    *)
DecoyInWalk ==
  made # None =>
    /\ made.size \in 0..1200 /\ made.udp_len = UdpHdr + made.size /\ made.ttl = pkt.ttl
    /\ pc = "parse" /\ pkt.family = 4 => Usable4 /\ pkt.len - pkt.ihl * 4 - UdpHdr = made.size
    /\ pc = "parse" /\ pkt.family = 6 => Usable6 /\ pkt.plen = UdpHdr + made.size /\ pkt.next = "udp"
    /\ pc = "walk" => next_header = "udp" /\ remaining = UdpHdr + made.size

Inv ==
  /\ TypeOK /\ Chained /\ BeforeWalk /\ Walking /\ InBounds
  /\ AcceptedIsUdp /\ RefusedForCause /\ DecoyInWalk /\ DecoyAccepted
-----------------------------------------------------------------------------
LEMMA WordMaxIsLarge == WordMax \in Nat /\ WordMax >= 1248
  BY DEF WordMax
LEMMA Word16IsNat == \A n \in Word16 : n \in Nat
  BY WordMaxIsLarge DEF Word16
LEMMA NibbleIsNat == \A n \in Nibble : n \in Nat
  BY DEF Nibble
LEMMA SmallIsWord16 == \A n \in 0..1248 : n \in Word16
  BY WordMaxIsLarge DEF Word16
LEMMA SmallIsNibble == 0 \in Nibble /\ 4 \in Nibble /\ 5 \in Nibble /\ 6 \in Nibble
  BY DEF Nibble

LEMMA SizedIsWord16 == \A n \in 0..1200 : 48 + n \in Word16 /\ 8 + n \in Word16
  BY WordMaxIsLarge DEF Word16

(* A packet built here knows its size while it is read back.                 *)
LEMMA MadeIsSized ==
  ASSUME DecoyInWalk, made # None
  PROVE  /\ made.size \in Nat /\ made.ttl = pkt.ttl
         /\ made.udp_len = 8 + made.size /\ 8 + made.size \in Int /\ ~(8 + made.size < 8)
         /\ (8 + made.size) - 8 = made.size
         /\ pc = "walk" => next_header = "udp" /\ remaining = 8 + made.size
<1> DEFINE size == made.size
<1>1. /\ size \in 0..1200 /\ made.udp_len = 8 + size /\ made.ttl = pkt.ttl
      /\ pc = "walk" => next_header = "udp" /\ remaining = 8 + size
  BY DEF DecoyInWalk, UdpHdr
<1> HIDE DEF size
<1>2. size \in Nat /\ 8 + size \in Int /\ ~(8 + size < 8) /\ (8 + size) - 8 = size
  BY <1>1
<1> QED
  BY <1>1, <1>2 DEF size

LEMMA Ip4Fields ==
  ASSUME NEW len \in Word16, NEW tot_len \in Word16, NEW ihl \in Nibble, NEW next \in Header, NEW t \in Byte
  PROVE  LET p == Ip4(len, tot_len, ihl, next, t) IN
         /\ p \in Packet
         /\ p.family = 4 /\ p.len = len /\ p.plen = tot_len
         /\ p.ihl = ihl /\ p.next = next /\ p.ttl = t
<1>1. 4 \in Nibble /\ 0 \in Word16
  BY SmallIsWord16 DEF Nibble
<1> QED
  BY <1>1 DEF Ip4, Packet

LEMMA Ip6Fields ==
  ASSUME NEW len \in Word16, NEW version \in Nibble, NEW plen \in Word16, NEW next \in Header,
         NEW t \in Byte
  PROVE  /\ Ip6(len, version, plen, next, t) \in Packet
         /\ Ip6(len, version, plen, next, t).family = 6 /\ Ip6(len, version, plen, next, t).len = len
         /\ Ip6(len, version, plen, next, t).version = version
         /\ Ip6(len, version, plen, next, t).plen = plen
         /\ Ip6(len, version, plen, next, t).next = next /\ Ip6(len, version, plen, next, t).ttl = t
<1>1. 0 \in Nibble
  BY DEF Nibble
<1> QED
  BY <1>1 DEF Ip6, Packet

LEMMA PacketFields ==
  ASSUME NEW p \in Packet
  PROVE  /\ p.family \in {4, 6} /\ p.len \in Nat /\ p.version \in Nat /\ p.ihl \in Nat
         /\ p.plen \in Nat /\ p.next \in Header /\ p.ttl \in Byte
<1>1. p.family \in {4, 6} /\ p.len \in Word16 /\ p.version \in Nibble
  BY DEF Packet
<1>2. p.ihl \in Nibble /\ p.plen \in Word16 /\ p.next \in Header /\ p.ttl \in Byte
  BY DEF Packet
<1> QED
  BY <1>1, <1>2, Word16IsNat, NibbleIsNat

(* A packet starts on its way with nothing read.                             *)
LEMMA StartKeepsInv ==
  ASSUME NEW p \in Packet, NEW m, Start(p, m),
         m # None =>
           /\ m.size \in 0..1200 /\ m.udp_len = UdpHdr + m.size /\ m.ttl = p.ttl
           /\ p.family = 4 => Usable4' /\ p.len - p.ihl * 4 - UdpHdr = m.size
           /\ p.family = 6 => Usable6' /\ p.plen = UdpHdr + m.size /\ p.next = "udp"
  PROVE  Inv'
<1>1. TypeOK'
  <2>1. 0 \in Byte
    BY DEF Byte
  <2> QED
    BY <2>1, PacketFields DEF Start, TypeOK, Ip6Hdr, MaxExtensions
<1>2. Chained'
  BY DEF Start, Chained
<1>3. BeforeWalk' /\ Walking' /\ AcceptedIsUdp' /\ RefusedForCause'
  BY DEF Start, BeforeWalk, Walking, AcceptedIsUdp, RefusedForCause
<1>4. InBounds'
  BY PacketFields DEF Start, InBounds
<1>5. DecoyInWalk' /\ DecoyAccepted'
  BY DEF Start, DecoyInWalk, DecoyAccepted
<1> QED
  BY <1>1, <1>2, <1>3, <1>4, <1>5 DEF Inv

LEMMA InitEstablishesInv == Init => Inv
<1> SUFFICES ASSUME Init PROVE Inv
  OBVIOUS
<1> DEFINE p == Ip4(0, 0, 0, "other", 0)
<1>1. 0 \in Byte /\ 0 \in Word16 /\ 0 \in Nibble /\ "other" \in Header
  BY SmallIsWord16 DEF Byte, Nibble, Header
<1>2. p \in Packet /\ p.len = 0 /\ pkt = p
  BY <1>1, Ip4Fields DEF Init
<1> HIDE DEF p
<1>3. TypeOK
  BY <1>1, <1>2 DEF Init, TypeOK, Ip6Hdr, MaxExtensions
<1>4. Chained /\ BeforeWalk /\ Walking /\ AcceptedIsUdp /\ RefusedForCause
  BY DEF Init, Chained, BeforeWalk, Walking, AcceptedIsUdp, RefusedForCause
<1>5. InBounds
  BY <1>2 DEF Init, InBounds
<1>6. DecoyInWalk /\ DecoyAccepted
  BY DEF Init, DecoyInWalk, DecoyAccepted
<1> QED
  BY <1>3, <1>4, <1>5, <1>6 DEF Inv

LEMMA ReceiveKeepsInv == Receive => Inv'
<1> SUFFICES ASSUME Receive PROVE Inv'
  OBVIOUS
<1>1. CASE \E len \in PktLen, ihl \in Ihl, next \in {"udp", "other"}, t \in Ttl :
             Start(Ip4(len, 0, ihl, next, t), None)
  <2> PICK len \in PktLen, ihl \in Ihl, next \in {"udp", "other"}, t \in Ttl :
             Start(Ip4(len, 0, ihl, next, t), None)
    BY <1>1
  <2>1. len \in Word16 /\ ihl \in Nibble /\ next \in Header /\ t \in Byte
    BY FieldsAssumption DEF Header
  <2>a. 0 \in Word16
    BY SmallIsWord16
  <2>2. Ip4(len, 0, ihl, next, t) \in Packet
    BY <2>1, <2>a, Ip4Fields
  <2> QED
    BY <2>2, StartKeepsInv
<1>2. CASE \E len \in PktLen, version \in {4, 6}, plen \in Plen, next \in Header, t \in Ttl :
             Start(Ip6(len, version, plen, next, t), None)
  <2> PICK len \in PktLen, version \in {4, 6}, plen \in Plen, next \in Header, t \in Ttl :
             Start(Ip6(len, version, plen, next, t), None)
    BY <1>2
  <2>1. len \in Word16 /\ version \in Nibble /\ plen \in Word16 /\ t \in Byte
    BY FieldsAssumption DEF Nibble
  <2>2. Ip6(len, version, plen, next, t) \in Packet
    BY <2>1, Ip6Fields
  <2> QED
    BY <2>2, StartKeepsInv
<1> QED
  BY <1>1, <1>2 DEF Receive

(* Every size a payload may have fits the length fields and the buffer.      *)
LEMMA MadeFields ==
  ASSUME NEW t \in Ttl, NEW size \in Size
  PROVE  /\ size \in 0..1200 /\ t \in Byte /\ Word(8 + size) = 8 + size /\ Word(28 + size) = 28 + size
         /\ Made(t, size).size = size /\ Made(t, size).ttl = t /\ Made(t, size).udp_len = 8 + size
<1>1. size \in 0..1200 /\ t \in Byte
  BY SizeAssumption, FieldsAssumption
<1>2. Word(8 + size) = 8 + size /\ Word(28 + size) = 28 + size
  BY <1>1 DEF Word
<1> QED
  BY <1>1, <1>2 DEF Made, UdpHdr

LEMMA Make4KeepsInv == \A t \in Ttl, size \in Size : Make4(t, size) => Inv' /\ DecoyLengths'
<1> SUFFICES ASSUME NEW t \in Ttl, NEW size \in Size, Make4(t, size) PROVE Inv' /\ DecoyLengths'
  OBVIOUS
<1> DEFINE p == Ip4(28 + size, 28 + size, 5, "udp", t)
           m == Made(t, size)
<1>1. size \in 0..1200 /\ m.size = size /\ m.ttl = t /\ m.udp_len = 8 + size
  BY MadeFields
<1>2. /\ p \in Packet /\ p.family = 4 /\ p.len = 28 + size /\ p.ihl = 5 /\ p.next = "udp"
      /\ p.ttl = t /\ p.plen = 28 + size
  <2>1. 28 + size \in 0..1248
    BY <1>1
  <2>2. 28 + size \in Word16 /\ 5 \in Nibble /\ "udp" \in Header /\ t \in Byte
    BY <2>1, SmallIsWord16, SmallIsNibble, MadeFields DEF Header
  <2> QED
    BY <2>2, Ip4Fields
<1>3. Start(p, m)
  <2>1. IpHdr \div 4 = 5 /\ IpHdr + UdpHdr + size = 28 + size /\ Word(IpHdr + UdpHdr + size) = 28 + size
    BY <1>1, MadeFields DEF IpHdr, UdpHdr
  <2>2. p.len + 1 <= BufferSize
    BY <1>1, <1>2 DEF BufferSize
  <2> QED
    BY <1>2, <2>1, <2>2 DEF Make4, Build
<1>4. pkt' = p /\ made' = m
  BY <1>3 DEF Start
<1> HIDE DEF p, m
<1>5. Usable4' /\ p.len - p.ihl * 4 - UdpHdr = m.size
  BY <1>1, <1>2, <1>4 DEF Usable4, IpHdr, UdpHdr
<1>6. p.family # 6 /\ m.size \in 0..1200 /\ m.udp_len = UdpHdr + m.size /\ m.ttl = p.ttl
  BY <1>1, <1>2 DEF UdpHdr
<1>7. DecoyLengths'
  BY <1>1, <1>2, <1>4 DEF DecoyLengths, IpLen, IpHead, UdpHdr
<1> QED
  BY <1>2, <1>3, <1>5, <1>6, <1>7, StartKeepsInv

LEMMA Make6KeepsInv == \A t \in Ttl, size \in Size : Make6(t, size) => Inv' /\ DecoyLengths'
<1> SUFFICES ASSUME NEW t \in Ttl, NEW size \in Size, Make6(t, size) PROVE Inv' /\ DecoyLengths'
  OBVIOUS
<1> DEFINE p == Ip6(48 + size, 6, 8 + size, "udp", t)
           m == Made(t, size)
<1>1. size \in 0..1200 /\ m.size = size /\ m.ttl = t /\ m.udp_len = 8 + size
  BY MadeFields
<1>2. /\ p \in Packet /\ p.family = 6 /\ p.len = 48 + size /\ p.version = 6 /\ p.plen = 8 + size
      /\ p.next = "udp" /\ p.ttl = t
  <2>1. 48 + size \in Word16 /\ 8 + size \in Word16
    <3> HIDE DEF p, m
    <3> QED
      BY <1>1, SizedIsWord16
  <2>2. 6 \in Nibble /\ "udp" \in Header /\ t \in Byte
    BY SmallIsNibble, MadeFields DEF Header
  <2> QED
    BY <2>1, <2>2, Ip6Fields
<1>3. Start(p, m)
  <2>1. Ip6Hdr + UdpHdr + size = 48 + size /\ Word(UdpHdr + size) = 8 + size
    BY <1>1, MadeFields DEF Ip6Hdr, UdpHdr
  <2>2. p.len + 1 <= BufferSize
    BY <1>1, <1>2 DEF BufferSize
  <2> QED
    BY <1>2, <2>1, <2>2 DEF Make6, Build
<1>4. pkt' = p /\ made' = m
  BY <1>3 DEF Start
<1> HIDE DEF p, m
<1>5. Usable6' /\ p.plen = UdpHdr + m.size
  BY <1>1, <1>2, <1>4 DEF Usable6, Ip6Hdr, UdpHdr
<1>6. p.family # 4 /\ m.size \in 0..1200 /\ m.udp_len = UdpHdr + m.size /\ m.ttl = p.ttl
  BY <1>1, <1>2 DEF UdpHdr
<1>7. DecoyLengths'
  BY <1>1, <1>2, <1>4 DEF DecoyLengths, IpLen, IpHead, UdpHdr, Ip6Hdr
<1> QED
  BY <1>2, <1>3, <1>5, <1>6, <1>7, StartKeepsInv

-----------------------------------------------------------------------------
LEMMA Parse4KeepsInv == Inv /\ Parse4 => Inv'
<1> SUFFICES ASSUME Inv, Parse4 PROVE Inv'
  OBVIOUS
<1> DEFINE head == pkt.ihl * 4
<1>1. pkt \in Packet /\ pkt.len \in Nat /\ head \in Nat /\ pkt.ttl \in Byte /\ pkt.family = 4
  <2>1. pkt \in Packet
    BY DEF Inv, TypeOK
  <2> QED
    BY <2>1, PacketFields DEF Parse4
<1>2. /\ Usable4 => pkt.len >= head + 8 /\ pkt.len >= 20 /\ pc' = "accepted" /\ ttl' = pkt.ttl
                    /\ payload_len' = pkt.len - head - 8 /\ reach' = head + 8 /\ offset' = head
      /\ ~Usable4 => pc' = "refused" /\ offset' = offset /\ UNCHANGED <<ttl, payload_len>>
                     /\ reach' = IF pkt.len < 20 THEN 0 ELSE 20
      /\ UNCHANGED <<pkt, made, remaining, next_header, extensions, chain, udp_len>>
  <2>1. CASE Usable4
    BY <1>1, <2>1 DEF Parse4, Usable4, Accept, IpHdr, UdpHdr
  <2>2. CASE ~Usable4
    BY <1>1, <2>2 DEF Parse4, Refuse, IpHdr
  <2> QED
    BY <2>1, <2>2
<1> HIDE DEF head
<1>3. TypeOK'
  BY <1>1, <1>2 DEF Inv, TypeOK
<1>4. Chained' /\ BeforeWalk' /\ Walking' /\ AcceptedIsUdp' /\ RefusedForCause'
  BY <1>1, <1>2 DEF Inv, Chained, BeforeWalk, Walking, AcceptedIsUdp, RefusedForCause
<1>5. InBounds'
  BY <1>1, <1>2 DEF InBounds, UdpHdr
<1>6. DecoyInWalk' /\ DecoyAccepted'
  BY <1>1, <1>2 DEF Inv, DecoyInWalk, DecoyAccepted, UdpHdr, Parse4, head
<1> QED
  BY <1>3, <1>4, <1>5, <1>6 DEF Inv

LEMMA Parse6KeepsInv == Inv /\ Parse6 => Inv'
<1> SUFFICES ASSUME Inv, Parse6 PROVE Inv'
  OBVIOUS
<1>1. pkt \in Packet /\ pkt.len \in Nat /\ pkt.plen \in Nat /\ pkt.family = 6
  <2>1. pkt \in Packet
    BY DEF Inv, TypeOK
  <2> QED
    BY <2>1, PacketFields DEF Parse6
<1>2. /\ pc' = IF Usable6 THEN "walk" ELSE "refused"
      /\ remaining' = IF Usable6 THEN pkt.plen ELSE remaining
      /\ UNCHANGED <<pkt, made, ttl, payload_len, offset, next_header, extensions, chain, udp_len>>
      /\ reach' = IF pkt.len < 40 THEN 0 ELSE 40
  BY DEF Parse6, Refuse, Ip6Hdr
<1>3. TypeOK'
  BY <1>1, <1>2 DEF Inv, TypeOK
<1>4. Chained' /\ BeforeWalk' /\ AcceptedIsUdp'
  BY <1>1, <1>2 DEF Inv, Chained, BeforeWalk, AcceptedIsUdp
<1>5. Walking'
  BY <1>1, <1>2 DEF Inv, TypeOK, BeforeWalk, Parse6, Walking, Usable6, Orderly, Last, ChainEnd,
     Ip6Hdr
<1>6. InBounds'
  BY <1>1, <1>2 DEF InBounds
<1>7. DecoyInWalk' /\ DecoyAccepted'
  BY <1>1, <1>2 DEF Inv, BeforeWalk, DecoyInWalk, DecoyAccepted, Parse6
<1>8. RefusedForCause'
  <2>1. chain = <<>> /\ Last' = 40
    BY <1>2 DEF Inv, BeforeWalk, Parse6, Last, ChainEnd, Ip6Hdr
  <2>2. ~Usable6 => Defective'
    BY <1>1, <1>2, <2>1 DEF Usable6, Defective, Ip6Hdr
  <2> QED
    BY <1>2, <2>2 DEF RefusedForCause
<1> QED
  BY <1>3, <1>4, <1>5, <1>6, <1>7, <1>8 DEF Inv

(* What the parser knows in its loop. *)
LEMMA InWalk ==
  ASSUME Inv, pc = "walk"
  PROVE  /\ pkt \in Packet /\ pkt.len \in Nat /\ pkt.plen \in Nat /\ pkt.version = 6 /\ pkt.family = 6
         /\ 40 + pkt.plen <= pkt.len /\ offset + remaining = 40 + pkt.plen
         /\ offset \in Nat /\ remaining \in Nat /\ extensions \in 0..16 /\ next_header \in Header
         /\ offset = Last /\ Orderly /\ Len(chain) = extensions /\ udp_len = None
         /\ chain \in Seq(Extensions)
<1>1. pkt \in Packet
  BY DEF Inv, TypeOK
<1>2. pkt.len \in Nat /\ pkt.plen \in Nat
  BY <1>1, PacketFields
<1> QED
  BY <1>1, <1>2 DEF Inv, TypeOK, Walking, Usable6, Ip6Hdr, MaxExtensions, Chained

LEMMA RefusalKeepsInv ==
  Inv /\ (ExtensionUnsupported \/ UdpTruncated) => Inv'
<1> SUFFICES ASSUME Inv, ExtensionUnsupported \/ UdpTruncated PROVE Inv'
  OBVIOUS
<1>1. /\ pc = "walk" /\ pc' = "refused" /\ UNCHANGED <<pkt, made, ttl, payload_len>> /\ UNCHANGED walk
      /\ next_header # "udp" \/ remaining < UdpHdr
  BY DEF ExtensionUnsupported, UdpTruncated, Refuse
<1>2. TypeOK' /\ Chained' /\ BeforeWalk' /\ Walking' /\ AcceptedIsUdp' /\ InBounds'
  BY <1>1 DEF Inv, walk, TypeOK, Chained, BeforeWalk, Walking, AcceptedIsUdp, InBounds
<1>3. made = None
  BY <1>1 DEF Inv, DecoyInWalk, UdpHdr
<1>4. DecoyInWalk' /\ DecoyAccepted'
  BY <1>1, <1>3 DEF DecoyInWalk, DecoyAccepted
<1>5. RefusedForCause'
  <2>1. /\ pkt.plen \in Nat /\ offset + remaining = 40 + pkt.plen /\ offset = Last
        /\ offset \in Nat /\ remaining \in Nat /\ Len(chain) = extensions /\ extensions \in 0..16
    BY <1>1, InWalk
  <2>2. remaining < 8 => Defective
    BY <2>1 DEF Defective
  <2>3. ExtensionUnsupported => remaining < 2 \/ (next_header # "udp" /\ (~Continued \/ Len(chain) = 16))
    BY <2>1 DEF ExtensionUnsupported, Unsupported, Continued, Last, ChainEnd, Ip6Hdr, MaxExtensions
  <2>4. UdpTruncated => remaining < 8
    BY DEF UdpTruncated, UdpHdr
  <2>5. Defective \/ (next_header # "udp" /\ (~Continued \/ Len(chain) = 16))
    BY <2>1, <2>2, <2>3, <2>4
  <2> QED
    BY <1>1, <2>5 DEF RefusedForCause, walk, Defective, Last, ChainEnd, Orderly, Continued
<1> QED
  BY <1>2, <1>4, <1>5 DEF Inv

LEMMA UdpKeepsInv == \A len \in UdpField : Inv /\ Udp(len) => Inv'
<1> SUFFICES ASSUME NEW len \in UdpField, Inv, Udp(len) PROVE Inv'
  OBVIOUS
<1>1. /\ pc = "walk" /\ next_header = "udp" /\ remaining >= 8
      /\ udp_len' = len /\ reach' = offset + 8
      /\ UNCHANGED <<pkt, made, offset, remaining, next_header, extensions, chain>>
      /\ \/ (len < 8 \/ len # remaining) /\ pc' = "refused" /\ UNCHANGED <<ttl, payload_len>>
         \/ len >= 8 /\ len = remaining /\ pc' = "accepted" /\ ttl' = pkt.ttl /\ payload_len' = len - 8
  <2>1. CASE made = None
    BY <2>1, FieldsAssumption, Word16IsNat DEF Udp, Accept, Refuse, UdpHdr, UdpField
  <2>2. CASE made # None
    <3>1. DecoyInWalk
      BY DEF Inv
    <3>2. made.udp_len = 8 + made.size /\ 8 + made.size \in Int
      BY <2>2, <3>1, MadeIsSized, Zenon
    <3>3. len \in Int
      BY <2>2, <3>2, Zenon DEF UdpField
    <3> QED
      BY <3>3 DEF Udp, Accept, Refuse, UdpHdr
  <2> QED BY <2>1, <2>2
<1>2. /\ pkt \in Packet /\ pkt.len \in Nat /\ pkt.plen \in Nat /\ pkt.version = 6
      /\ 40 + pkt.plen <= pkt.len /\ offset + remaining = 40 + pkt.plen
      /\ offset \in Nat /\ remaining \in Nat /\ offset = Last /\ Orderly
  BY <1>1, InWalk
<1>3. pkt.ttl \in Byte
  BY <1>2, PacketFields
<1>4. TypeOK'
  BY <1>1, <1>2, <1>3 DEF Inv, TypeOK
<1>5. Chained' /\ BeforeWalk' /\ Walking'
  BY <1>1 DEF Inv, Chained, BeforeWalk, Walking
<1>6. InBounds'
  BY <1>1, <1>2 DEF InBounds, UdpHdr
<1>7. AcceptedIsUdp'
  <2>1. Last' = offset /\ Orderly'
    BY <1>1, <1>2 DEF Last, ChainEnd, Orderly, Ip6Hdr
  <2> QED
    BY <1>1, <1>2, <2>1 DEF AcceptedIsUdp, Defective
<1>9. RefusedForCause'
  <2>1. Last' = offset
    BY <1>1, <1>2 DEF Last, ChainEnd
  <2>2. SUFFICES ASSUME pc' = "refused", made = None PROVE Defective'
    BY <1>1 DEF RefusedForCause
  <2>3. len \in Nat
    BY <2>2, FieldsAssumption, Word16IsNat DEF UdpField
  <2>4. udp_len' # None /\ udp_len' # remaining
    BY <1>1, <1>2, <2>2, <2>3, NoneAssumption
  <2> QED
    BY <1>1, <1>2, <2>1, <2>3, <2>4 DEF Defective
<1>8. DecoyInWalk' /\ DecoyAccepted'
  <2>1. DecoyInWalk
    BY DEF Inv
  <2>2. made # None => /\ len = 8 + made.size /\ remaining = 8 + made.size /\ made.ttl = pkt.ttl
                       /\ ~(8 + made.size < 8) /\ (8 + made.size) - 8 = made.size
    BY <1>1, <2>1, MadeIsSized, Zenon DEF UdpField
  <2>3. made # None => ~(len < 8 \/ len # remaining)
    BY <2>2, Zenon
  <2>4. made # None => pc' = "accepted" /\ payload_len' = len - 8 /\ ttl' = pkt.ttl
    BY <1>1, <2>3, Zenon
  <2>5. made # None => payload_len' = made.size /\ ttl' = made.ttl
    <3>1. CASE made # None
      BY <2>2, <2>4, <3>1, Zenon
    <3> QED
      BY <3>1, Zenon
  <2>6. DecoyInWalk'
    BY <1>1, <2>1 DEF DecoyInWalk
  <2> QED
    BY <1>1, <2>4, <2>5, <2>6, Zenon DEF DecoyAccepted
<1> QED
  BY <1>4, <1>5, <1>6, <1>7, <1>8, <1>9 DEF Inv

LEMMA ExtensionKeepsInv ==
  \A next \in Header, hdr_ext_len \in HdrExtLen : Inv /\ Extension(next, hdr_ext_len) => Inv'
<1> SUFFICES ASSUME NEW next \in Header, NEW hdr_ext_len \in HdrExtLen,
                    Inv, Extension(next, hdr_ext_len)
             PROVE  Inv'
  OBVIOUS
<1> DEFINE ext_len == (hdr_ext_len + 1) * 8
           ext == [type |-> next_header, at |-> offset, len |-> ext_len]
<1>1. ext_len \in Nat /\ ext_len >= 8
  BY FieldsAssumption DEF Byte
<1>2. /\ pc = "walk" /\ next_header # "udp" /\ ~Unsupported
      /\ reach' = offset + 2 /\ chain' = Append(chain, ext) /\ extensions' = extensions + 1
      /\ UNCHANGED <<pkt, made, ttl, payload_len, udp_len>>
      /\ \/ /\ ext_len > remaining /\ pc' = "refused"
            /\ UNCHANGED <<offset, remaining, next_header>>
         \/ /\ ext_len <= remaining /\ pc' = pc /\ next_header' = next
            /\ offset' = offset + ext_len /\ remaining' = remaining - ext_len
  <2>1. remaining \in Nat
    BY DEF Inv, TypeOK
  <2> QED
    BY <1>1, <2>1 DEF Extension, Refuse
<1> HIDE DEF ext_len
<1>3. /\ pkt \in Packet /\ pkt.len \in Nat /\ pkt.plen \in Nat /\ pkt.family = 6 /\ pkt.version = 6
      /\ 40 + pkt.plen <= pkt.len /\ offset + remaining = 40 + pkt.plen
      /\ offset \in Nat /\ remaining \in Nat /\ extensions \in 0..16 /\ next_header \in Header
      /\ offset = Last /\ Orderly /\ Len(chain) = extensions /\ udp_len = None
      /\ chain \in Seq(Extensions)
  BY <1>2, InWalk
<1>4. /\ next_header \in {"hopopts", "dstopts"}
      /\ next_header = "hopopts" => offset = 40
      /\ extensions + 1 <= 16 /\ remaining >= 2
  BY <1>2, <1>3 DEF Unsupported, Ip6Hdr, MaxExtensions
<1>5. made = None
  BY <1>2 DEF Inv, DecoyInWalk
<1>6. offset >= 40 /\ (extensions # 0 => offset >= 48)
  <2>1. CASE extensions = 0
    BY <1>3, <2>1 DEF Last, ChainEnd, Ip6Hdr
  <2>2. CASE extensions # 0
    <3>1. extensions \in DOMAIN chain
      BY <1>3, <2>2
    <3>2. chain[extensions].at >= 40 /\ chain[extensions].len >= 8 /\ chain[extensions] \in Extensions
      BY <1>3, <3>1 DEF Inv, Chained, Ip6Hdr
    <3>3. chain[extensions].at \in Nat /\ chain[extensions].len \in Nat
      BY <3>2 DEF Extensions
    <3>4. offset = chain[extensions].at + chain[extensions].len
      BY <1>3, <2>2 DEF Last, ChainEnd
    <3> QED
      BY <3>2, <3>3, <3>4
  <2> QED
    BY <2>1, <2>2
<1>7. TypeOK'
  <2>1. TypeOK
    BY DEF Inv
  <2>2. pc' \in {"idle", "parse", "walk", "accepted", "refused"} /\ next_header' \in Header
    BY <1>2, <1>3
  <2>3. offset' \in Nat /\ remaining' \in Nat
    BY <1>1, <1>2, <1>3, <1>4
  <2>4. reach' \in Nat
    BY <1>1, <1>2, <1>3, <1>4
  <2>5. extensions' \in 0..16
    BY <1>1, <1>2, <1>3, <1>4
  <2> QED
    BY <1>2, <2>1, <2>2, <2>3, <2>4, <2>5 DEF TypeOK, MaxExtensions
<1>8. ext \in Extensions /\ ext.at = offset /\ ext.len = ext_len /\ ext.type = next_header
  BY <1>1, <1>3, <1>4 DEF Extensions
<1> HIDE DEF ext
<1>9. /\ chain' \in Seq(Extensions) /\ Len(chain') = extensions + 1
      /\ \A i \in 1..extensions : chain'[i] = chain[i]
      /\ chain'[extensions + 1] = ext
  BY <1>2, <1>3, <1>8
<1>10. Chained'
  <2>1. \A i \in 1..extensions : chain[i].at >= 40 /\ chain[i].len >= 8
    BY <1>3 DEF Inv, Chained, Ip6Hdr
  <2>2. \A i \in DOMAIN chain' : i \in 1..extensions \/ i = extensions + 1
    BY <1>3, <1>9
  <2> QED
    BY <1>1, <1>6, <1>8, <1>9, <2>1, <2>2 DEF Chained, Ip6Hdr
<1>11. Orderly'
  <2>1. Len(chain') <= 16
    BY <1>4, <1>9
  <2>2. ASSUME NEW i \in DOMAIN chain'
        PROVE  chain'[i].type = "dstopts" \/ (i = 1 /\ chain'[i].type = "hopopts")
    <3>1. CASE i \in 1..extensions
      BY <1>3, <1>9, <3>1 DEF Orderly
    <3>2. CASE i = extensions + 1
      <4>1. next_header = "hopopts" => i = 1
        BY <1>3, <1>4, <1>6, <3>2
      <4>2. chain'[i].type = next_header
        BY <1>8, <1>9, <3>2
      <4> QED
        BY <1>4, <4>1, <4>2
    <3> QED
      BY <1>3, <1>9, <3>1, <3>2
  <2>3. ASSUME NEW i \in DOMAIN chain'
        PROVE  chain'[i].at = ChainEnd(i - 1)'
    <3>1. CASE i \in 1..extensions
      <4>1. chain[i].at = ChainEnd(i - 1)
        BY <1>3, <3>1 DEF Orderly
      <4>2. i - 1 # 0 => i - 1 \in 1..extensions
        BY <1>3, <3>1
      <4> QED
        BY <1>9, <3>1, <4>1, <4>2 DEF ChainEnd
    <3>2. CASE i = extensions + 1
      <4>1. i - 1 = extensions /\ (extensions # 0 => extensions \in 1..extensions)
        BY <1>3, <3>2
      <4>2. offset = IF extensions = 0 THEN Ip6Hdr ELSE chain[extensions].at + chain[extensions].len
        BY <1>3 DEF Last, ChainEnd
      <4>3. ChainEnd(i - 1)' = offset
        BY <1>9, <4>1, <4>2 DEF ChainEnd
      <4> QED
        BY <1>8, <1>9, <3>2, <4>3
    <3> QED
      BY <1>3, <1>9, <3>1, <3>2
  <2> QED
    BY <2>1, <2>2, <2>3 DEF Orderly
<1>12. Walking'
  <2>1. Last' = offset + ext_len
    BY <1>3, <1>8, <1>9 DEF Last, ChainEnd
  <2>2. Usable6'
    BY <1>2 DEF Inv, Walking, Usable6
  <2> QED
    BY <1>1, <1>2, <1>3, <1>9, <1>11, <2>1, <2>2 DEF Walking, Ip6Hdr
<1>13. InBounds' /\ BeforeWalk' /\ AcceptedIsUdp'
  BY <1>1, <1>2, <1>3, <1>4 DEF InBounds, BeforeWalk, AcceptedIsUdp
<1>14. DecoyInWalk' /\ DecoyAccepted'
  BY <1>2, <1>5 DEF DecoyInWalk, DecoyAccepted
<1>15. RefusedForCause'
  <2>1. CASE ext_len > remaining
    <3>1. Last' = offset + ext_len
      BY <1>3, <1>8, <1>9 DEF Last, ChainEnd
    <3> QED
      BY <1>1, <1>2, <1>3, <2>1, <3>1 DEF RefusedForCause, Defective
  <2>2. CASE ext_len <= remaining
    BY <1>1, <1>2, <1>3, <2>2 DEF RefusedForCause
  <2> QED
    BY <1>1, <1>3, <2>1, <2>2
<1> QED
  BY <1>7, <1>10, <1>11, <1>12, <1>13, <1>14, <1>15 DEF Inv

LEMMA StepKeepsInv == Inv /\ [Next]_vars => Inv'
<1> SUFFICES ASSUME Inv, [Next]_vars PROVE Inv'
  OBVIOUS
<1>1. CASE UNCHANGED vars
  BY <1>1 DEF vars, walk, Inv, TypeOK, Chained, BeforeWalk, Walking, InBounds, AcceptedIsUdp,
              RefusedForCause, DecoyInWalk, DecoyAccepted, Usable4, Usable6, Orderly, Last, ChainEnd,
              Defective, Continued
<1>2. CASE \E t \in Ttl, size \in Size : Make4(t, size) \/ Make6(t, size)
  BY <1>2, Make4KeepsInv, Make6KeepsInv
<1> QED
  BY <1>1, <1>2, ReceiveKeepsInv, Parse4KeepsInv, Parse6KeepsInv, RefusalKeepsInv,
     UdpKeepsInv, ExtensionKeepsInv DEF Next
-----------------------------------------------------------------------------
(* TypeCorrect: fields, cursors and results keep their types, for all        *)
(* packets (ipv4pkt.c, ipv6pkt.c).                                           *)
THEOREM TypeCorrect == Spec => []TypeOK
<1>1. Inv => TypeOK
  BY DEF Inv
<1> QED
  BY <1>1, InitEstablishesInv, StepKeepsInv, PTL DEF Spec

(* ReadsInBounds: whatever lengths a packet of whatever size claims, the     *)
(* parsers read nothing behind its end (ipv6pkt.c:66-99, ipv4pkt.c:48-83).   *)
THEOREM ReadsInBounds == Spec => []InBounds
<1>1. Inv => InBounds
  BY DEF Inv
<1> QED
  BY <1>1, InitEstablishesInv, StepKeepsInv, PTL DEF Spec

(* AcceptsExactly: an IPv6 packet is accepted if and only if it is a         *)
(* gapless chain of at most sixteen option headers and a UDP packet that     *)
(* fills the rest (ipv6pkt.c:50-99).                                         *)
THEOREM AcceptsExactly == Spec => []AcceptsExactlyUdp
<1>1. Inv => AcceptsExactlyUdp
  BY DEF Inv, AcceptsExactlyUdp
<1> QED
  BY <1>1, InitEstablishesInv, StepKeepsInv, PTL DEF Spec

(* A packet is built once, and nothing changes it afterwards.                *)
LEMMA LengthsKept == DecoyLengths /\ [Next]_vars => DecoyLengths'
<1> SUFFICES ASSUME DecoyLengths, [Next]_vars PROVE DecoyLengths'
  OBVIOUS
<1>1. ASSUME UNCHANGED <<pkt, made>> PROVE DecoyLengths'
  BY <1>1 DEF DecoyLengths, IpLen, IpHead
<1>2. CASE Receive
  <2>1. made' = None
    BY <1>2 DEF Receive, Start
  <2> QED
    BY <2>1 DEF DecoyLengths
<1>3. CASE \E t \in Ttl, size \in Size : Make4(t, size) \/ Make6(t, size)
  BY <1>3, Make4KeepsInv, Make6KeepsInv
<1>4. CASE Parse4 \/ Parse6 \/ ExtensionUnsupported \/ UdpTruncated
  BY <1>1, <1>4 DEF Parse4, Parse6, ExtensionUnsupported, UdpTruncated, Refuse, Accept
<1>5. CASE \E next \in Header, hdr_ext_len \in HdrExtLen : Extension(next, hdr_ext_len)
  BY <1>1, <1>5 DEF Extension, Refuse
<1>6. CASE \E len \in UdpField : Udp(len)
  BY <1>1, <1>6 DEF Udp, Refuse, Accept
<1>7. CASE UNCHANGED vars
  BY <1>1, <1>7 DEF vars
<1> QED
  BY <1>2, <1>3, <1>4, <1>5, <1>6, <1>7 DEF Next

(* DecoysReadBack: every payload of at most 1200 bytes makes a decoy that    *)
(* fits its buffer, parses to the TTL and size it was built with, and says   *)
(* so in all of its length fields.                                          *)
THEOREM DecoysReadBack == Spec => []DecoyReadsBack
<1>1. Inv /\ DecoyLengths => DecoyReadsBack
  BY DEF Inv, DecoyReadsBack
<1>2. Init => DecoyLengths
  BY DEF Init, DecoyLengths
<1> QED
  BY <1>1, <1>2, InitEstablishesInv, StepKeepsInv, LengthsKept, PTL DEF Spec
=============================================================================
