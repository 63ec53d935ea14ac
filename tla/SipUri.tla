------------------------------- MODULE SipUri -------------------------------
(***************************************************************************)
(* What make_sip_invite of src/src/payload.c does with a URI: whether it   *)
(* takes it, whose SIP dialect it speaks, and how long the message gets.   *)
(* What follows "sip:" is typed piece by piece; a piece is a character or  *)
(* a text that is looked for as a whole, in any case.                      *)
(***************************************************************************)
EXTENDS Integers, Sequences

CONSTANTS MaxText,        \* bound: pieces typed
          Long,           \* bytes of the long piece
          Draws           \* the draws looked at

SIP_URI_MAXLEN == 120
BUFFLEN == 1200

Suffix   == ".3gppnetwork.org"
Observed == "sipsc109.r01.rcs.189.cn"
Name  == {"x", ".", "long", Suffix, Observed}
Space == {" "}        \* white space
Wide  == {"e-acute"}  \* two bytes
Piece == Name \cup Space \cup Wide \cup {"@", ":", ";", "?", "[", "]"}

Size == [c \in Piece |-> CASE c = Suffix -> 15 [] c = Observed -> 23 [] c = "long" -> Long
                           [] c \in Wide -> 2 [] OTHER -> 1]

(* How many characters the random parts take: the local address, the two    *)
(* numbers of the session (32 bits) and the three of the dialog (64 bits).  *)
Draw == [local : 10..15, session : 2..20, dialog : 3..48]

ASSUME LongAssumption  == Long \in Nat
ASSUME DrawsAssumption == Draws \subseteq Draw

VARIABLES text, bytes \* the URI behind "sip:", and the length of all of it

uvars == <<text, bytes>>

NoUri == text = <<>> /\ bytes = 4
Type(c) == text' = Append(text, c) /\ bytes' = bytes + Size[c]
Typed == Len(text) < MaxText /\ \E c \in Piece : Type(c)
UriSpec == NoUri /\ [][Typed]_uvars
-----------------------------------------------------------------------------
(* strpbrk and memchr: the first of cs from i on and before end, or end.    *)
First(s, i, end, cs) ==
  CHOOSE k \in i..end : /\ k = end \/ s[k] \in cs
                        /\ \A j \in i..(k - 1) : s[j] \notin cs

AuthorityEnd(s) == First(s, 1, Len(s) + 1, {";", "?"})

(* Mutant: userinfo is looked for in the whole URI. *)
HostStartAnywhere(s) ==
  LET at == First(s, 1, Len(s) + 1, {"@"}) IN IF at = Len(s) + 1 THEN 1 ELSE at + 1
HostStart(s) ==
  LET end == AuthorityEnd(s)
      at  == First(s, 1, end, {"@"})
  IN  IF at = end THEN 1 ELSE at + 1

(* The host, without port and one trailing dot.                             *)
Host(s) ==
  LET end  == First(s, HostStart(s), AuthorityEnd(s), {":"})
      host == SubSeq(s, HostStart(s), end - 1)
  IN  IF host # <<>> /\ host[Len(host)] = "." THEN SubSeq(host, 1, Len(host) - 1) ELSE host

EndsIn(s, c) == Len(s) > 1 /\ s[Len(s)] = c

is_ims_sip_uri(s) ==
  /\ HostStart(s) < AuthorityEnd(s) /\ s[HostStart(s)] # "["
  /\ Host(s) = <<Observed>> \/ EndsIn(Host(s), Suffix)
-----------------------------------------------------------------------------
Has(s, cs) == \E i \in 1..Len(s) : s[i] \in cs

(* Mutant: the scheme is not counted. *)
AcceptedLonger == text # <<>> /\ ~Has(text, Space) /\ bytes - 4 <= SIP_URI_MAXLEN
(* What make_sip_invite takes.                                              *)
Accepted == text # <<>> /\ ~Has(text, Space) /\ bytes <= SIP_URI_MAXLEN

Decimal(n) == IF n < 10 THEN 1 ELSE IF n < 100 THEN 2 ELSE 3

(* The literal text of each format, and what its conversions come to.       *)
SdpLength(ims, d) == (IF ims THEN 340 ELSE 89) + d.session + 2 * d.local
InviteLength(ims, d) ==
  205 + 2 * bytes + (bytes - 4) + 4 * d.local + d.dialog + (IF ims THEN 131 ELSE 0)
    + Decimal(SdpLength(ims, d)) + SdpLength(ims, d)

-----------------------------------------------------------------------------
(* A host is a name, or an address in brackets, with any colons in it.       *)
IsName(s, first, last) == \A i \in first..last : s[i] \in Name
IsAddress(s, first, last) ==
  s[first] = "[" /\ s[last] = "]" /\ \A i \in (first + 1)..(last - 1) : s[i] \in Name \cup {":"}

(* The parts of a URI, by where the userinfo, host and port end: userinfo   *)
(* has no "@", and what follows the port begins with ";" or "?".            *)
Parts(s) ==
  {p \in [user : 0..Len(s), host : 0..Len(s), port : 0..Len(s)] :
     /\ p.user < p.host /\ p.host <= p.port
     /\ p.user = 0 \/ s[p.user] = "@"
     /\ \A i \in 1..(p.user - 1) : s[i] \notin {"@", ";", "?"}
     /\ IsName(s, p.user + 1, p.host) \/ IsAddress(s, p.user + 1, p.host)
     /\ p.port = p.host \/ (s[p.host + 1] = ":" /\ \A i \in (p.host + 2)..p.port : s[i] = "x")
     /\ p.port = Len(s) \/ s[p.port + 1] \in {";", "?"}}

ImsHost(host) ==
  \E name \in {SubSeq(host, 1, n) : n \in {Len(host), Len(host) - 1}} :
    /\ host \in {name, Append(name, ".")}
    /\ name = <<Observed>> \/ EndsIn(name, Suffix)

(* A URI gets the IMS dialect exactly if its host is an observed one or lies *)
(* under the suffix: no userinfo, port, parameter, header or lookalike name  *)
(* in front or behind changes that, and nothing in brackets is such a host,  *)
(* whatever its colons cut off (payload.c:119-162,                           *)
(* docs/fakesip-bug-findings.md:827-840).                                    *)
ClassifiedByHost ==
  \A p \in Parts(text) : is_ims_sip_uri(text) <=> ImsHost(SubSeq(text, p.user + 1, p.host))

(* The limit on the URI leaves room for the message: with the widest random  *)
(* numbers, which a test draws about never, it still fits with its           *)
(* terminating zero (payload.c:33-34, :186-193, :208-229).                   *)
AcceptedUriFits ==
  Accepted => \A d \in Draws, ims \in BOOLEAN : InviteLength(ims, d) < BUFFLEN
=============================================================================
