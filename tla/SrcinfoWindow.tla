--------------------------- MODULE SrcinfoWindow ---------------------------
(***************************************************************************)
(* What the source-information cache of srcinfo.c promises its callers:    *)
(* it remembers the last Capacity observations, oldest first, and a lookup *)
(* answers with the newest remembered observation of that address on that  *)
(* interface.  Nothing here says that the cache is a ring.                  *)
(***************************************************************************)
EXTENDS Integers, Sequences

CONSTANTS Capacity,   \* SRCINFO_CAPACITY, 500 in the code
          Ip,         \* host addresses, each usable in either family
          Ifindex,    \* interface indexes; 0 is "no interface"
          Ttl, Hwaddr,
          Blank       \* a remembered place that holds no observation

VARIABLES live,       \* the cache is set up
          window,     \* the remembered observations, oldest first
          ret         \* what the last call returned, and to which question

vars == <<live, window, ret>>

Sockaddr == [family : {"AF_INET", "AF_INET6"}, ip : Ip]
Foreign  == [family : {"other"}, ip : Ip]
Info     == [addr : Sockaddr, ifindex : Ifindex \ {0}, ttl : Ttl, hwaddr : Hwaddr]

Init == ~live /\ window = << >> /\ ret = [rc |-> 0]

Setup ==
  \/ ret' = [rc |-> -1] /\ UNCHANGED <<live, window>>
  \/ ~live /\ live' /\ ret' = [rc |-> 0] /\ window' = << >>

Cleanup == ~live' /\ window' = << >> /\ ret' = [rc |-> 0]

(* The oldest observation makes room once the window is full. *)
Remember(info) ==
  /\ live
  /\ window' = Append(IF Len(window) < Capacity THEN window ELSE Tail(window), info)
  /\ ret' = [rc |-> 0]
  /\ UNCHANGED live

(* A refused observation may cost the oldest one its place, and nothing else. *)
Refuse ==
  /\ \/ UNCHANGED window
     \/ Len(window) = Capacity /\ window' = [window EXCEPT ![1] = Blank]
  /\ ret' = [rc |-> -1]
  /\ UNCHANGED live

Is(info, addr, ifindex) ==
  info # Blank /\ info.addr = addr /\ info.ifindex = ifindex

Lookup(addr, ifindex) ==
  /\ UNCHANGED <<live, window>>
  /\ \/ /\ ~live \/ ifindex = 0 \/ addr \in Foreign
        /\ ret' = [rc |-> -1]
     \/ /\ live
        /\ ifindex # 0
        /\ \E k \in 1..Len(window) :
             /\ Is(window[k], addr, ifindex)
             /\ \A m \in k+1..Len(window) : ~Is(window[m], addr, ifindex)
             /\ ret' = [rc |-> 0, addr |-> addr, ifindex |-> ifindex,
                         ttl |-> window[k].ttl, hwaddr |-> window[k].hwaddr]
     \/ /\ live
        /\ ifindex # 0
        /\ addr \in Sockaddr
        /\ \A k \in 1..Len(window) : ~Is(window[k], addr, ifindex)
        /\ ret' = [rc |-> 1, addr |-> addr, ifindex |-> ifindex]

Next ==
  \/ Setup
  \/ Cleanup
  \/ \E info \in Info : Remember(info)
  \/ Refuse
  \/ \E addr \in Sockaddr \cup Foreign, ifindex \in Ifindex : Lookup(addr, ifindex)

Spec == Init /\ [][Next]_vars
=============================================================================
