------------------------------ MODULE Srcinfo ------------------------------
(***************************************************************************)
(* The source-information cache of src/src/srcinfo.c: a ring of Capacity   *)
(* slots written at srci_end, of which the last srci_count are searched,   *)
(* newest first.  rawsend.c puts the TTL and the hardware address of every *)
(* inbound packet and gets those of the peer of every outbound one.        *)
(***************************************************************************)
EXTENDS Integers, Sequences

CONSTANTS Capacity, Ip, Ifindex, Ttl, Hwaddr, Null, Blank

Index    == 0..Capacity-1
Sockaddr == [family : {"AF_INET", "AF_INET6"}, ip : Ip]
Foreign  == [family : {"other"}, ip : Ip]
Info     == [addr : Sockaddr, ifindex : Ifindex \ {0}, ttl : Ttl, hwaddr : Hwaddr]
Slot     == Info \cup {Blank}         \* Blank: initialized = 0

ASSUME CapacityAssumption == Capacity \in Nat \ {0}
ASSUME IfindexAssumption  == Ifindex \subseteq Nat
ASSUME BlankAssumption    == Blank \notin Info
ASSUME NullAssumption     == Null \notin [Index -> Slot]

VARIABLES srci,       \* Null, or the array of slots
          srci_end,   \* the slot the next put writes
          srci_count, \* how many slots hold an observation
          ret         \* what the last call returned, and to which question

vars == <<srci, srci_end, srci_count, ret>>

Init == srci = Null /\ srci_end = 0 /\ srci_count = 0 /\ ret = [rc |-> 0]

SetupAgain == srci # Null /\ ret' = [rc |-> -1] /\ UNCHANGED <<srci, srci_end, srci_count>>
SetupNoMem == srci = Null /\ ret' = [rc |-> -1] /\ UNCHANGED <<srci, srci_end, srci_count>>
SetupDone  ==
  /\ srci = Null
  /\ srci' = [i \in Index |-> Blank]
  /\ srci_end' = 0 /\ srci_count' = 0 /\ ret' = [rc |-> 0]

Cleanup ==
  /\ srci' = Null
  /\ srci_end' = 0 /\ srci_count' = 0 /\ ret' = [rc |-> 0]

(* The slot the (i+1)-th newest observation sits in. *)
Before(end, i) == (end + Capacity - i - 1) % Capacity
Newest(i)      == Before(srci_end, i)

(* A full cache evicts its oldest observation: the cursor wraps onto it.    *)
Advance(end) == (end + 1) % Capacity
Grow(count)  == IF count < Capacity THEN count + 1 ELSE count

(* fs_srcinfo_put.  The slot is zeroed before the family is looked at, so   *)
(* an address of an unknown family wipes the slot and leaves it wiped.      *)
PutStore(info) ==
  /\ srci # Null
  /\ srci' = [srci EXCEPT ![srci_end] = info]
  /\ srci_end' = Advance(srci_end)
  /\ srci_count' = Grow(srci_count)
  /\ ret' = [rc |-> 0]

PutUnknownFamily ==
  /\ srci # Null
  /\ srci' = [srci EXCEPT ![srci_end] = Blank]
  /\ ret' = [rc |-> -1]
  /\ UNCHANGED <<srci_end, srci_count>>

PutRefused(ifindex) ==
  /\ srci = Null \/ ifindex = 0
  /\ ret' = [rc |-> -1]
  /\ UNCHANGED <<srci, srci_end, srci_count>>

Put(addr, ifindex, ttl, hwaddr) ==
  \/ PutRefused(ifindex)
  \/ ifindex # 0 /\ addr \in Foreign /\ PutUnknownFamily
  \/ /\ ifindex # 0
     /\ addr \in Sockaddr
     /\ PutStore([addr |-> addr, ifindex |-> ifindex, ttl |-> ttl, hwaddr |-> hwaddr])

(* Mutant: the interface is not compared. *)
MatchesAnyIfindex(slot, addr, ifindex) == slot # Blank /\ slot.addr = addr
(* sameip() also compares the families; equal sockaddrs are equal in both. *)
Matches(slot, addr, ifindex) ==
  slot # Blank /\ slot.ifindex = ifindex /\ slot.addr = addr

GetRefused(addr, ifindex) ==
  /\ srci = Null \/ ifindex = 0 \/ addr \in Foreign
  /\ ret' = [rc |-> -1]
  /\ UNCHANGED <<srci, srci_end, srci_count>>

(* The scan stops at the first match, which is the newest. *)
GetFound(addr, ifindex) ==
  /\ srci # Null /\ ifindex # 0 /\ addr \in Sockaddr
  /\ \E i \in 0..srci_count-1 :
       /\ Matches(srci[Newest(i)], addr, ifindex)
       /\ \A j \in 0..i-1 : ~Matches(srci[Newest(j)], addr, ifindex)
       /\ ret' = [rc |-> 0, addr |-> addr, ifindex |-> ifindex,
                   ttl |-> srci[Newest(i)].ttl, hwaddr |-> srci[Newest(i)].hwaddr]
  /\ UNCHANGED <<srci, srci_end, srci_count>>

GetMissing(addr, ifindex) ==
  /\ srci # Null /\ ifindex # 0 /\ addr \in Sockaddr
  /\ \A i \in 0..srci_count-1 : ~Matches(srci[Newest(i)], addr, ifindex)
  /\ ret' = [rc |-> 1, addr |-> addr, ifindex |-> ifindex]
  /\ UNCHANGED <<srci, srci_end, srci_count>>

Get(addr, ifindex) ==
  GetRefused(addr, ifindex) \/ GetFound(addr, ifindex) \/ GetMissing(addr, ifindex)

Next ==
  \/ SetupAgain
  \/ SetupNoMem
  \/ SetupDone
  \/ Cleanup
  \/ \E addr \in Sockaddr \cup Foreign, ifindex \in Ifindex, ttl \in Ttl, hwaddr \in Hwaddr :
       Put(addr, ifindex, ttl, hwaddr)
  \/ \E addr \in Sockaddr \cup Foreign, ifindex \in Ifindex : Get(addr, ifindex)

Spec == Init /\ [][Next]_vars
-----------------------------------------------------------------------------
(* The ring is either absent or Capacity slots, and both cursors stay in   *)
(* range whatever sequence of puts wraps it around (srcinfo.c:132-135).     *)
TypeOK ==
  /\ srci \in [Index -> Slot] \cup {Null}
  /\ srci_end \in Index
  /\ srci_count \in 0..Capacity

(* The guards `srci_end >= CAPACITY` and `srci_count > CAPACITY` of put and *)
(* get never fire, the cursors agree until the ring wraps, and no slot      *)
(* outside the searched ones holds an observation: get, which searches only *)
(* srci_count slots, never misses one that put stored.                      *)
NothingOutsideWindow ==
  /\ srci_count < Capacity => srci_end = srci_count
  /\ srci # Null => \A s \in Index :
       srci[s] # Blank => \E i \in 0..srci_count-1 : s = Newest(i)

(* The ring implements the window of the last Capacity observations: every  *)
(* get answers with the newest one remembered (srcinfo.c:158-168).          *)
Held(ring, end, count) == [k \in 1..count |-> ring[Before(end, count - k)]]

Window == INSTANCE SrcinfoWindow WITH
  live <- srci # Null, window <- Held(srci, srci_end, srci_count)

RingIsWindow == Window!Spec
=============================================================================
