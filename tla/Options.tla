------------------------------ MODULE Options ------------------------------
(***************************************************************************)
(* main() of src/src/mainfun.c up to the stages of Daemon, and what it     *)
(* does when it ends: options are taken one by one into g_ctx, the two     *)
(* arrays of names grow, the whole is checked, the log is opened.          *)
(***************************************************************************)
EXTENDS Integers

CONSTANTS Bit,         \* the bits of a mark
          DefaultMark, \* 0x10000
          Cap,         \* what the arrays hold at first: 32
          Name,        \* names of interfaces, URIs and paths that may be given
          Number,      \* the numbers that may be given, 0 for what is none
          MaxOptions,  \* bound of the model
          Empty, TooLong, Null, Zero, Junk

ASSUME CapAssumption == Cap \in Nat /\ Cap >= 2
ASSUME MarkAssumption == DefaultMark \subseteq Bit /\ DefaultMark # {}
ASSUME NumberAssumption == Number \subseteq Nat
ASSUME NamesAssumption == {Empty, TooLong, Null, Zero, Junk} \cap Name = {} /\ Zero # Junk
                          /\ Null \notin {"stderr", "file"}
ASSUME EntriesAssumption ==
  \A type \in {"b", "u"}, info \in Name \cup {Null} : [type |-> type, info |-> info] \notin {Zero, Junk}

VARIABLES pc,      \* "options" "check" "daemon" "log" "run" "kill" "free" "exited"
          ctx,     \* g_ctx
          plinfo, iface,  \* the arrays, their counts and capacities
          logfp,   \* Null, "stderr" or "file"
          freed,
          taken    \* options taken so far

vars == <<pc, ctx, plinfo, iface, logfp, freed, taken>>
-----------------------------------------------------------------------------
Flag == {"inbound", "outbound", "use_ipv4", "use_ipv6", "alliface", "daemon", "skipfw", "nohopest",
         "killproc", "silent", "use_iptables"}
Mark == {"fwmark", "fwmask"}

NfqNum == 1..65535
Repeat == 1..10
TtlSet == 1..255
Pct    == 1..99
Setting == {"nfqnum", "repeat", "ttl", "dynamic_pct"}
Valid(s, n) ==
  CASE s = "nfqnum" -> n \in NfqNum [] s = "repeat"      -> n \in Repeat
    [] s = "ttl"    -> n \in TtlSet [] s = "dynamic_pct" -> n \in Pct

Defaults ==
  [inbound |-> FALSE, outbound |-> FALSE, use_ipv4 |-> FALSE, use_ipv6 |-> FALSE, alliface |-> FALSE,
   daemon |-> FALSE, skipfw |-> FALSE, nohopest |-> FALSE, killproc |-> FALSE, silent |-> FALSE,
   use_iptables |-> FALSE, fwmark |-> DefaultMark, fwmask |-> {}, nfqnum |-> 513, repeat |-> 2,
   ttl |-> 3, dynamic_pct |-> 0, logpath |-> Null]
-----------------------------------------------------------------------------
(* calloc: an array that ends with a zero entry has one at once.            *)
NewArray == [cap |-> Cap, cnt |-> 0, at |-> [i \in 0..(Cap - 1) |-> Zero]]

(* Mutant: half of what was added is cleared. *)
ClearedHalf(at, from, n) == [i \in DOMAIN at |-> IF i \in from..(from + n \div 2 - 1) THEN Zero ELSE at[i]]
(* realloc leaves junk behind the old entries, memset clears it.            *)
Cleared(at, from, n) == [i \in DOMAIN at |-> IF i \in from..(from + n - 1) THEN Zero ELSE at[i]]
Realloc(at, n) == [i \in 0..(n - 1) |-> IF i \in DOMAIN at THEN at[i] ELSE Junk]

Grows(a) == a.cnt + 1 >= a.cap - 1
Counted(a) ==
  IF Grows(a) THEN [cap |-> 2 * a.cap, cnt |-> a.cnt + 1, at |-> Cleared(Realloc(a.at, 2 * a.cap), a.cap, a.cap)]
  ELSE [a EXCEPT !.cnt = @ + 1]
CountedOnly(a) == [a EXCEPT !.cnt = @ + 1]
Put(a, x) == [a EXCEPT !.at = [@ EXCEPT ![a.cnt - 1] = x]]
-----------------------------------------------------------------------------
Init ==
  /\ pc = "options" /\ ctx = Defaults
  /\ plinfo = NewArray /\ iface = NewArray
  /\ logfp = Null /\ freed = FALSE /\ taken = 0

(* Without any argument, or without memory for the arrays, main ends; what  *)
(* it has allocated, if anything, is freed.                                 *)
BeginFails ==
  /\ pc = "options" /\ taken = 0
  /\ pc' = "exited" /\ freed' = TRUE
  /\ UNCHANGED <<ctx, plinfo, iface, logfp, taken>>

Fail == pc' = "free"
Stay == UNCHANGED pc

Option ==
  /\ pc = "options" /\ taken < MaxOptions /\ taken' = taken + 1
  /\ UNCHANGED <<logfp, freed>>

SetFlag(f) ==
  /\ Option /\ Stay
  /\ ctx' = [ctx EXCEPT ![f] = TRUE]
  /\ UNCHANGED <<plinfo, iface>>

SetNumber(s, n) ==
  /\ Option
  /\ IF Valid(s, n) THEN ctx' = [ctx EXCEPT ![s] = n] /\ Stay ELSE Fail /\ UNCHANGED ctx
  /\ UNCHANGED <<plinfo, iface>>

SetMark(m, mark) ==
  /\ Option
  /\ IF mark # {} THEN ctx' = [ctx EXCEPT ![m] = mark] /\ Stay ELSE Fail /\ UNCHANGED ctx
  /\ UNCHANGED <<plinfo, iface>>

AddPayload(type, info) ==
  /\ Option
  /\ IF info = Empty THEN Fail /\ UNCHANGED plinfo
     ELSE plinfo' = Put(Counted(plinfo), [type |-> type, info |-> info]) /\ Stay
  /\ UNCHANGED <<ctx, iface>>

(* A name is counted before it is looked at.                                *)
AddInterface(name) ==
  /\ Option
  /\ IF name \in {Empty, TooLong} THEN iface' = Counted(iface) /\ Fail
     ELSE iface' = Put(Counted(iface), name) /\ Stay
  /\ UNCHANGED <<ctx, plinfo>>

NoMemory ==
  /\ Option /\ Fail
  /\ \/ Grows(plinfo) /\ plinfo' = CountedOnly(plinfo) /\ UNCHANGED iface
     \/ Grows(iface) /\ iface' = CountedOnly(iface) /\ UNCHANGED plinfo
  /\ UNCHANGED ctx

SetLog(path) ==
  /\ Option
  /\ ctx' = [ctx EXCEPT !.logpath = path]
  /\ IF path = TooLong THEN Fail ELSE Stay
  /\ UNCHANGED <<plinfo, iface>>

(* An unknown option, or one without its argument.                          *)
BadOption == Option /\ Fail /\ UNCHANGED <<ctx, plinfo, iface>>

EndOfOptions ==
  /\ pc = "options" /\ pc' = IF ctx.killproc THEN "log" ELSE "check"
  /\ UNCHANGED <<ctx, plinfo, iface, logfp, freed, taken>>
-----------------------------------------------------------------------------
(* Both directions, both families, the mark as mask, if none is given.      *)
Completed ==
  [ctx EXCEPT !.inbound  = @ \/ ~ctx.outbound, !.outbound = @ \/ ~ctx.inbound,
              !.use_ipv4 = @ \/ ~ctx.use_ipv6, !.use_ipv6 = @ \/ ~ctx.use_ipv4,
              !.fwmask   = IF @ = {} THEN ctx.fwmark ELSE @]

(* Mutant: a mask and a mark without a bit in common are refused, no others. *)
MaskTooSmallApart == ctx.fwmask # {} /\ ctx.fwmark \cap ctx.fwmask = {}
MaskTooSmall == ctx.fwmask # {} /\ ~(ctx.fwmark \subseteq ctx.fwmask)
Inconsistent ==
  MaskTooSmall \/ (~ctx.alliface /\ iface.cnt = 0) \/ (ctx.dynamic_pct # 0 /\ ctx.nohopest)

Check ==
  /\ pc = "check"
  /\ IF Inconsistent THEN Fail ELSE pc' = "daemon"
  /\ ctx' = Completed
  /\ plinfo' = IF plinfo.cnt # 0 \/ MaskTooSmall THEN plinfo
               ELSE Put(CountedOnly(plinfo), [type |-> "u", info |-> Null])
  /\ UNCHANGED <<iface, logfp, freed, taken>>

Daemonise(fails) ==
  /\ pc = "daemon"
  /\ IF ctx.daemon /\ fails THEN Fail ELSE pc' = "log"
  /\ UNCHANGED <<ctx, plinfo, iface, logfp, freed, taken>>

(* fs_logger_setup.  A daemon without a log has nobody to talk to.          *)
OpenLog(fails) ==
  /\ pc = "log"
  /\ IF ctx.logpath # Null /\ fails THEN Fail /\ logfp' = "stderr" /\ UNCHANGED ctx
     ELSE /\ pc' = IF ctx.killproc THEN "kill" ELSE "run"
          /\ logfp' = IF ctx.logpath = Null THEN "stderr" ELSE "file"
          /\ ctx' = IF ctx.daemon /\ ~ctx.killproc /\ ctx.logpath = Null
                    THEN [ctx EXCEPT !.silent = TRUE] ELSE ctx
  /\ UNCHANGED <<plinfo, iface, freed, taken>>

CloseLog == logfp' = IF logfp = "file" THEN Null ELSE logfp

(* The stages of Daemon, whichever way they end.                            *)
Run ==
  /\ pc = "run" /\ pc' = "free" /\ CloseLog
  /\ UNCHANGED <<ctx, plinfo, iface, freed, taken>>

(* KillRunning; main returns with what it has allocated.                    *)
Kill ==
  /\ pc = "kill" /\ pc' = "exited" /\ CloseLog
  /\ UNCHANGED <<ctx, plinfo, iface, freed, taken>>

Free ==
  /\ pc = "free" /\ pc' = "exited" /\ freed' = TRUE
  /\ UNCHANGED <<ctx, plinfo, iface, logfp, taken>>

Next ==
  \/ \E f \in Flag : SetFlag(f)
  \/ \E s \in Setting, n \in Number : SetNumber(s, n)
  \/ \E m \in Mark, mark \in SUBSET Bit : SetMark(m, mark)
  \/ \E type \in {"b", "u"}, info \in Name \cup {Empty} : AddPayload(type, info)
  \/ \E name \in Name \cup {Empty, TooLong} : AddInterface(name)
  \/ \E path \in Name \cup {TooLong} : SetLog(path)
  \/ BeginFails \/ NoMemory \/ BadOption \/ EndOfOptions \/ Check \/ Run \/ Kill \/ Free
  \/ \E fails \in BOOLEAN : Daemonise(fails) \/ OpenLog(fails)

Spec == Init /\ [][Next]_vars
-----------------------------------------------------------------------------
(* Every setting is in the range its consumers take it to be in.            *)
TypeOK ==
  /\ pc \in {"options", "check", "daemon", "log", "run", "kill", "free", "exited"}
  /\ \A f \in Flag : ctx[f] \in BOOLEAN
  /\ ctx.fwmark \in SUBSET Bit /\ ctx.fwmask \in SUBSET Bit
  /\ ctx.nfqnum \in NfqNum /\ ctx.repeat \in Repeat /\ ctx.ttl \in TtlSet
  /\ ctx.dynamic_pct \in 0..99
  /\ logfp \in {Null, "stderr", "file"} /\ freed \in BOOLEAN

Ended(a) ==
  /\ a.cnt < a.cap
  /\ \A i \in 0..(a.cap - 1) : i >= a.cnt => a.at[i] = Zero
Filled(a) == \A i \in 0..(a.cnt - 1) : a.at[i] \notin {Zero, Junk}

(* The loops of payload.c:299 and of the rules modules stop at the first     *)
(* zero entry: there is one behind the names, inside the array, however      *)
(* often it grew (mainfun.c:192-216, :232-267, :380-384).                    *)
Terminated == Ended(plinfo) /\ Ended(iface)

(* What the stages that follow are given: a direction, a family, a payload,  *)
(* interfaces or all of them, a mask that holds the mark, not both -y and    *)
(* -g, and a daemon that writes to a log or not at all, whatever the options *)
(* were and in whichever order (mainfun.c:364-417).                          *)
RunsConsistent ==
  pc = "run" =>
    /\ ctx.inbound \/ ctx.outbound
    /\ ctx.use_ipv4 \/ ctx.use_ipv6
    /\ ctx.fwmark # {} /\ ctx.fwmark \subseteq ctx.fwmask
    /\ ctx.alliface \/ iface.cnt > 0
    /\ ~(ctx.dynamic_pct > 0 /\ ctx.nohopest)
    /\ plinfo.cnt > 0 /\ Filled(plinfo) /\ Filled(iface)
    /\ ctx.daemon => ctx.silent \/ logfp = "file"

(* However it ends, the log is closed; the arrays are released unless -k     *)
(* ends the process right there (mainfun.c:352-362, :507-534).               *)
EndsClean == pc = "exited" => logfp # "file" /\ (freed \/ ctx.killproc)
=============================================================================
