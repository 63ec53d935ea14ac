---------------------------- MODULE ServiceProofs ----------------------------
(***************************************************************************)
(* Theorems about the way from the service to main: about the options, for *)
(* every initial capacity, every set of names and numbers and every bound; *)
(* about the section and the page that edits it, for every section; about  *)
(* the status panel, for every number of clicks, attempts and faults; and   *)
(* about the numbers typed, for every text.                                 *)
(***************************************************************************)
EXTENDS Service, ServicePage, Numerals, SequenceTheorems, FiniteSetTheorems, WellFoundedInduction, TLAPS

(* An array, its count inside it and zeros behind.                          *)
Holds(cap, cnt, cells) ==
  /\ cap \in Nat /\ cnt \in Nat /\ cap >= 2 /\ cnt < cap
  /\ cells = [i \in 0..(cap - 1) |-> cells[i]]
  /\ \A i \in 0..(cap - 1) : i >= cnt => cells[i] = Zero
Array(a) == \E cap, cnt, cells : Holds(cap, cnt, cells) /\ a = [cap |-> cap, cnt |-> cnt, at |-> cells]
(* The next name has its place before the array is looked at again.         *)
Roomy(a) == a.cnt + 1 < a.cap

(* The context is a record with the fields of Defaults.                     *)
Field == Flag \cup Mark \cup Setting \cup {"logpath"}
Context == DOMAIN ctx = Field /\ ctx = [x \in Field |-> ctx[x]]

Arrays ==
  /\ Array(plinfo) /\ Array(iface)
  /\ pc = "options" => Roomy(plinfo) /\ Roomy(iface)

(* Without -k, from the check on everything is as the stages need it.       *)
Checked ==
  /\ ctx.fwmark # {}
  /\ pc \in {"options", "check", "daemon", "log", "run"} => Filled(plinfo) /\ Filled(iface)
  /\ pc \in {"check", "daemon", "run"} => ~ctx.killproc
  /\ pc = "kill" => ctx.killproc
  /\ pc \in {"daemon", "log", "run"} /\ ~ctx.killproc =>
       /\ ctx.inbound \/ ctx.outbound
       /\ ctx.use_ipv4 \/ ctx.use_ipv6
       /\ ctx.fwmark \subseteq ctx.fwmask
       /\ ctx.alliface \/ iface.cnt > 0
       /\ ~(ctx.dynamic_pct > 0 /\ ctx.nohopest)
       /\ plinfo.cnt > 0
  /\ pc = "run" /\ ctx.daemon => ctx.silent \/ logfp = "file"

Closed ==
  /\ logfp = "file" => pc \in {"run", "kill"}
  /\ pc = "exited" => freed \/ ctx.killproc

Inv == TypeOK /\ Context /\ Arrays /\ Checked /\ Closed
-----------------------------------------------------------------------------
LEMMA NewArrayIsArray == Array(NewArray) /\ Roomy(NewArray) /\ Filled(NewArray)
<1> DEFINE cells == [i \in 0..(Cap - 1) |-> Zero]
<1>1. Holds(Cap, 0, cells)
  BY CapAssumption DEF Holds
<1>2. NewArray = [cap |-> Cap, cnt |-> 0, at |-> cells]
  BY DEF NewArray
<1>3. NewArray.cap = Cap /\ NewArray.cnt = 0
  BY DEF NewArray
<1> HIDE DEF cells
<1>4. Array(NewArray)
  BY <1>1, <1>2 DEF Array
<1> QED
  BY <1>3, <1>4, CapAssumption DEF Roomy, Filled

LEMMA ArrayEnded == ASSUME NEW a, Array(a) PROVE Ended(a) /\ a.cnt \in Nat /\ a.cap \in Nat /\ a.cap >= 2
<1> PICK cap, cnt, cells : Holds(cap, cnt, cells) /\ a = [cap |-> cap, cnt |-> cnt, at |-> cells]
  BY DEF Array
<1>1. a.cap = cap /\ a.cnt = cnt /\ a.at = cells
  OBVIOUS
<1> QED
  BY <1>1 DEF Ended, Holds

(* A longer array has its old entries and zeros behind them.                *)
LEMMA CountedKeeps ==
  ASSUME NEW a, Array(a), Roomy(a)
  PROVE  /\ Array(Counted(a)) /\ Roomy(Counted(a))
         /\ Counted(a).cnt = a.cnt + 1
         /\ \A i \in 0..(a.cnt - 1) : Counted(a).at[i] = a.at[i]
<1> PICK cap, cnt, cells : Holds(cap, cnt, cells) /\ a = [cap |-> cap, cnt |-> cnt, at |-> cells]
  BY DEF Array
<1>0. a.cap = cap /\ a.cnt = cnt /\ a.at = cells /\ cnt + 1 < cap
  BY DEF Roomy
<1>h. /\ cap \in Nat /\ cnt \in Nat /\ cap >= 2 /\ cnt < cap /\ cells = [i \in 0..(cap - 1) |-> cells[i]]
      /\ \A i \in 0..(cap - 1) : i >= cnt => cells[i] = Zero
  BY DEF Holds
<1>n. cap \in Nat /\ cnt \in Nat /\ cap >= 2 /\ cnt < cap
  BY <1>h
<1>1. CASE Grows(a)
  <2> DEFINE new == Cleared(Realloc(cells, 2 * cap), cap, cap)
  <2>1. Counted(a) = [cap |-> 2 * cap, cnt |-> cnt + 1, at |-> new]
    BY <1>0, <1>1 DEF Counted
  <2>2. new = [i \in 0..(2 * cap - 1) |-> IF i < cap THEN cells[i] ELSE Zero]
    <3>1. Realloc(cells, 2 * cap) = [i \in 0..(2 * cap - 1) |-> IF i < cap THEN cells[i] ELSE Junk]
      <4>1. \A i \in 0..(2 * cap - 1) : i \in DOMAIN cells <=> i < cap
        BY <1>h
      <4> QED
        BY <4>1 DEF Realloc
    <3>2. \A i \in 0..(2 * cap - 1) : i \in cap..(cap + cap - 1) <=> ~(i < cap)
      BY <1>h
    <3> QED
      BY <3>1, <3>2 DEF Cleared
  <2> HIDE DEF new
  <2>3. new = [i \in 0..(2 * cap - 1) |-> new[i]]
    BY <2>2
  <2>4. \A i \in 0..(2 * cap - 1) : i >= cnt + 1 => new[i] = Zero
    BY <1>h, <2>2
  <2>5. \A i \in 0..(cnt - 1) : new[i] = cells[i]
    BY <1>h, <2>2
  <2>6. Holds(2 * cap, cnt + 1, new)
    BY <1>h, <1>0, <2>3, <2>4 DEF Holds
  <2>7. /\ Array(Counted(a)) /\ Counted(a).cap = 2 * cap /\ Counted(a).cnt = cnt + 1
        /\ Counted(a).at = new
    BY <2>1, <2>6 DEF Array
  <2> QED
    BY <1>0, <1>n, <2>5, <2>7 DEF Roomy
<1>2. CASE ~Grows(a)
  <2>1. Counted(a) = [cap |-> cap, cnt |-> cnt + 1, at |-> cells]
    BY <1>2 DEF Counted
  <2>2. cnt + 2 < cap
    BY <1>2, <1>0, <1>h DEF Grows
  <2>3. Holds(cap, cnt + 1, cells)
    BY <1>h, <1>0 DEF Holds
  <2>4. /\ Array(Counted(a)) /\ Counted(a).cap = cap /\ Counted(a).cnt = cnt + 1
        /\ Counted(a).at = cells
    BY <2>1, <2>3 DEF Array
  <2> QED
    BY <1>0, <1>n, <2>2, <2>4 DEF Roomy
<1> QED
  BY <1>1, <1>2

LEMMA CountedOnlyKeeps ==
  ASSUME NEW a, Array(a), a.cnt + 1 < a.cap
  PROVE  Array(CountedOnly(a)) /\ CountedOnly(a).cnt = a.cnt + 1 /\ CountedOnly(a).at = a.at
<1> PICK cap, cnt, cells : Holds(cap, cnt, cells) /\ a = [cap |-> cap, cnt |-> cnt, at |-> cells]
  BY DEF Array
<1>1. CountedOnly(a) = [cap |-> cap, cnt |-> cnt + 1, at |-> cells]
  BY DEF CountedOnly
<1>2. Holds(cap, cnt + 1, cells)
  BY DEF Holds
<1> QED
  BY <1>1, <1>2 DEF Array

LEMMA PutKeeps ==
  ASSUME NEW a, NEW x, Array(a), a.cnt > 0
  PROVE  /\ Array(Put(a, x)) /\ Put(a, x).cnt = a.cnt /\ Put(a, x).cap = a.cap
         /\ Put(a, x).at[a.cnt - 1] = x
         /\ \A i \in 0..(a.cnt - 2) : Put(a, x).at[i] = a.at[i]
<1> PICK cap, cnt, cells : Holds(cap, cnt, cells) /\ a = [cap |-> cap, cnt |-> cnt, at |-> cells]
  BY DEF Array
<1>h. /\ cap \in Nat /\ cnt \in Nat /\ cap >= 2 /\ cnt < cap /\ cells = [i \in 0..(cap - 1) |-> cells[i]]
      /\ \A i \in 0..(cap - 1) : i >= cnt => cells[i] = Zero
      /\ cnt > 0
  BY DEF Holds
<1> DEFINE new == [cells EXCEPT ![cnt - 1] = x]
<1>1. Put(a, x) = [cap |-> cap, cnt |-> cnt, at |-> new]
  BY DEF Put
<1>d. DOMAIN cells = 0..(cap - 1) /\ cnt - 1 \in 0..(cap - 1)
  BY <1>h
<1>2. new = [i \in 0..(cap - 1) |-> new[i]] /\ new[cnt - 1] = x
      /\ \A i \in 0..(cap - 1) : i # cnt - 1 => new[i] = cells[i]
  BY <1>d
<1>n. cap \in Nat /\ cnt \in Nat /\ cap >= 2 /\ cnt < cap /\ cnt > 0
  BY <1>h
<1> HIDE DEF new
<1>3. Holds(cap, cnt, new)
  BY <1>h, <1>2 DEF Holds
<1>4. /\ Array(Put(a, x)) /\ Put(a, x).cap = cap /\ Put(a, x).cnt = cnt
      /\ Put(a, x).at = new
  BY <1>1, <1>3 DEF Array
<1>5. a.cap = cap /\ a.cnt = cnt /\ a.at = cells
  OBVIOUS
<1>6. \A i \in 0..(cnt - 2) : new[i] = cells[i]
  BY <1>n, <1>2
<1> QED
  BY <1>2, <1>4, <1>5, <1>6

(* One more name in an array of names.                                      *)
LEMMA AddedKeeps ==
  ASSUME NEW a, NEW x, Array(a), Roomy(a)
  PROVE  LET b == Put(Counted(a), x) IN
         /\ Array(b) /\ Roomy(b) /\ b.cnt = a.cnt + 1
         /\ \A i \in 0..(b.cnt - 1) : b.at[i] = IF i = a.cnt THEN x ELSE a.at[i]
         /\ Filled(a) /\ x \notin {Zero, Junk} => Filled(b)
<1> DEFINE c == Counted(a)
           b == Put(c, x)
<1>1. /\ Array(c) /\ Roomy(c) /\ c.cnt = a.cnt + 1 /\ a.cnt \in Nat
      /\ \A i \in 0..(a.cnt - 1) : c.at[i] = a.at[i]
  BY CountedKeeps, ArrayEnded
<1> HIDE DEF c
<1>2. /\ Array(b) /\ b.cnt = c.cnt /\ b.cap = c.cap /\ b.at[c.cnt - 1] = x
      /\ \A i \in 0..(c.cnt - 2) : b.at[i] = c.at[i]
  BY <1>1, PutKeeps
<1> HIDE DEF b
<1>3. Roomy(b) /\ b.cnt = a.cnt + 1
  BY <1>1, <1>2 DEF Roomy
<1>4. \A i \in 0..(b.cnt - 1) : IF i = a.cnt THEN b.at[i] = x ELSE i \in 0..(a.cnt - 1) /\ b.at[i] = a.at[i]
  BY <1>1, <1>2
<1>5. ASSUME Filled(a), x \notin {Zero, Junk} PROVE Filled(b)
  BY <1>4, <1>5 DEF Filled
<1> QED
  BY <1>2, <1>3, <1>4, <1>5 DEF b, c
-----------------------------------------------------------------------------
LEMMA InitEstablishesInv == Init => Inv
<1> SUFFICES ASSUME Init PROVE Inv
  OBVIOUS
<1>1. Array(plinfo) /\ Array(iface) /\ Roomy(plinfo) /\ Roomy(iface) /\ Filled(plinfo) /\ Filled(iface)
  BY NewArrayIsArray DEF Init
<1>2. /\ \A f \in Flag : ctx[f] = FALSE
      /\ ctx.fwmark = DefaultMark /\ ctx.fwmask = {} /\ ctx.nfqnum = 513 /\ ctx.repeat = 2
      /\ ctx.ttl = 3 /\ ctx.dynamic_pct = 0
  <2>1. ctx.fwmark = DefaultMark /\ ctx.fwmask = {} /\ ctx.nfqnum = 513 /\ ctx.repeat = 2
    BY DEF Init, Defaults
  <2>2. ctx.ttl = 3 /\ ctx.dynamic_pct = 0 /\ ctx.inbound = FALSE /\ ctx.outbound = FALSE
    BY DEF Init, Defaults
  <2>3. /\ ctx.use_ipv4 = FALSE /\ ctx.use_ipv6 = FALSE /\ ctx.alliface = FALSE
        /\ ctx.daemon = FALSE
    BY DEF Init, Defaults
  <2>4. /\ ctx.skipfw = FALSE /\ ctx.nohopest = FALSE /\ ctx.killproc = FALSE
        /\ ctx.silent = FALSE /\ ctx.use_iptables = FALSE
    BY DEF Init, Defaults
  <2>5. \A f \in Flag : ctx[f] = FALSE
    BY <2>2, <2>3, <2>4 DEF Flag
  <2> QED
    BY <2>1, <2>2, <2>5
<1>3. TypeOK
  <2>1. \A f \in Flag : ctx[f] \in BOOLEAN
    <3>1. \A f \in Flag : ctx[f] = FALSE
      BY <1>2
    <3> QED
      BY <3>1, Zenon
  <2>2. ctx.fwmark \in SUBSET Bit /\ ctx.fwmask \in SUBSET Bit
    BY <1>2, MarkAssumption
  <2>3. /\ ctx.nfqnum \in NfqNum /\ ctx.repeat \in Repeat /\ ctx.ttl \in TtlSet
        /\ ctx.dynamic_pct \in 0..99
    BY <1>2 DEF NfqNum, Repeat, TtlSet
  <2> QED
    BY <2>1, <2>2, <2>3 DEF Init, TypeOK
<1>4. Context
  <2>1. DOMAIN Defaults = Field
    BY DEF Defaults, Field, Flag, Mark, Setting
  <2>2. Defaults = [x \in DOMAIN Defaults |-> Defaults[x]]
    BY DEF Defaults
  <2> QED
    BY <2>1, <2>2 DEF Init, Context
<1>5. ctx.fwmark # {} /\ pc = "options" /\ logfp # "file"
  BY <1>2, MarkAssumption, NamesAssumption DEF Init
<1> QED
  BY <1>1, <1>3, <1>4, <1>5 DEF Inv, Arrays, Checked, Closed

(* While options are taken, most of the invariant is about ctx and the arrays. *)
LEMMA OptionKeepsInv ==
  ASSUME Inv, Option, pc' \in {"options", "free"}, TypeOK', Context', ctx'.fwmark # {},
         Array(plinfo)', Array(iface)',
         pc' = "options" => /\ Roomy(plinfo)' /\ Roomy(iface)'
                            /\ Filled(plinfo)' /\ Filled(iface)'
  PROVE  Inv'
<1>1. pc = "options" /\ UNCHANGED <<logfp, freed>> /\ logfp # "file"
  BY DEF Inv, Closed, Option
<1> QED
  BY <1>1 DEF Inv, Arrays, Checked, Closed

(* A setting is put into the context.                                       *)
LEMMA CtxExcept ==
  ASSUME Context, NEW f \in Field, NEW v, ctx' = [ctx EXCEPT ![f] = v]
  PROVE  Context' /\ ctx'[f] = v /\ \A g \in Field : g # f => ctx'[g] = ctx[g]
  BY DEF Context

(* The fields a type is stated of.                                          *)
LEMMA TypeKept ==
  ASSUME TypeOK, pc' \in {"options", "free"}, UNCHANGED <<logfp, freed>>,
         \A f \in Flag : ctx'[f] \in BOOLEAN,
         ctx'["fwmark"] \in SUBSET Bit, ctx'["fwmask"] \in SUBSET Bit,
         ctx'["nfqnum"] \in NfqNum, ctx'["repeat"] \in Repeat, ctx'["ttl"] \in TtlSet,
         ctx'["dynamic_pct"] \in 0..99
  PROVE  TypeOK'
  BY DEF TypeOK
-----------------------------------------------------------------------------
LEMMA AddPayloadKeepsInv ==
  ASSUME Inv, NEW type \in {"b", "u"}, NEW info \in Name \cup {Empty}, AddPayload(type, info)
  PROVE  Inv'
<1>1. Option /\ UNCHANGED <<ctx, iface>> /\ pc = "options" /\ pc' \in {"options", "free"}
  BY DEF AddPayload, Option, Fail, Stay
<1>2. TypeOK' /\ Context' /\ ctx'.fwmark # {}
  BY <1>1 DEF Inv, TypeOK, Context, Checked, Option
<1>3. Array(plinfo) /\ Roomy(plinfo) /\ Filled(plinfo) /\ Array(iface)' /\ Roomy(iface)' /\ Filled(iface)'
  BY <1>1 DEF Inv, Arrays, Checked, Array, Roomy, Filled
<1>4. Array(plinfo)' /\ (pc' = "options" => Roomy(plinfo)' /\ Filled(plinfo)')
  <2>1. CASE info = Empty
    BY <1>3, <2>1 DEF AddPayload, Fail, Array
  <2>2. CASE info # Empty
    <3> DEFINE x == [type |-> type, info |-> info]
    <3>1. x \notin {Zero, Junk}
      BY <2>2, EntriesAssumption
    <3>2. plinfo' = Put(Counted(plinfo), x)
      BY <2>2 DEF AddPayload
    <3> HIDE DEF x
    <3> DEFINE b == Put(Counted(plinfo), x)
    <3>3. Array(b) /\ Roomy(b) /\ Filled(b)
      BY <1>3, <3>1, AddedKeeps
    <3> HIDE DEF b
    <3>4. plinfo' = b
      BY <3>2 DEF b
    <3> QED
      BY <3>3, <3>4 DEF Array, Roomy, Filled
  <2> QED
    BY <2>1, <2>2
<1> QED
  BY <1>1, <1>2, <1>3, <1>4, OptionKeepsInv

LEMMA AddInterfaceKeepsInv ==
  ASSUME Inv, NEW name \in Name \cup {Empty, TooLong}, AddInterface(name)
  PROVE  Inv'
<1>1. Option /\ UNCHANGED <<ctx, plinfo>> /\ pc = "options" /\ pc' \in {"options", "free"}
  BY DEF AddInterface, Option, Fail, Stay
<1>2. TypeOK' /\ Context' /\ ctx'.fwmark # {}
  BY <1>1 DEF Inv, TypeOK, Context, Checked, Option
<1>3. Array(iface) /\ Roomy(iface) /\ Filled(iface) /\ Array(plinfo)' /\ Roomy(plinfo)' /\ Filled(plinfo)'
  BY <1>1 DEF Inv, Arrays, Checked, Array, Roomy, Filled
<1>4. Array(iface)' /\ (pc' = "options" => Roomy(iface)' /\ Filled(iface)')
  <2>1. CASE name \in {Empty, TooLong}
    <3> DEFINE b == Counted(iface)
    <3>1. Array(b)
      BY <1>3, CountedKeeps
    <3> HIDE DEF b
    <3>2. iface' = b /\ pc' = "free"
      BY <2>1 DEF AddInterface, Fail, b
    <3> QED
      BY <3>1, <3>2 DEF Array
  <2>2. CASE name \notin {Empty, TooLong}
    <3>1. name \notin {Zero, Junk}
      BY <2>2, NamesAssumption
    <3> DEFINE b == Put(Counted(iface), name)
    <3>2. Array(b) /\ Roomy(b) /\ Filled(b)
      BY <1>3, <3>1, AddedKeeps
    <3> HIDE DEF b
    <3>3. iface' = b
      BY <2>2 DEF AddInterface, b
    <3> QED
      BY <3>2, <3>3 DEF Array, Roomy, Filled
  <2> QED
    BY <2>1, <2>2
<1> QED
  BY <1>1, <1>2, <1>3, <1>4, OptionKeepsInv

LEMMA NoMemoryKeepsInv == ASSUME Inv, NoMemory PROVE Inv'
<1>1. Option /\ UNCHANGED ctx /\ pc = "options" /\ pc' = "free"
  BY DEF NoMemory, Option, Fail
<1>2. TypeOK' /\ Context' /\ ctx'.fwmark # {}
  BY <1>1 DEF Inv, TypeOK, Context, Checked, Option
<1>3. Array(plinfo) /\ Array(iface) /\ Roomy(plinfo) /\ Roomy(iface)
  BY <1>1 DEF Inv, Arrays
<1>4. Array(CountedOnly(plinfo)) /\ Array(CountedOnly(iface))
  BY <1>3, CountedOnlyKeeps DEF Roomy
<1>5. plinfo' \in {plinfo, CountedOnly(plinfo)} /\ iface' \in {iface, CountedOnly(iface)}
  BY DEF NoMemory
<1>6. Array(plinfo)' /\ Array(iface)'
  <2> DEFINE p == CountedOnly(plinfo)
             q == CountedOnly(iface)
  <2>1. Array(p) /\ Array(q) /\ plinfo' \in {plinfo, p} /\ iface' \in {iface, q}
    BY <1>4, <1>5
  <2> HIDE DEF p, q
  <2> QED
    BY <1>3, <2>1 DEF Array
<1> QED
  BY <1>1, <1>2, <1>6, OptionKeepsInv

(* The options that leave the arrays alone.                                 *)
LEMMA SettingsKeepInv ==
  ASSUME Inv, Option, pc' \in {"options", "free"}, UNCHANGED <<plinfo, iface>>,
         TypeOK', Context', ctx'.fwmark # {}
  PROVE  Inv'
<1>1. /\ Array(plinfo)' /\ Array(iface)' /\ Roomy(plinfo)' /\ Roomy(iface)'
      /\ Filled(plinfo)' /\ Filled(iface)'
  BY DEF Inv, Option, Arrays, Checked, Array, Roomy, Filled
<1> QED
  BY <1>1, OptionKeepsInv

LEMMA SetFlagKeepsInv == ASSUME Inv, NEW f \in Flag, SetFlag(f) PROVE Inv'
<1>1. Option /\ UNCHANGED <<pc, plinfo, iface>> /\ pc = "options" /\ ctx' = [ctx EXCEPT ![f] = TRUE]
  BY DEF SetFlag, Option, Stay
<1>2. Context' /\ ctx'[f] = TRUE /\ \A g \in Field : g # f => ctx'[g] = ctx[g]
  BY <1>1, CtxExcept DEF Inv, Field
<1>3. /\ \A g \in Flag : ctx'[g] \in BOOLEAN
      /\ \A g \in Field \ Flag : ctx'[g] = ctx[g]
  BY <1>2 DEF Inv, TypeOK, Field
<1>4. {"fwmark", "fwmask", "nfqnum", "repeat", "ttl", "dynamic_pct"} \subseteq Field \ Flag
  BY DEF Field, Flag, Mark, Setting
<1>5. TypeOK'
  BY <1>1, <1>3, <1>4, TypeKept DEF Inv, TypeOK, Option
<1> QED
  BY <1>1, <1>2, <1>3, <1>4, <1>5, SettingsKeepInv DEF Inv, Checked

LEMMA SetNumberKeepsInv ==
  ASSUME Inv, NEW s \in Setting, NEW n \in Number, SetNumber(s, n) PROVE Inv'
<1>1. Option /\ UNCHANGED <<plinfo, iface>> /\ pc = "options"
  BY DEF SetNumber, Option
<1>2. CASE ~Valid(s, n)
  <2>1. pc' = "free" /\ UNCHANGED ctx
    BY <1>2 DEF SetNumber, Fail
  <2> QED
    BY <1>1, <2>1, SettingsKeepInv DEF Inv, TypeOK, Context, Checked, Option
<1>3. CASE Valid(s, n)
  <2>1. pc' = pc /\ ctx' = [ctx EXCEPT ![s] = n]
    BY <1>3 DEF SetNumber, Stay
  <2>2. Context' /\ ctx'[s] = n /\ \A g \in Field : g # s => ctx'[g] = ctx[g]
    BY <2>1, CtxExcept DEF Inv, Field
  <2>3. \A g \in Flag \cup Mark : g \in Field /\ g # s
    BY DEF Field, Flag, Mark, Setting
  <2>4. Setting \subseteq Field
    BY DEF Field
  <2>5. /\ ctx'["nfqnum"] \in NfqNum /\ ctx'["repeat"] \in Repeat /\ ctx'["ttl"] \in TtlSet
        /\ ctx'["dynamic_pct"] \in 0..99
    <3>1. CASE s = "nfqnum"
      BY <1>3, <2>2, <2>4, <3>1 DEF Valid, Inv, TypeOK, Setting
    <3>2. CASE s = "repeat"
      BY <1>3, <2>2, <2>4, <3>2 DEF Valid, Inv, TypeOK, Setting
    <3>3. CASE s = "ttl"
      BY <1>3, <2>2, <2>4, <3>3 DEF Valid, Inv, TypeOK, Setting
    <3>4. CASE s = "dynamic_pct"
      BY <1>3, <2>2, <2>4, <3>4 DEF Valid, Inv, TypeOK, Setting, Pct
    <3> QED
      BY <3>1, <3>2, <3>3, <3>4 DEF Setting
  <2>6. TypeOK' /\ ctx'["fwmark"] = ctx["fwmark"]
    BY <1>1, <2>1, <2>2, <2>3, <2>5, TypeKept DEF Inv, TypeOK, Option, Mark
  <2> QED
    BY <1>1, <2>1, <2>2, <2>6, SettingsKeepInv DEF Inv, Checked
<1> QED
  BY <1>2, <1>3

LEMMA SetMarkKeepsInv ==
  ASSUME Inv, NEW m \in Mark, NEW mark \in SUBSET Bit, SetMark(m, mark) PROVE Inv'
<1>1. Option /\ UNCHANGED <<plinfo, iface>> /\ pc = "options"
  BY DEF SetMark, Option
<1>2. CASE mark = {}
  <2>1. pc' = "free" /\ UNCHANGED ctx
    BY <1>2 DEF SetMark, Fail
  <2> QED
    BY <1>1, <2>1, SettingsKeepInv DEF Inv, TypeOK, Context, Checked, Option
<1>3. CASE mark # {}
  <2>1. pc' = pc /\ ctx' = [ctx EXCEPT ![m] = mark]
    BY <1>3 DEF SetMark, Stay
  <2>2. Context' /\ ctx'[m] = mark /\ \A g \in Field : g # m => ctx'[g] = ctx[g]
    BY <2>1, CtxExcept DEF Inv, Field
  <2>3. \A g \in Flag \cup Setting : g \in Field /\ g # m
    BY DEF Field, Flag, Mark, Setting
  <2>4. Mark \subseteq Field
    BY DEF Field
  <2>5. ctx'["fwmark"] \in SUBSET Bit /\ ctx'["fwmask"] \in SUBSET Bit /\ ctx'["fwmark"] # {}
    <3>1. CASE m = "fwmark"
      BY <1>3, <2>2, <2>4, <3>1 DEF Inv, TypeOK, Mark
    <3>2. CASE m = "fwmask"
      BY <1>3, <2>2, <2>4, <3>2 DEF Inv, TypeOK, Checked, Mark
    <3> QED
      BY <3>1, <3>2 DEF Mark
  <2>6. TypeOK'
    BY <1>1, <2>1, <2>2, <2>3, <2>5, TypeKept DEF Inv, TypeOK, Option, Setting
  <2> QED
    BY <1>1, <2>1, <2>2, <2>5, <2>6, SettingsKeepInv
<1> QED
  BY <1>2, <1>3

LEMMA SetLogKeepsInv ==
  ASSUME Inv, NEW path \in Name \cup {TooLong}, SetLog(path) PROVE Inv'
<1>1. Option /\ UNCHANGED <<plinfo, iface>> /\ pc = "options" /\ pc' \in {"options", "free"}
      /\ ctx' = [ctx EXCEPT !["logpath"] = path]
  BY DEF SetLog, Option, Fail, Stay
<1>2. Context' /\ \A g \in Field : g # "logpath" => ctx'[g] = ctx[g]
  BY <1>1, CtxExcept DEF Inv, Field
<1>3. \A g \in Flag \cup Mark \cup Setting : g \in Field /\ g # "logpath"
  BY DEF Field, Flag, Mark, Setting
<1>4. TypeOK' /\ ctx'["fwmark"] = ctx["fwmark"]
  BY <1>1, <1>2, <1>3, TypeKept DEF Inv, TypeOK, Option, Setting, Mark
<1> QED
  BY <1>1, <1>2, <1>4, SettingsKeepInv DEF Inv, Checked

LEMMA BadOptionKeepsInv == ASSUME Inv, BadOption PROVE Inv'
<1>1. Option /\ UNCHANGED <<ctx, plinfo, iface>> /\ pc = "options" /\ pc' = "free"
  BY DEF BadOption, Option, Fail
<1> QED
  BY <1>1, SettingsKeepInv DEF Inv, TypeOK, Context, Checked, Option
-----------------------------------------------------------------------------
LEMMA EndOfOptionsKeepsInv == ASSUME Inv, EndOfOptions PROVE Inv'
<1>1. /\ pc = "options" /\ UNCHANGED <<ctx, plinfo, iface, logfp, freed>>
      /\ ctx.killproc => pc' = "log"
      /\ ~ctx.killproc => pc' = "check"
  BY DEF EndOfOptions
<1>2. TypeOK' /\ Context'
  BY <1>1 DEF Inv, TypeOK, Context
<1>3. Arrays'
  BY <1>1 DEF Inv, Arrays, Array, Roomy
<1>4. Checked' /\ Closed'
  BY <1>1 DEF Inv, Checked, Closed, Filled
<1> QED
  BY <1>2, <1>3, <1>4 DEF Inv

LEMMA CompletedFields ==
  ASSUME Context
  PROVE  /\ DOMAIN Completed = Field /\ Completed = [x \in Field |-> Completed[x]]
         /\ Completed.inbound = (ctx.inbound \/ ~ctx.outbound)
         /\ Completed.outbound = (ctx.outbound \/ ~ctx.inbound)
         /\ Completed.use_ipv4 = (ctx.use_ipv4 \/ ~ctx.use_ipv6)
         /\ Completed.use_ipv6 = (ctx.use_ipv6 \/ ~ctx.use_ipv4)
         /\ Completed.fwmask = IF ctx.fwmask = {} THEN ctx.fwmark ELSE ctx.fwmask
         /\ \A x \in Field \ {"inbound", "outbound", "use_ipv4", "use_ipv6", "fwmask"} :
              Completed[x] = ctx[x]
  BY DEF Context, Completed, Field, Flag, Mark, Setting

LEMMA CheckKeepsInv == ASSUME Inv, Check PROVE Inv'
<1>1. /\ pc = "check" /\ ctx' = Completed /\ UNCHANGED <<iface, logfp, freed>>
      /\ Inconsistent => pc' = "free"
      /\ ~Inconsistent => pc' = "daemon"
      /\ Context /\ ~ctx.killproc /\ logfp # "file" /\ ctx.fwmark # {}
  BY DEF Check, Fail, Inv, Checked, Closed
<1>2. Context'
  BY <1>1, CompletedFields DEF Context
<1>3. /\ ctx'["inbound"] = (ctx["inbound"] \/ ~ctx["outbound"])
      /\ ctx'["outbound"] = (ctx["outbound"] \/ ~ctx["inbound"])
      /\ ctx'["use_ipv4"] = (ctx["use_ipv4"] \/ ~ctx["use_ipv6"])
      /\ ctx'["use_ipv6"] = (ctx["use_ipv6"] \/ ~ctx["use_ipv4"])
      /\ ctx'["fwmask"] = IF ctx["fwmask"] = {} THEN ctx["fwmark"] ELSE ctx["fwmask"]
  BY <1>1, CompletedFields
<1>4. \A x \in Field \ {"inbound", "outbound", "use_ipv4", "use_ipv6", "fwmask"} : ctx'[x] = ctx[x]
  BY <1>1, CompletedFields
<1>5. {"alliface", "nohopest", "killproc", "daemon", "silent", "fwmark", "nfqnum", "repeat", "ttl",
       "dynamic_pct"} \subseteq Field \ {"inbound", "outbound", "use_ipv4", "use_ipv6", "fwmask"}
  BY DEF Field, Flag, Mark, Setting
<1>6. \A f \in Flag : ctx'[f] \in BOOLEAN
  <2>1. ASSUME NEW f \in Flag PROVE ctx'[f] \in BOOLEAN
    <3>1. CASE f \in {"inbound", "outbound", "use_ipv4", "use_ipv6"}
      BY <1>3, <3>1
    <3>2. CASE f \notin {"inbound", "outbound", "use_ipv4", "use_ipv6"}
      <4>1. f \in Field \ {"inbound", "outbound", "use_ipv4", "use_ipv6", "fwmask"}
        BY <3>2 DEF Field, Flag
      <4> QED
        BY <1>4, <4>1 DEF Inv, TypeOK
    <3> QED
      BY <3>1, <3>2
  <2> QED
    BY <2>1
<1>7. TypeOK'
  BY <1>1, <1>3, <1>4, <1>5, <1>6 DEF Inv, TypeOK
<1>8. Array(plinfo)' /\ Filled(plinfo)' /\ (~MaskTooSmall => plinfo.cnt' > 0)
  <2>1. Array(plinfo) /\ Filled(plinfo) /\ plinfo.cnt \in Nat
    BY <1>1, ArrayEnded DEF Inv, Arrays, Checked
  <2>2. CASE plinfo.cnt # 0 \/ MaskTooSmall
    <3>1. plinfo' = plinfo
      BY <2>2 DEF Check
    <3> QED
      BY <2>1, <2>2, <3>1 DEF Array, Filled
  <2>3. CASE ~(plinfo.cnt # 0 \/ MaskTooSmall)
    <3> DEFINE x == [type |-> "u", info |-> Null]
               c == CountedOnly(plinfo)
               b == Put(c, x)
    <3>1. x \notin {Zero, Junk}
      BY EntriesAssumption
    <3>2. plinfo.cap \in Nat /\ plinfo.cap >= 2 /\ plinfo.cnt = 0
      BY <2>1, <2>3, ArrayEnded
    <3>3. Array(c) /\ c.cnt = 1
      BY <2>1, <3>2, CountedOnlyKeeps
    <3> HIDE DEF x, c
    <3>4. Array(b) /\ b.cnt = 1 /\ b.at[0] = x
      BY <3>1, <3>3, PutKeeps
    <3> HIDE DEF b
    <3>5. plinfo' = b
      BY <2>3 DEF Check, b, c, x
    <3>6. Filled(b)
      BY <3>1, <3>4 DEF Filled
    <3> QED
      BY <3>4, <3>5, <3>6 DEF Array, Filled
  <2> QED
    BY <2>2, <2>3
<1>9. Arrays'
  BY <1>1, <1>8 DEF Inv, Arrays, Array
<1>10. /\ ctx.dynamic_pct \in 0..99 /\ Filled(iface)' /\ ctx.inbound \in BOOLEAN
       /\ ctx.use_ipv4 \in BOOLEAN
  BY <1>1 DEF Inv, TypeOK, Checked, Filled, Flag
<1>11. /\ ctx'["inbound"] \/ ctx'["outbound"]
       /\ ctx'["use_ipv4"] \/ ctx'["use_ipv6"]
       /\ ~MaskTooSmall => ctx'["fwmark"] \subseteq ctx'["fwmask"]
       /\ ctx'["fwmark"] # {} /\ ~ctx'["killproc"]
  BY <1>1, <1>3, <1>4, <1>5, <1>10 DEF MaskTooSmall
<1>12. ~Inconsistent => /\ ctx'["alliface"] \/ iface.cnt > 0
                        /\ ~(ctx'["dynamic_pct"] > 0 /\ ctx'["nohopest"])
                        /\ ~MaskTooSmall
  <2>1. iface.cnt \in Nat
    BY ArrayEnded DEF Inv, Arrays
  <2> QED
    BY <1>4, <1>5, <1>10, <2>1 DEF Inconsistent
<1>13. Checked'
  BY <1>1, <1>8, <1>10, <1>11, <1>12 DEF Checked
<1>14. Closed'
  BY <1>1 DEF Inv, Closed
<1> QED
  BY <1>2, <1>7, <1>9, <1>13, <1>14 DEF Inv

LEMMA DaemoniseKeepsInv == ASSUME Inv, NEW fails \in BOOLEAN, Daemonise(fails) PROVE Inv'
<1>1. /\ pc = "daemon" /\ pc' \in {"free", "log"} /\ UNCHANGED <<ctx, plinfo, iface, logfp, freed>>
  BY DEF Daemonise, Fail
<1>2. TypeOK' /\ Context'
  BY <1>1 DEF Inv, TypeOK, Context
<1>3. Arrays'
  BY <1>1 DEF Inv, Arrays, Array, Roomy
<1>4. Checked' /\ Closed'
  BY <1>1 DEF Inv, Checked, Closed, Filled
<1> QED
  BY <1>2, <1>3, <1>4 DEF Inv

LEMMA OpenLogKeepsInv == ASSUME Inv, NEW fails \in BOOLEAN, OpenLog(fails) PROVE Inv'
<1>1. pc = "log" /\ UNCHANGED <<plinfo, iface, freed>>
  BY DEF OpenLog
<1>2. Arrays' /\ (Filled(plinfo) /\ Filled(iface))'
  <2>1. pc' # "options"
    BY DEF OpenLog, Fail
  <2> QED
    BY <1>1, <2>1 DEF Inv, Arrays, Array, Checked, Filled
<1>3. CASE ctx.logpath # Null /\ fails
  <2>1. pc' = "free" /\ logfp' = "stderr" /\ UNCHANGED ctx
    BY <1>3 DEF OpenLog, Fail
  <2> QED
    BY <1>1, <1>2, <2>1 DEF Inv, TypeOK, Context, Checked, Closed
<1>4. CASE ~(ctx.logpath # Null /\ fails)
  <2> DEFINE quiet == ctx.daemon /\ ~ctx.killproc /\ ctx.logpath = Null
  <2>1. /\ pc' = IF ctx.killproc THEN "kill" ELSE "run"
        /\ logfp' = IF ctx.logpath = Null THEN "stderr" ELSE "file"
        /\ ctx' = IF quiet THEN [ctx EXCEPT !["silent"] = TRUE] ELSE ctx
    BY <1>4 DEF OpenLog
  <2>2. /\ Context' /\ (quiet => ctx'["silent"] = TRUE)
        /\ \A g \in Field : g # "silent" => ctx'[g] = ctx[g]
    <3>1. CASE quiet
      BY <2>1, <3>1, CtxExcept DEF Inv, Field, Flag
    <3>2. CASE ~quiet
      BY <2>1, <3>2 DEF Inv, Context
    <3> QED
      BY <3>1, <3>2
  <2>3. ctx'["silent"] \in BOOLEAN
    BY <2>1, <2>2 DEF Inv, TypeOK, Flag
  <2>4. /\ \A g \in Flag : g \in Field
        /\ \A g \in Mark \cup Setting : g \in Field /\ g # "silent"
    BY DEF Field, Flag, Mark, Setting
  <2>5. TypeOK'
    <3>1. \A f \in Flag : ctx'[f] \in BOOLEAN
      BY <2>2, <2>3, <2>4 DEF Inv, TypeOK
    <3>2. /\ ctx'["fwmark"] = ctx["fwmark"] /\ ctx'["fwmask"] = ctx["fwmask"]
          /\ ctx'["nfqnum"] = ctx["nfqnum"] /\ ctx'["repeat"] = ctx["repeat"]
          /\ ctx'["ttl"] = ctx["ttl"] /\ ctx'["dynamic_pct"] = ctx["dynamic_pct"]
      BY <2>2, <2>4 DEF Mark, Setting
    <3> QED
      BY <1>1, <2>1, <3>1, <3>2 DEF Inv, TypeOK
  <2>6. /\ ctx'["killproc"] = ctx["killproc"] /\ ctx'["inbound"] = ctx["inbound"]
        /\ ctx'["outbound"] = ctx["outbound"] /\ ctx'["use_ipv4"] = ctx["use_ipv4"]
        /\ ctx'["use_ipv6"] = ctx["use_ipv6"] /\ ctx'["alliface"] = ctx["alliface"]
        /\ ctx'["nohopest"] = ctx["nohopest"] /\ ctx'["daemon"] = ctx["daemon"]
    BY <2>2, <2>4 DEF Flag
  <2>7. /\ ctx'["fwmark"] = ctx["fwmark"] /\ ctx'["fwmask"] = ctx["fwmask"]
        /\ ctx'["dynamic_pct"] = ctx["dynamic_pct"]
    BY <2>2, <2>4 DEF Mark, Setting
  <2>8. ctx'["daemon"] /\ ~ctx.killproc => ctx'["silent"] \/ logfp' = "file"
    BY <2>1, <2>2, <2>6
  <2>9. Checked'
    BY <1>1, <1>2, <2>1, <2>6, <2>7, <2>8 DEF Inv, Checked
  <2>10. Closed'
    BY <1>1, <2>1 DEF Closed
  <2> QED
    BY <1>2, <2>2, <2>5, <2>9, <2>10 DEF Inv
<1> QED
  BY <1>3, <1>4

LEMMA EndKeepsInv == ASSUME Inv, BeginFails \/ Run \/ Kill \/ Free PROVE Inv'
<1>1. /\ UNCHANGED <<ctx, plinfo, iface>> /\ pc' \in {"free", "exited"}
      /\ logfp' \in {logfp, Null} /\ logfp' # "file" /\ freed' \in BOOLEAN
      /\ pc' = "exited" => freed' \/ ctx.killproc
  BY NamesAssumption DEF Inv, TypeOK, Checked, Closed, BeginFails, Run, Kill, Free, CloseLog
<1>2. TypeOK' /\ Context'
  BY <1>1 DEF Inv, TypeOK, Context
<1>3. Arrays'
  BY <1>1 DEF Inv, Arrays, Array
<1>4. Checked' /\ Closed'
  BY <1>1 DEF Inv, Checked, Closed
<1> QED
  BY <1>2, <1>3, <1>4 DEF Inv
-----------------------------------------------------------------------------
LEMMA StepKeepsInv == Inv /\ [Next]_vars => Inv'
<1> SUFFICES ASSUME Inv, [Next]_vars PROVE Inv'
  OBVIOUS
<1>1. CASE \/ \E f \in Flag : SetFlag(f)
           \/ \E s \in Setting, n \in Number : SetNumber(s, n)
           \/ \E m \in Mark, mark \in SUBSET Bit : SetMark(m, mark)
  BY <1>1, SetFlagKeepsInv, SetNumberKeepsInv, SetMarkKeepsInv
<1>2. CASE \/ \E type \in {"b", "u"}, info \in Name \cup {Empty} : AddPayload(type, info)
           \/ \E name \in Name \cup {Empty, TooLong} : AddInterface(name)
           \/ \E path \in Name \cup {TooLong} : SetLog(path)
  BY <1>2, AddPayloadKeepsInv, AddInterfaceKeepsInv, SetLogKeepsInv
<1>3. CASE NoMemory \/ BadOption \/ EndOfOptions \/ Check
  BY <1>3, NoMemoryKeepsInv, BadOptionKeepsInv, EndOfOptionsKeepsInv, CheckKeepsInv
<1>4. CASE BeginFails \/ Run \/ Kill \/ Free
  BY <1>4, EndKeepsInv
<1>5. CASE \E fails \in BOOLEAN : Daemonise(fails) \/ OpenLog(fails)
  BY <1>5, DaemoniseKeepsInv, OpenLogKeepsInv
<1>6. CASE UNCHANGED vars
  <2>1. TypeOK' /\ Context'
    BY <1>6 DEF vars, Inv, TypeOK, Context
  <2>2. Arrays' /\ Closed'
    BY <1>6 DEF vars, Inv, Arrays, Array, Roomy, Closed
  <2>3. Checked'
    BY <1>6 DEF vars, Inv, Checked, Filled
  <2> QED
    BY <2>1, <2>2, <2>3 DEF Inv
<1> QED
  BY <1>1, <1>2, <1>3, <1>4, <1>5, <1>6 DEF Next

LEMMA Invariance == Spec => []Inv
  BY InitEstablishesInv, StepKeepsInv, PTL DEF Spec

(* Settings stay in their ranges, whatever numbers are given                 *)
(* (mainfun.c:274-340).                                                      *)
THEOREM TypeCorrect == Spec => []TypeOK
<1>1. Inv => TypeOK
  BY DEF Inv
<1> QED
  BY <1>1, Invariance, PTL

(* The arrays end with a zero entry inside their memory, for any number of   *)
(* names (mainfun.c:183-268).                                                *)
THEOREM ArraysTerminated == Spec => []Terminated
<1>1. Inv => Terminated
  BY ArrayEnded DEF Inv, Arrays, Terminated
<1> QED
  BY <1>1, Invariance, PTL

(* Whatever the options, the stages get a context they can work with         *)
(* (mainfun.c:364-417).                                                      *)
THEOREM StagesGetConsistentContext == Spec => []RunsConsistent
<1>1. Inv => RunsConsistent
  BY DEF Inv, Checked, RunsConsistent
<1> QED
  BY <1>1, Invariance, PTL

(* The log is closed and the arrays are released on every path that returns  *)
(* through free_mem (mainfun.c:507-534).                                     *)
THEOREM MainEndsClean == Spec => []EndsClean
<1>1. Inv => EndsClean
  BY DEF Inv, Closed, EndsClean
<1> QED
  BY <1>1, Invariance, PTL
-----------------------------------------------------------------------------
(* A sequence, whatever is in it.                                            *)
IsSeq(s) == s \in Seq(ToSet(s))

LEMMA SeqFacts ==
  ASSUME NEW s, IsSeq(s)
  PROVE  Len(s) \in Nat /\ DOMAIN s = 1..Len(s) /\ s = [i \in 1..Len(s) |-> s[i]]
  BY LenProperties DEF IsSeq

LEMMA FunctionIsSeq ==
  ASSUME NEW n \in Nat, NEW s, s = [i \in 1..n |-> s[i]]
  PROVE  IsSeq(s) /\ Len(s) = n
<1>1. s \in [1..n -> ToSet(s)]
  BY DEF ToSet
<1>2. s \in Seq(ToSet(s))
  BY <1>1, SeqDef
<1>3. Len(s) \in Nat /\ 1..Len(s) = 1..n
  BY <1>2, LenProperties
<1> QED
  BY <1>2, <1>3 DEF IsSeq

(* One sequence behind another.                                              *)
Joins(u, s, t) ==
  /\ IsSeq(u) /\ Len(u) = Len(s) + Len(t)
  /\ \A i \in 1..Len(s) : u[i] = s[i]
  /\ \A i \in 1..Len(t) : u[Len(s) + i] = t[i]

LEMMA Joined == ASSUME NEW s, NEW t, IsSeq(s), IsSeq(t) PROVE Joins(s \o t, s, t)
<1> DEFINE S == ToSet(s) \cup ToSet(t)
           u == s \o t
<1>1. s \in Seq(S) /\ t \in Seq(S)
  BY SeqMonotonic DEF IsSeq
<1> HIDE DEF S
<1>2. /\ u \in Seq(S) /\ Len(u) = Len(s) + Len(t)
      /\ \A i \in 1..Len(s) + Len(t) : u[i] = IF i <= Len(s) THEN s[i] ELSE t[i - Len(s)]
  BY <1>1, ConcatProperties
<1>3. Len(s) \in Nat /\ Len(t) \in Nat /\ u = [i \in 1..Len(u) |-> u[i]]
  BY <1>1, <1>2, LenProperties
<1> HIDE DEF u
<1>4. IsSeq(u)
  BY <1>2, <1>3, FunctionIsSeq
<1>5. \A i \in 1..Len(s) : u[i] = s[i]
  BY <1>2, <1>3
<1>6. \A i \in 1..Len(t) : u[Len(s) + i] = t[i]
  BY <1>2, <1>3
<1>7. Joins(u, s, t)
  BY <1>2, <1>4, <1>5, <1>6 DEF Joins
<1> QED
  BY <1>7 DEF u

(* Where each part of a line is.                                             *)
Laid(line, a, b, c, d, e, f, g) ==
  LET atC == Len(a) + Len(b)
      atD == atC + Len(c)
      atE == atD + Len(d)
      atF == atE + Len(e)
      atG == atF + Len(f)
  IN  /\ IsSeq(line) /\ Len(line) = atG + Len(g)
      /\ \A i \in 1..Len(a) : line[i] = a[i]
      /\ \A i \in 1..Len(b) : line[Len(a) + i] = b[i]
      /\ \A i \in 1..Len(c) : line[atC + i] = c[i]
      /\ \A i \in 1..Len(d) : line[atD + i] = d[i]
      /\ \A i \in 1..Len(e) : line[atE + i] = e[i]
      /\ \A i \in 1..Len(f) : line[atF + i] = f[i]
      /\ \A i \in 1..Len(g) : line[atG + i] = g[i]

LEMMA SevenParts ==
  ASSUME NEW a, NEW b, NEW c, NEW d, NEW e, NEW f, NEW g,
         IsSeq(a), IsSeq(b), IsSeq(c), IsSeq(d), IsSeq(e), IsSeq(f), IsSeq(g)
  PROVE  Laid(a \o b \o c \o d \o e \o f \o g, a, b, c, d, e, f, g)
<1> DEFINE p2 == a \o b
           p3 == p2 \o c
           p4 == p3 \o d
           p5 == p4 \o e
           p6 == p5 \o f
           p7 == p6 \o g
<1>2. Joins(p2, a, b) /\ IsSeq(p2)
  <2>1. Joins(p2, a, b)
    BY Joined, Zenon
  <2> QED
    BY <2>1, Zenon DEF Joins
<1> HIDE DEF p2
<1>3. Joins(p3, p2, c) /\ IsSeq(p3)
  <2>1. Joins(p3, p2, c)
    BY <1>2, Joined, Zenon
  <2> QED
    BY <2>1, Zenon DEF Joins
<1> HIDE DEF p3
<1>4. Joins(p4, p3, d) /\ IsSeq(p4)
  <2>1. Joins(p4, p3, d)
    BY <1>3, Joined, Zenon
  <2> QED
    BY <2>1, Zenon DEF Joins
<1> HIDE DEF p4
<1>5. Joins(p5, p4, e) /\ IsSeq(p5)
  <2>1. Joins(p5, p4, e)
    BY <1>4, Joined, Zenon
  <2> QED
    BY <2>1, Zenon DEF Joins
<1> HIDE DEF p5
<1>6. Joins(p6, p5, f) /\ IsSeq(p6)
  <2>1. Joins(p6, p5, f)
    BY <1>5, Joined, Zenon
  <2> QED
    BY <2>1, Zenon DEF Joins
<1> HIDE DEF p6
<1>7. Joins(p7, p6, g) /\ IsSeq(p7)
  <2>1. Joins(p7, p6, g)
    BY <1>6, Joined, Zenon
  <2> QED
    BY <2>1, Zenon DEF Joins
<1> HIDE DEF p7
<1>n. /\ Len(a) \in Nat /\ Len(b) \in Nat /\ Len(c) \in Nat /\ Len(d) \in Nat /\ Len(e) \in Nat
      /\ Len(f) \in Nat /\ Len(g) \in Nat
  BY SeqFacts
<1>l. /\ Len(p2) = Len(a) + Len(b) /\ Len(p3) = Len(p2) + Len(c) /\ Len(p4) = Len(p3) + Len(d)
      /\ Len(p5) = Len(p4) + Len(e) /\ Len(p6) = Len(p5) + Len(f) /\ Len(p7) = Len(p6) + Len(g)
  BY <1>2, <1>3, <1>4, <1>5, <1>6, <1>7, Zenon DEF Joins
(* What is in an earlier part stays where it is.                             *)
<1>8. \A i \in 1..Len(p6) : p7[i] = p6[i]
  BY <1>7, Zenon DEF Joins
<1>9. /\ \A i \in 1..Len(p5) : p7[i] = p5[i]
      /\ \A i \in 1..Len(f) : p7[Len(p5) + i] = f[i]
  <2>1. \A i \in 1..Len(p5) : i \in 1..Len(p6) /\ p6[i] = p5[i]
    BY <1>n, <1>l, <1>6 DEF Joins
  <2>2. \A i \in 1..Len(f) : Len(p5) + i \in 1..Len(p6) /\ p6[Len(p5) + i] = f[i]
    BY <1>n, <1>l, <1>6 DEF Joins
  <2> QED
    BY <1>8, <2>1, <2>2, Zenon
<1>10. /\ \A i \in 1..Len(p4) : p7[i] = p4[i]
       /\ \A i \in 1..Len(e) : p7[Len(p4) + i] = e[i]
  <2>1. \A i \in 1..Len(p4) : i \in 1..Len(p5) /\ p5[i] = p4[i]
    BY <1>n, <1>l, <1>5 DEF Joins
  <2>2. \A i \in 1..Len(e) : Len(p4) + i \in 1..Len(p5) /\ p5[Len(p4) + i] = e[i]
    BY <1>n, <1>l, <1>5 DEF Joins
  <2> QED
    BY <1>9, <2>1, <2>2, Zenon
<1>11. /\ \A i \in 1..Len(p3) : p7[i] = p3[i]
       /\ \A i \in 1..Len(d) : p7[Len(p3) + i] = d[i]
  <2>1. \A i \in 1..Len(p3) : i \in 1..Len(p4) /\ p4[i] = p3[i]
    BY <1>n, <1>l, <1>4 DEF Joins
  <2>2. \A i \in 1..Len(d) : Len(p3) + i \in 1..Len(p4) /\ p4[Len(p3) + i] = d[i]
    BY <1>n, <1>l, <1>4 DEF Joins
  <2> QED
    BY <1>10, <2>1, <2>2, Zenon
<1>12. /\ \A i \in 1..Len(p2) : p7[i] = p2[i]
       /\ \A i \in 1..Len(c) : p7[Len(p2) + i] = c[i]
  <2>1. \A i \in 1..Len(p2) : i \in 1..Len(p3) /\ p3[i] = p2[i]
    BY <1>n, <1>l, <1>3 DEF Joins
  <2>2. \A i \in 1..Len(c) : Len(p2) + i \in 1..Len(p3) /\ p3[Len(p2) + i] = c[i]
    BY <1>n, <1>l, <1>3 DEF Joins
  <2> QED
    BY <1>11, <2>1, <2>2, Zenon
<1>13. /\ \A i \in 1..Len(a) : p7[i] = a[i]
       /\ \A i \in 1..Len(b) : p7[Len(a) + i] = b[i]
  <2>1. \A i \in 1..Len(a) : i \in 1..Len(p2) /\ p2[i] = a[i]
    BY <1>n, <1>l, <1>2 DEF Joins
  <2>2. \A i \in 1..Len(b) : Len(a) + i \in 1..Len(p2) /\ p2[Len(a) + i] = b[i]
    BY <1>n, <1>l, <1>2 DEF Joins
  <2> QED
    BY <1>12, <2>1, <2>2, Zenon
<1>14. \A i \in 1..Len(g) : p7[Len(p6) + i] = g[i]
  BY <1>7, Zenon DEF Joins
<1>15. Laid(p7, a, b, c, d, e, f, g)
  BY <1>7, <1>l, <1>9, <1>10, <1>11, <1>12, <1>13, <1>14 DEF Laid
<1> QED
  BY <1>15 DEF p7, p6, p5, p4, p3, p2
-----------------------------------------------------------------------------
(* A section the script can read.                                            *)
Section(c) ==
  /\ DOMAIN c = DOMAIN Shipped
  /\ \A o \in Lists : IsList(c[o])
  /\ \A o \in Switches : c[o] \in BOOLEAN \cup {Unset}
  /\ \A o \in Numbers : c[o] \in Text \cup {Unset}

(* Where the values, -a and the log are on the line; the interfaces are      *)
(* between -a and the log.                                                   *)
ValuesAt == 8 + Len(Uris(cfg)) + Len(cfg.payload_file)
AllAt == ValuesAt + 7
LogAt == AllAt + Len(Named(cfg, devs)) + 1

(* What is where on the line.                                                *)
Parts ==
  /\ IsSeq(Uris(cfg)) /\ IsSeq(cfg.payload_file) /\ IsSeq(Named(cfg, devs))
  /\ DOMAIN argv = 1..LogAt
  /\ \A i \in 1..8 : argv[i] = [given |-> On(cfg, FlagArgs[i].option), flag |-> FlagArgs[i].flag]
  /\ \A i \in 1..Len(Uris(cfg)) : argv[8 + i] = [given |-> TRUE, type |-> "u", info |-> Uris(cfg)[i]]
  /\ \A i \in 1..Len(cfg.payload_file) :
       argv[8 + Len(Uris(cfg)) + i] = [given |-> TRUE, type |-> "b", info |-> cfg.payload_file[i]]
  /\ \A i \in 1..Len(Uris(cfg)) : Uris(cfg)[i] # Empty
  /\ \A i \in 1..Len(cfg.payload_file) : cfg.payload_file[i] # Empty
  /\ \A i \in 1..6 : argv[ValuesAt + i] =
       [given |-> Given(cfg, ValueArgs[i].option), setting |-> ValueArgs[i].setting,
        value |-> cfg[ValueArgs[i].option]]
  /\ argv[AllAt] = [given |-> On(cfg, "all_interfaces"), flag |-> "alliface"]
  /\ \A i \in 1..Len(Named(cfg, devs)) : argv[AllAt + i] =
       [given |-> ~On(cfg, "all_interfaces") /\ Adds(Named(cfg, devs), i), iface |-> Named(cfg, devs)[i]]
  /\ argv[LogAt] = [given |-> Set(cfg, "log_file"), log |-> cfg.log_file]

LEMMA ListFacts ==
  ASSUME NEW s, IsList(s)
  PROVE  IsSeq(s) /\ \A i \in 1..Len(s) : s[i] # Empty
<1> DEFINE S == ToSet(s) \ {Empty}
<1>1. s \in Seq(S)
  BY DEF IsList
<1>2. S \subseteq ToSet(s)
  OBVIOUS
<1>3. ASSUME NEW i \in 1..Len(s) PROVE s[i] \in S
  BY <1>1, ElementOfSeq
<1> HIDE DEF S
<1>4. s \in Seq(ToSet(s))
  BY <1>1, <1>2, SeqMonotonic
<1> QED
  BY <1>3, <1>4 DEF S, IsSeq

LEMMA UrisAreList == ASSUME NEW c, Section(c), Profile(c) \in Profiles PROVE IsList(Uris(c))
<1>1. IsList(c.sip_uri)
  BY DEF Section, Lists
<1>2. IsList(<<>>)
  BY EmptySeq DEF IsList
<1>3. Profile(c) \notin {"standard", "custom"} => IsList(Carrier[Profile(c)])
  BY SectionAssumption DEF Profiles
<1> QED
  BY <1>1, <1>2, <1>3 DEF Uris

LEMMA NamedIsSeq ==
  ASSUME NEW c, NEW view, Section(c)
  PROVE  IsSeq(Named(c, view))
<1> DEFINE resolved == [i \in DOMAIN c.network |-> view[c.network[i]]]
<1>1. IsSeq(c.network) /\ IsSeq(c.interface)
  BY ListFacts DEF Section, Lists
<1>2. IsSeq(<<>>)
  BY EmptySeq DEF IsSeq
<1>3. Len(c.network) \in Nat /\ resolved = [i \in 1..Len(c.network) |-> resolved[i]]
  BY <1>1, SeqFacts
<1> HIDE DEF resolved
<1>4. IsSeq(resolved)
  BY <1>3, FunctionIsSeq
<1> DEFINE first == IF UsesNetworks(c) THEN resolved ELSE <<>>
           second == IF UsesInterfaces(c) THEN c.interface ELSE <<>>
<1>5. IsSeq(first) /\ IsSeq(second) /\ Named(c, view) = first \o second
  BY <1>1, <1>2, <1>4 DEF Named, resolved
<1> HIDE DEF first, second
<1> QED
  BY <1>5, Joined DEF Joins

LEMMA OnIsBoolean == ASSUME NEW c, Section(c), NEW o \in Switches PROVE On(c, o) \in BOOLEAN
<1>1. c[o] # Unset => c[o] \in BOOLEAN
  BY DEF Section
<1>2. CASE c[o] = Unset
  <2>1. On(c, o) = (o \in OnByDefault)
    BY <1>2 DEF On
  <2> QED
    BY <2>1
<1>3. CASE c[o] # Unset
  <2>1. On(c, o) = c[o]
    BY <1>3 DEF On
  <2> QED
    BY <1>1, <1>3, <2>1
<1> QED
  BY <1>2, <1>3

LEMMA SingleIsSeq == ASSUME NEW x PROVE IsSeq(<<x>>) /\ Len(<<x>>) = 1 /\ <<x>>[1] = x
<1>1. <<x>> \in Seq({x}) /\ ToSet(<<x>>) = {x}
  BY DEF ToSet
<1> QED
  BY <1>1 DEF IsSeq

LEMMA LineHasParts ==
  ASSUME Section(cfg), Startable(cfg, devs), argv = Argv(cfg, devs)
  PROVE  Parts
<1> DEFINE uris   == Uris(cfg)
           files  == cfg.payload_file
           names  == Named(cfg, devs)
           a == Each(FlagArgs, LAMBDA x : [given |-> On(cfg, x.option), flag |-> x.flag])
           b == Each(uris, LAMBDA u : [given |-> u # Empty, type |-> "u", info |-> u])
           c == Each(files, LAMBDA x : [given |-> x # Empty, type |-> "b", info |-> x])
           d == Each(ValueArgs,
                     LAMBDA v : [given |-> Given(cfg, v.option), setting |-> v.setting, value |-> cfg[v.option]])
           e == <<[given |-> On(cfg, "all_interfaces"), flag |-> "alliface"]>>
           f == [i \in DOMAIN names |-> [given |-> ~On(cfg, "all_interfaces") /\ Adds(names, i), iface |-> names[i]]]
           g == <<[given |-> Set(cfg, "log_file"), log |-> cfg.log_file]>>
<1>1. argv = a \o b \o c \o d \o e \o f \o g
  BY DEF Argv
<1>2. /\ IsSeq(uris) /\ \A i \in 1..Len(uris) : uris[i] # Empty
      /\ IsSeq(files) /\ \A i \in 1..Len(files) : files[i] # Empty
      /\ IsSeq(names)
  BY UrisAreList, ListFacts, NamedIsSeq DEF Section, Lists, Startable
<1>3. DOMAIN uris = 1..Len(uris) /\ DOMAIN files = 1..Len(files) /\ DOMAIN names = 1..Len(names)
      /\ Len(uris) \in Nat /\ Len(files) \in Nat /\ Len(names) \in Nat
  BY <1>2, SeqFacts
<1> HIDE DEF uris, files, names
<1>a. /\ IsSeq(a) /\ Len(a) = 8
      /\ \A i \in 1..8 : a[i] = [given |-> On(cfg, FlagArgs[i].option), flag |-> FlagArgs[i].flag]
  <2>1. DOMAIN FlagArgs = 1..8
    BY DEF FlagArgs
  <2>2. a = [i \in 1..8 |-> a[i]]
    BY <2>1 DEF Each
  <2>3. \A i \in 1..8 : a[i] = [given |-> On(cfg, FlagArgs[i].option), flag |-> FlagArgs[i].flag]
    BY <2>1 DEF Each
  <2> HIDE DEF a
  <2> QED
    BY <2>2, <2>3, FunctionIsSeq
<1>b. /\ IsSeq(b) /\ Len(b) = Len(uris)
      /\ \A i \in 1..Len(uris) : b[i] = [given |-> TRUE, type |-> "u", info |-> uris[i]]
  <2>2. b = [i \in 1..Len(uris) |-> b[i]]
    BY <1>3 DEF Each
  <2>3. \A i \in 1..Len(uris) : b[i] = [given |-> TRUE, type |-> "u", info |-> uris[i]]
    BY <1>2, <1>3 DEF Each
  <2> HIDE DEF b
  <2> QED
    BY <1>3, <2>2, <2>3, FunctionIsSeq
<1>c. /\ IsSeq(c) /\ Len(c) = Len(files)
      /\ \A i \in 1..Len(files) : c[i] = [given |-> TRUE, type |-> "b", info |-> files[i]]
  <2>2. c = [i \in 1..Len(files) |-> c[i]]
    BY <1>3 DEF Each
  <2>3. \A i \in 1..Len(files) : c[i] = [given |-> TRUE, type |-> "b", info |-> files[i]]
    BY <1>2, <1>3 DEF Each
  <2> HIDE DEF c
  <2> QED
    BY <1>3, <2>2, <2>3, FunctionIsSeq
<1>d. /\ IsSeq(d) /\ Len(d) = 6
      /\ \A i \in 1..6 : d[i] =
           [given |-> Given(cfg, ValueArgs[i].option), setting |-> ValueArgs[i].setting,
            value |-> cfg[ValueArgs[i].option]]
  <2>1. DOMAIN ValueArgs = 1..6
    BY DEF ValueArgs
  <2>2. d = [i \in 1..6 |-> d[i]]
    BY <2>1 DEF Each
  <2>3. \A i \in 1..6 : d[i] =
          [given |-> Given(cfg, ValueArgs[i].option), setting |-> ValueArgs[i].setting,
           value |-> cfg[ValueArgs[i].option]]
    BY <2>1 DEF Each
  <2> HIDE DEF d
  <2> QED
    BY <2>2, <2>3, FunctionIsSeq
<1>e. /\ IsSeq(e) /\ Len(e) = 1
      /\ e[1] = [given |-> On(cfg, "all_interfaces"), flag |-> "alliface"]
  BY SingleIsSeq
<1>f. /\ IsSeq(f) /\ Len(f) = Len(names)
      /\ \A i \in 1..Len(names) : f[i] = [given |-> ~On(cfg, "all_interfaces") /\ Adds(names, i), iface |-> names[i]]
  <2>2. f = [i \in 1..Len(names) |-> f[i]]
    BY <1>3
  <2>3. \A i \in 1..Len(names) : f[i] = [given |-> ~On(cfg, "all_interfaces") /\ Adds(names, i), iface |-> names[i]]
    BY <1>3
  <2> HIDE DEF f
  <2> QED
    BY <1>3, <2>2, <2>3, FunctionIsSeq
<1>g. /\ IsSeq(g) /\ Len(g) = 1
      /\ g[1] = [given |-> Set(cfg, "log_file"), log |-> cfg.log_file]
  BY SingleIsSeq
<1> HIDE DEF a, b, c, d, e, f, g
<1>s. IsSeq(a) /\ IsSeq(b) /\ IsSeq(c) /\ IsSeq(d) /\ IsSeq(e) /\ IsSeq(f) /\ IsSeq(g)
  BY <1>a, <1>b, <1>c, <1>d, <1>e, <1>f, <1>g
<1>4. Laid(argv, a, b, c, d, e, f, g)
  BY <1>1, <1>s, SevenParts, Zenon
<1>l. /\ Len(a) = 8 /\ Len(b) = Len(uris) /\ Len(c) = Len(files) /\ Len(d) = 6 /\ Len(e) = 1
      /\ Len(f) = Len(names) /\ Len(g) = 1
  BY <1>a, <1>b, <1>c, <1>d, <1>e, <1>f, <1>g
<1>5. /\ ValuesAt = 8 + Len(uris) + Len(files) /\ AllAt = 8 + Len(uris) + Len(files) + 6 + 1
      /\ LogAt = 8 + Len(uris) + Len(files) + 6 + 1 + Len(names) + 1
  BY <1>3 DEF ValuesAt, AllAt, LogAt, uris, files, names
<1>6. DOMAIN argv = 1..LogAt /\ argv[AllAt] = e[1] /\ argv[LogAt] = g[1]
  BY <1>3, <1>4, <1>l, <1>5, SeqFacts DEF Laid
<1>7. /\ \A i \in 1..6 : argv[ValuesAt + i] = d[i]
      /\ \A i \in 1..Len(names) : argv[AllAt + i] = f[i]
  BY <1>4, <1>l, <1>5 DEF Laid
<1>8. /\ \A i \in 1..8 : argv[i] = a[i]
      /\ \A i \in 1..Len(uris) : argv[8 + i] = b[i]
      /\ \A i \in 1..Len(files) : argv[8 + Len(uris) + i] = c[i]
  BY <1>4, <1>l DEF Laid
<1>9. /\ argv[AllAt] = [given |-> On(cfg, "all_interfaces"), flag |-> "alliface"]
      /\ argv[LogAt] = [given |-> Set(cfg, "log_file"), log |-> cfg.log_file]
  BY <1>6, <1>e, <1>g
<1>10. /\ \A i \in 1..8 : argv[i] = [given |-> On(cfg, FlagArgs[i].option), flag |-> FlagArgs[i].flag]
       /\ \A i \in 1..Len(uris) : argv[8 + i] = [given |-> TRUE, type |-> "u", info |-> uris[i]]
       /\ \A i \in 1..Len(files) : argv[8 + Len(uris) + i] = [given |-> TRUE, type |-> "b", info |-> files[i]]
  BY <1>8, <1>a, <1>b, <1>c, Zenon
<1>11. \A i \in 1..6 : argv[ValuesAt + i] =
         [given |-> Given(cfg, ValueArgs[i].option), setting |-> ValueArgs[i].setting,
          value |-> cfg[ValueArgs[i].option]]
  BY <1>7, <1>d, Zenon
<1>12. \A i \in 1..Len(names) : argv[AllAt + i] =
         [given |-> ~On(cfg, "all_interfaces") /\ Adds(names, i), iface |-> names[i]]
  BY <1>7, <1>f, Zenon
<1> QED
  BY <1>2, <1>6, <1>9, <1>10, <1>11, <1>12, Zenon DEF Parts, uris, files, names
-----------------------------------------------------------------------------
Done(p) == argv[p].given /\ p <= optind

(* The arguments that set a field of the context, the field and what it is   *)
(* set to.                                                                   *)
CtxAt == (1..8) \cup ((ValuesAt + 1)..AllAt) \cup {LogAt}
FieldAt(p) ==
  IF p <= 8 THEN FlagArgs[p].flag ELSE IF p = AllAt THEN "alliface"
  ELSE IF p = LogAt THEN "logpath" ELSE ValueArgs[p - ValuesAt].setting
ValueAt(p) ==
  IF p <= 8 \/ p = AllAt THEN TRUE ELSE IF p = LogAt THEN cfg.log_file
  ELSE ReadAs(ValueArgs[p - ValuesAt].setting, cfg[ValueArgs[p - ValuesAt].option])

(* What main refuses a section for while it takes the options.               *)
Refuses(setting, value) ==
  \/ setting \in Setting /\ ~Valid(setting, value)
  \/ setting \in Mark /\ value = {}
RefusedAt(p) ==
  \/ p = LogAt /\ cfg.log_file = TooLong
  \/ \E i \in 1..6 :
       /\ p = ValuesAt + i
       /\ Refuses(ValueArgs[i].setting, ReadAs(ValueArgs[i].setting, cfg[ValueArgs[i].option]))

(* What main has read of the line is what it has put into the context and    *)
(* into the arrays.                                                          *)
ReadContext ==
  /\ ~ctx.daemon /\ ~ctx.killproc
  /\ \A p \in CtxAt : ctx[FieldAt(p)] = IF Done(p) THEN ValueAt(p) ELSE Defaults[FieldAt(p)]
  /\ \A p \in CtxAt : Done(p) => ~RefusedAt(p)
ReadPayloads ==
  /\ Array(plinfo)
  /\ plinfo.cnt = IF optind <= 8 THEN 0 ELSE IF optind >= ValuesAt THEN ValuesAt - 8 ELSE optind - 8
  /\ \A i \in 0..(plinfo.cnt - 1) : plinfo.at[i] = [type |-> argv[9 + i].type, info |-> argv[9 + i].info]
ReadInterfaces ==
  /\ Array(iface)
  /\ \A i \in 0..(iface.cnt - 1) :
       \E p \in 1..Len(Named(cfg, devs)) : Done(AllAt + p) /\ iface.at[i] = Named(cfg, devs)[p]
  /\ \A p \in 1..Len(Named(cfg, devs)) :
       Done(AllAt + p) => \E i \in 0..(iface.cnt - 1) : iface.at[i] = Named(cfg, devs)[p]
  /\ \A i, j \in 0..(iface.cnt - 1) : iface.at[i] = iface.at[j] => i = j

LEMMA Positions ==
  ASSUME Parts
  PROVE  /\ Len(Uris(cfg)) \in Nat /\ Len(cfg.payload_file) \in Nat /\ Len(Named(cfg, devs)) \in Nat
         /\ ValuesAt \in Nat /\ ValuesAt >= 8 /\ AllAt = ValuesAt + 7
         /\ LogAt = AllAt + Len(Named(cfg, devs)) + 1
         /\ ValuesAt = 8 + Len(Uris(cfg)) + Len(cfg.payload_file)
<1>1. IsSeq(Uris(cfg)) /\ IsSeq(cfg.payload_file) /\ IsSeq(Named(cfg, devs))
  BY Zenon DEF Parts
<1>2. Len(Uris(cfg)) \in Nat /\ Len(cfg.payload_file) \in Nat /\ Len(Named(cfg, devs)) \in Nat
  BY <1>1, SeqFacts
<1> DEFINE u == Len(Uris(cfg))
           f == Len(cfg.payload_file)
           n == Len(Named(cfg, devs))
<1>3. ValuesAt = 8 + u + f /\ AllAt = ValuesAt + 7 /\ LogAt = AllAt + n + 1
  BY DEF ValuesAt, AllAt, LogAt
<1>4. u \in Nat /\ f \in Nat /\ n \in Nat
  BY <1>2
<1> HIDE DEF u, f, n
<1>5. ValuesAt \in Nat /\ ValuesAt >= 8
  BY <1>3, <1>4
<1> QED
  BY <1>3, <1>4, <1>5 DEF u, f, n

(* No two arguments set the same field, and none is -d or -k.                *)
LEMMA FlagNames ==
  /\ \A i \in 1..8 : FlagArgs[i].flag \in Flag \ {"alliface", "daemon", "killproc"}
  /\ \A i, j \in 1..8 : FlagArgs[i].flag = FlagArgs[j].flag => i = j
<1>1. /\ FlagArgs[1].flag = "inbound" /\ FlagArgs[2].flag = "outbound" /\ FlagArgs[3].flag = "use_ipv4"
      /\ FlagArgs[4].flag = "use_ipv6" /\ FlagArgs[5].flag = "nohopest" /\ FlagArgs[6].flag = "skipfw"
      /\ FlagArgs[7].flag = "use_iptables" /\ FlagArgs[8].flag = "silent"
  BY DEF FlagArgs
<1>2. \A i \in 1..8 : i = 1 \/ i = 2 \/ i = 3 \/ i = 4 \/ i = 5 \/ i = 6 \/ i = 7 \/ i = 8
  OBVIOUS
<1>3. \A i \in 1..8 : FlagArgs[i].flag \in Flag \ {"alliface", "daemon", "killproc"}
  BY <1>1, <1>2 DEF Flag
<1>4. \A i, j \in 1..8 : FlagArgs[i].flag = FlagArgs[j].flag => i = j
  BY <1>1, <1>2
<1> QED
  BY <1>3, <1>4

LEMMA SettingNames ==
  /\ \A i \in 1..6 : ValueArgs[i].setting \in Setting \cup Mark
  /\ \A i, j \in 1..6 : ValueArgs[i].setting = ValueArgs[j].setting => i = j
<1>1. /\ ValueArgs[1].setting = "nfqnum" /\ ValueArgs[2].setting = "fwmark" /\ ValueArgs[3].setting = "fwmask"
      /\ ValueArgs[4].setting = "repeat" /\ ValueArgs[5].setting = "ttl"
      /\ ValueArgs[6].setting = "dynamic_pct"
  BY DEF ValueArgs
<1>2. \A i \in 1..6 : i = 1 \/ i = 2 \/ i = 3 \/ i = 4 \/ i = 5 \/ i = 6
  OBVIOUS
<1>3. \A i \in 1..6 : ValueArgs[i].setting \in Setting \cup Mark
  BY <1>1, <1>2 DEF Setting, Mark
<1>4. \A i, j \in 1..6 : ValueArgs[i].setting = ValueArgs[j].setting => i = j
  BY <1>1, <1>2
<1> QED
  BY <1>3, <1>4

(* The places of the context's arguments, one kind at a time.                *)
LEMMA CtxPlaces ==
  ASSUME Parts
  PROVE  /\ \A p \in 1..8 : p \in CtxAt /\ FieldAt(p) = FlagArgs[p].flag /\ ValueAt(p) = TRUE
         /\ \A i \in 1..6 : /\ ValuesAt + i \in CtxAt /\ FieldAt(ValuesAt + i) = ValueArgs[i].setting
                            /\ ValueAt(ValuesAt + i) = ReadAs(ValueArgs[i].setting, cfg[ValueArgs[i].option])
         /\ AllAt \in CtxAt /\ FieldAt(AllAt) = "alliface" /\ ValueAt(AllAt) = TRUE
         /\ LogAt \in CtxAt /\ FieldAt(LogAt) = "logpath" /\ ValueAt(LogAt) = cfg.log_file
         /\ \A p \in CtxAt : p \in 1..8 \/ p = AllAt \/ p = LogAt \/ \E i \in 1..6 : p = ValuesAt + i
<1>1. /\ ValuesAt \in Nat /\ ValuesAt >= 8 /\ AllAt \in Nat /\ LogAt \in Nat
      /\ AllAt = ValuesAt + 7 /\ LogAt > AllAt
  <2> DEFINE names == Len(Named(cfg, devs))
  <2>1. ValuesAt \in Nat /\ ValuesAt >= 8 /\ names \in Nat /\ AllAt = ValuesAt + 7 /\ LogAt = AllAt + names + 1
    BY Positions
  <2> HIDE DEF names
  <2> QED
    BY <2>1
<1>2. \A p \in 1..8 : p \in CtxAt /\ FieldAt(p) = FlagArgs[p].flag /\ ValueAt(p) = TRUE
  BY <1>1 DEF CtxAt, FieldAt, ValueAt
<1>3. ASSUME NEW i \in 1..6
      PROVE  /\ ValuesAt + i \in CtxAt /\ FieldAt(ValuesAt + i) = ValueArgs[i].setting
             /\ ValueAt(ValuesAt + i) = ReadAs(ValueArgs[i].setting, cfg[ValueArgs[i].option])
  <2>1. (ValuesAt + i) - ValuesAt = i /\ ValuesAt + i > 8 /\ ValuesAt + i # AllAt /\ ValuesAt + i # LogAt
    BY <1>1
  <2>2. ValuesAt + i \in CtxAt
    BY <1>1 DEF CtxAt
  <2>3. ~ (ValuesAt + i <= 8)
    BY <1>1
  <2> DEFINE p == ValuesAt + i
  <2>4. p # AllAt /\ p # LogAt /\ ~ (p <= 8) /\ p - ValuesAt = i
    BY <2>1, <2>3
  <2> HIDE DEF p
  <2>5. FieldAt(p) = ValueArgs[i].setting
    BY <2>4 DEF FieldAt
  <2>6. ValueAt(p) = ReadAs(ValueArgs[i].setting, cfg[ValueArgs[i].option])
    BY <2>4 DEF ValueAt
  <2> QED
    BY <2>2, <2>5, <2>6 DEF p
<1>4. AllAt \in CtxAt /\ FieldAt(AllAt) = "alliface" /\ ValueAt(AllAt) = TRUE
  BY <1>1 DEF CtxAt, FieldAt, ValueAt
<1>5. LogAt \in CtxAt /\ FieldAt(LogAt) = "logpath" /\ ValueAt(LogAt) = cfg.log_file
  <2>1. ~ (LogAt <= 8) /\ LogAt # AllAt
    BY <1>1
  <2> QED
    BY <2>1, Zenon DEF CtxAt, FieldAt, ValueAt
<1>6. ASSUME NEW p \in CtxAt
      PROVE  p \in 1..8 \/ p = AllAt \/ p = LogAt \/ \E i \in 1..6 : p = ValuesAt + i
  <2>1. CASE p \in (ValuesAt + 1)..AllAt /\ p # AllAt
    <3>1. p - ValuesAt \in 1..6 /\ p = ValuesAt + (p - ValuesAt)
      BY <1>1, <2>1
    <3> QED
      BY <3>1
  <2> QED
    BY <2>1 DEF CtxAt
<1> QED
  BY <1>2, <1>3, <1>4, <1>5, <1>6

LEMMA FieldsDiffer ==
  ASSUME Parts
  PROVE  /\ \A p \in CtxAt : FieldAt(p) \in Field /\ FieldAt(p) \notin {"daemon", "killproc"}
         /\ \A p, q \in CtxAt : FieldAt(p) = FieldAt(q) => p = q
<1>1. /\ \A i \in 1..8 : FlagArgs[i].flag \notin {"alliface", "logpath"} \cup Setting \cup Mark
      /\ \A i \in 1..6 : ValueArgs[i].setting \notin {"alliface", "logpath"}
  <2>1. Flag \cap ({"logpath"} \cup Setting \cup Mark) = {} /\ (Setting \cup Mark) \cap {"alliface", "logpath"} = {}
    BY DEF Flag, Setting, Mark
  <2> QED
    BY <2>1, FlagNames, SettingNames
<1>2. \A p \in CtxAt : FieldAt(p) \in Field /\ FieldAt(p) \notin {"daemon", "killproc"}
  <2>1. {"daemon", "killproc"} \cap ({"alliface", "logpath"} \cup Setting \cup Mark) = {} /\ "alliface" \in Flag
    BY DEF Flag, Setting, Mark
  <2> QED
    BY <2>1, CtxPlaces, FlagNames, SettingNames DEF Field
<1>3. ASSUME NEW p \in CtxAt, NEW q \in CtxAt, FieldAt(p) = FieldAt(q) PROVE p = q
  <2>1. CASE p \in 1..8
    <3>1. FieldAt(p) \in {FlagArgs[i].flag : i \in 1..8}
      BY <2>1, CtxPlaces
    <3>2. q \in 1..8
      BY <1>1, <1>3, <3>1, CtxPlaces, SettingNames
    <3> QED
      BY <1>3, <2>1, <3>2, CtxPlaces, FlagNames
  <2>2. CASE \E i \in 1..6 : p = ValuesAt + i
    <3>1. PICK i \in 1..6 : p = ValuesAt + i
      BY <2>2
    <3>2. FieldAt(p) = ValueArgs[i].setting
      BY <3>1, CtxPlaces
    <3>3. \E j \in 1..6 : q = ValuesAt + j
      <4>1. q \notin 1..8
        <5>1. FieldAt(q) \in Setting \cup Mark
          BY <1>3, <3>2, SettingNames
        <5> QED
          BY <1>1, <5>1, CtxPlaces
      <4>2. q # AllAt /\ q # LogAt
        BY <1>1, <1>3, <3>2, CtxPlaces
      <4> QED
        BY <4>1, <4>2, CtxPlaces
    <3>4. PICK j \in 1..6 : q = ValuesAt + j
      BY <3>3
    <3>5. ValueArgs[i].setting = ValueArgs[j].setting
      BY <1>3, <3>2, <3>4, CtxPlaces
    <3> QED
      BY <3>1, <3>4, <3>5, SettingNames
  <2>3. CASE p = AllAt
    <3>1. FieldAt(q) = "alliface"
      BY <1>3, <2>3, CtxPlaces
    <3>2. q \notin 1..8 /\ q # LogAt
      BY <1>1, <3>1, CtxPlaces
    <3>3. ~ \E j \in 1..6 : q = ValuesAt + j
      BY <1>1, <3>1, CtxPlaces
    <3> QED
      BY <2>3, <3>2, <3>3, CtxPlaces
  <2>4. CASE p = LogAt
    <3>1. FieldAt(q) = "logpath"
      BY <1>3, <2>4, CtxPlaces
    <3>2. q \notin 1..8 /\ q # AllAt
      BY <1>1, <3>1, CtxPlaces
    <3>3. ~ \E j \in 1..6 : q = ValuesAt + j
      BY <1>1, <3>1, CtxPlaces
    <3> QED
      BY <2>4, <3>2, <3>3, CtxPlaces
  <2> QED
    BY <2>1, <2>2, <2>3, <2>4, CtxPlaces
<1> QED
  BY <1>2, <1>3
-----------------------------------------------------------------------------
(* main comes to the argument at k.                                          *)
Reading(k) == k \in DOMAIN argv /\ NextIs(k) /\ optind' = k /\ UNCHANGED <<cfg, devs, argv>>

LEMMA Unmoved ==
  ASSUME UNCHANGED <<cfg, devs>>
  PROVE  /\ ValuesAt' = ValuesAt /\ AllAt' = AllAt /\ LogAt' = LogAt /\ CtxAt' = CtxAt
         /\ Named(cfg, devs)' = Named(cfg, devs) /\ Uris(cfg)' = Uris(cfg)
         /\ \A p : FieldAt(p)' = FieldAt(p) /\ ValueAt(p)' = ValueAt(p) /\ RefusedAt(p)' = RefusedAt(p)
<1>1. Named(cfg, devs)' = Named(cfg, devs) /\ Uris(cfg)' = Uris(cfg)
  OBVIOUS
<1>2. ValuesAt' = ValuesAt /\ AllAt' = AllAt /\ LogAt' = LogAt
  BY <1>1 DEF ValuesAt, AllAt, LogAt
<1>3. CtxAt' = CtxAt
  BY <1>2 DEF CtxAt
<1>4. \A p : FieldAt(p)' = FieldAt(p) /\ ValueAt(p)' = ValueAt(p) /\ RefusedAt(p)' = RefusedAt(p)
  BY <1>2 DEF FieldAt, ValueAt, RefusedAt
<1> QED
  BY <1>1, <1>2, <1>3, <1>4

LEMMA NextDone ==
  ASSUME Parts, optind \in Nat, NEW k, Reading(k)
  PROVE  /\ \A p \in DOMAIN argv : Done(p)' <=> Done(p) \/ p = k
         /\ \A p \in DOMAIN argv : argv[p].given /\ p <= optind' <=> Done(p) \/ p = k
         /\ k \in Nat /\ optind < k /\ k >= 1 /\ k <= LogAt /\ argv[k].given /\ ~Done(k)
         /\ \A p \in DOMAIN argv : optind < p /\ p < k => ~argv[p].given
<1>1. DOMAIN argv = 1..LogAt /\ LogAt \in Nat
  <2>1. DOMAIN argv = 1..LogAt
    BY Zenon DEF Parts
  <2> DEFINE n == Len(Named(cfg, devs))
  <2>2. n \in Nat /\ ValuesAt \in Nat /\ AllAt = ValuesAt + 7 /\ LogAt = AllAt + n + 1
    BY Positions
  <2> HIDE DEF n
  <2> QED
    BY <2>1, <2>2
<1>2. /\ k \in DOMAIN argv /\ argv[k].given /\ k > optind /\ optind' = k /\ argv' = argv
      /\ \A j \in (optind + 1)..(k - 1) : ~argv[j].given
  BY DEF Reading, NextIs
<1>3. ASSUME NEW p \in DOMAIN argv, optind < p, p < k PROVE ~argv[p].given
  BY <1>1, <1>2, <1>3
<1>4. \A p \in DOMAIN argv : p <= k <=> p <= optind \/ p = k \/ (optind < p /\ p < k)
  BY <1>1, <1>2
<1>5. /\ \A p \in DOMAIN argv : Done(p)' <=> Done(p) \/ p = k
      /\ \A p \in DOMAIN argv : argv[p].given /\ p <= optind' <=> Done(p) \/ p = k
  BY <1>2, <1>3, <1>4 DEF Done
<1> QED
  BY <1>1, <1>2, <1>3, <1>5 DEF Done

(* What is where, by the kind of argument.                                   *)
LEMMA LinePlaces ==
  ASSUME Parts
  PROVE  /\ \A k \in DOMAIN argv :
              \/ k \in 1..8 \/ k \in 9..ValuesAt \/ k = AllAt \/ k = LogAt
              \/ \E i \in 1..6 : k = ValuesAt + i
              \/ \E p \in 1..Len(Named(cfg, devs)) : k = AllAt + p
         /\ CtxAt \subseteq DOMAIN argv /\ 9..ValuesAt \subseteq DOMAIN argv
         /\ CtxAt \cap (9..ValuesAt) = {}
         /\ \A p \in 1..Len(Named(cfg, devs)) : AllAt + p \in DOMAIN argv \ (CtxAt \cup 9..ValuesAt)
<1> DEFINE n == Len(Named(cfg, devs))
<1>1. DOMAIN argv = 1..LogAt
  BY Zenon DEF Parts
<1>2. n \in Nat /\ ValuesAt \in Nat /\ ValuesAt >= 8 /\ AllAt = ValuesAt + 7 /\ LogAt = AllAt + n + 1
  BY Positions
<1> HIDE DEF n
<1>3. ASSUME NEW k \in DOMAIN argv
      PROVE  \/ k \in 1..8 \/ k \in 9..ValuesAt \/ k = AllAt \/ k = LogAt
             \/ \E i \in 1..6 : k = ValuesAt + i
             \/ \E p \in 1..n : k = AllAt + p
  <2>1. CASE k \in (ValuesAt + 1)..(ValuesAt + 6)
    <3>1. k - ValuesAt \in 1..6 /\ k = ValuesAt + (k - ValuesAt)
      BY <1>2, <2>1
    <3> QED
      BY <3>1
  <2>2. CASE k \in (AllAt + 1)..(AllAt + n)
    <3>1. k - AllAt \in 1..n /\ k = AllAt + (k - AllAt)
      BY <1>2, <2>2
    <3> QED
      BY <3>1
  <2>3. \/ k \in 1..8 \/ k \in 9..ValuesAt \/ k = AllAt \/ k = LogAt
        \/ k \in (ValuesAt + 1)..(ValuesAt + 6) \/ k \in (AllAt + 1)..(AllAt + n)
    BY <1>1, <1>2
  <2> QED
    BY <2>1, <2>2, <2>3
<1>4. CtxAt \subseteq DOMAIN argv /\ 9..ValuesAt \subseteq DOMAIN argv /\ CtxAt \cap (9..ValuesAt) = {}
  BY <1>1, <1>2 DEF CtxAt
<1>5. \A p \in 1..n : AllAt + p \in DOMAIN argv \ (CtxAt \cup 9..ValuesAt)
  BY <1>1, <1>2 DEF CtxAt
<1> QED
  BY <1>3, <1>4, <1>5 DEF n

LEMMA PayloadPlaces ==
  ASSUME Parts
  PROVE  \A k \in 9..ValuesAt :
           /\ DOMAIN argv[k] = {"given", "type", "info"}
           /\ argv[k].given /\ argv[k].info # Empty
<1> SUFFICES ASSUME NEW k \in 9..ValuesAt
             PROVE  /\ DOMAIN argv[k] = {"given", "type", "info"}
                    /\ argv[k].given /\ argv[k].info # Empty
  OBVIOUS
<1> DEFINE u == Len(Uris(cfg))
           f == Len(cfg.payload_file)
<1>1. u \in Nat /\ f \in Nat /\ ValuesAt = 8 + u + f
  BY Positions
<1>2. /\ \A i \in 1..u : argv[8 + i] = [given |-> TRUE, type |-> "u", info |-> Uris(cfg)[i]] /\ Uris(cfg)[i] # Empty
      /\ \A i \in 1..f : argv[8 + u + i] = [given |-> TRUE, type |-> "b", info |-> cfg.payload_file[i]]
                         /\ cfg.payload_file[i] # Empty
  BY Zenon DEF Parts
<1> HIDE DEF u, f
<1>3. CASE k \in 9..(8 + u)
  <2>1. k - 8 \in 1..u /\ 8 + (k - 8) = k
    BY <1>1, <1>3
  <2>2. argv[k] = [given |-> TRUE, type |-> "u", info |-> Uris(cfg)[k - 8]] /\ Uris(cfg)[k - 8] # Empty
    BY <1>2, <2>1
  <2> QED
    BY <2>2
<1>4. CASE k \in (9 + u)..ValuesAt
  <2>1. k - (8 + u) \in 1..f /\ 8 + u + (k - (8 + u)) = k
    BY <1>1, <1>4
  <2>2. /\ argv[k] = [given |-> TRUE, type |-> "b", info |-> cfg.payload_file[k - (8 + u)]]
        /\ cfg.payload_file[k - (8 + u)] # Empty
    BY <1>2, <2>1
  <2> QED
    BY <2>2
<1> QED
  BY <1>1, <1>3, <1>4
-----------------------------------------------------------------------------
(* A flag, a value or the log goes into the context, or ends main.           *)
ReadsContext(k) ==
  /\ k \in CtxAt /\ UNCHANGED <<plinfo, iface>>
  /\ \/ ~RefusedAt(k) /\ UNCHANGED pc /\ ctx' = [ctx EXCEPT ![FieldAt(k)] = ValueAt(k)]
     \/ RefusedAt(k) /\ pc' = "free"
ReadsPayload(k) ==
  /\ k \in 9..ValuesAt /\ UNCHANGED <<pc, ctx, iface>>
  /\ plinfo' = Put(Counted(plinfo), [type |-> argv[k].type, info |-> argv[k].info])
ReadsInterface(k, p) ==
  /\ p \in 1..Len(Named(cfg, devs)) /\ k = AllAt + p /\ Adds(Named(cfg, devs), p)
  /\ UNCHANGED <<pc, ctx, plinfo>>
  /\ iface' = Put(Counted(iface), Named(cfg, devs)[p])

LEMMA FlagIsRead ==
  ASSUME Parts, NEW k, k \in 1..8 \/ k = AllAt, ReadsArgument(argv[k])
  PROVE  ReadsContext(k)
<1>1. DOMAIN argv[k] = {"given", "flag"} /\ argv[k].flag = FieldAt(k) /\ k \in CtxAt /\ ValueAt(k) = TRUE
  <2>1. CASE k \in 1..8
    <3>1. argv[k] = [given |-> On(cfg, FlagArgs[k].option), flag |-> FlagArgs[k].flag]
      BY <2>1, Zenon DEF Parts
    <3>2. DOMAIN argv[k] = {"given", "flag"} /\ argv[k].flag = FlagArgs[k].flag
      BY <3>1
    <3>3. k \in CtxAt /\ FieldAt(k) = FlagArgs[k].flag /\ ValueAt(k) = TRUE
      BY <2>1, CtxPlaces
    <3> QED
      BY <3>2, <3>3
  <2>2. CASE k = AllAt
    <3>1. argv[AllAt] = [given |-> On(cfg, "all_interfaces"), flag |-> "alliface"]
      BY Zenon DEF Parts
    <3> QED
      BY <2>2, <3>1, CtxPlaces
  <2> QED
    BY <2>1, <2>2
<1>2. SetFlag(argv[k].flag)
  BY <1>1 DEF ReadsArgument
<1>3. UNCHANGED <<pc, plinfo, iface>> /\ ctx' = [ctx EXCEPT ![FieldAt(k)] = ValueAt(k)]
  BY <1>1, <1>2 DEF SetFlag, Stay
<1>4. ~RefusedAt(k)
  <2> DEFINE n == Len(Named(cfg, devs))
  <2>1. n \in Nat /\ ValuesAt \in Nat /\ ValuesAt >= 8 /\ AllAt = ValuesAt + 7 /\ LogAt = AllAt + n + 1
    BY Positions
  <2> HIDE DEF n
  <2>2. k # LogAt /\ \A i \in 1..6 : k # ValuesAt + i
    BY <2>1
  <2> QED
    BY <2>2 DEF RefusedAt
<1> QED
  BY <1>1, <1>3, <1>4 DEF ReadsContext

LEMMA ValueIsRead ==
  ASSUME Parts, NEW i \in 1..6, ReadsArgument(argv[ValuesAt + i])
  PROVE  ReadsContext(ValuesAt + i)
<1> DEFINE k == ValuesAt + i
           s == ValueArgs[i].setting
           t == cfg[ValueArgs[i].option]
           v == ReadAs(s, t)
<1>1. argv[k] = [given |-> Given(cfg, ValueArgs[i].option), setting |-> s, value |-> t]
  BY Zenon DEF Parts
<1>2. k \in CtxAt /\ FieldAt(k) = s /\ ValueAt(k) = v
  BY CtxPlaces
<1>3. s \in Setting \cup Mark /\ Setting \cap Mark = {}
  BY SettingNames DEF Setting, Mark
<1>4. RefusedAt(k) <=> Refuses(s, v)
  <2> DEFINE n == Len(Named(cfg, devs))
  <2>1. n \in Nat /\ ValuesAt \in Nat /\ AllAt = ValuesAt + 7 /\ LogAt = AllAt + n + 1
    BY Positions
  <2> HIDE DEF n
  <2>2. k # LogAt /\ \A j \in 1..6 : k = ValuesAt + j <=> j = i
    BY <2>1
  <2> HIDE DEF k
  <2> QED
    BY <2>2 DEF RefusedAt
<1>5. \/ s \in Setting /\ SetNumber(s, v)
      \/ s \in Mark /\ SetMark(s, v)
  <2>1. DOMAIN argv[k] = {"given", "setting", "value"} /\ argv[k].setting = s /\ argv[k].value = t
    BY <1>1
  <2>2. ReadsArgument(argv[k])
    OBVIOUS
  <2> HIDE DEF k, s, t
  <2> QED
    BY <2>1, <2>2 DEF ReadsArgument
<1> HIDE DEF k, s, t, v
<1>6. ASSUME s \in Setting, SetNumber(s, v) PROVE ReadsContext(k)
  BY <1>2, <1>3, <1>4, <1>6 DEF SetNumber, Refuses, Fail, Stay, ReadsContext
<1>7. ASSUME s \in Mark, SetMark(s, v) PROVE ReadsContext(k)
  BY <1>2, <1>3, <1>4, <1>7 DEF SetMark, Refuses, Fail, Stay, ReadsContext
<1>8. ReadsContext(k)
  BY <1>5, <1>6, <1>7
<1> QED
  BY <1>8 DEF k

LEMMA LogIsRead == ASSUME Parts, ReadsArgument(argv[LogAt]) PROVE ReadsContext(LogAt)
<1>1. argv[LogAt] = [given |-> Set(cfg, "log_file"), log |-> cfg.log_file]
  BY Zenon DEF Parts
<1>2. LogAt \in CtxAt /\ FieldAt(LogAt) = "logpath" /\ ValueAt(LogAt) = cfg.log_file
  BY CtxPlaces
<1>3. RefusedAt(LogAt) <=> cfg.log_file = TooLong
  <2> DEFINE n == Len(Named(cfg, devs))
  <2>1. n \in Nat /\ ValuesAt \in Nat /\ AllAt = ValuesAt + 7 /\ LogAt = AllAt + n + 1
    BY Positions
  <2> HIDE DEF n
  <2>2. \A j \in 1..6 : LogAt # ValuesAt + j
    BY <2>1
  <2> QED
    BY <2>2 DEF RefusedAt
<1>4. SetLog(cfg.log_file)
  <2>1. DOMAIN argv[LogAt] = {"given", "log"} /\ argv[LogAt].log = cfg.log_file
    BY <1>1
  <2> QED
    BY <2>1 DEF ReadsArgument
<1> QED
  BY <1>2, <1>3, <1>4 DEF SetLog, Fail, Stay, ReadsContext

LEMMA PayloadIsRead ==
  ASSUME Parts, NEW k \in 9..ValuesAt, ReadsArgument(argv[k])
  PROVE  ReadsPayload(k)
<1>1. DOMAIN argv[k] = {"given", "type", "info"} /\ argv[k].info # Empty
  BY PayloadPlaces
<1>2. AddPayload(argv[k].type, argv[k].info)
  BY <1>1 DEF ReadsArgument
<1> QED
  BY <1>1, <1>2 DEF AddPayload, Stay, ReadsPayload

LEMMA InterfaceIsRead ==
  ASSUME Parts, NEW p \in 1..Len(Named(cfg, devs)), argv[AllAt + p].given, ReadsArgument(argv[AllAt + p])
  PROVE  ReadsInterface(AllAt + p, p)
<1> DEFINE names == Named(cfg, devs)
           a == argv[AllAt + p]
<1>1. a = [given |-> ~On(cfg, "all_interfaces") /\ Adds(names, p), iface |-> names[p]]
  BY Zenon DEF Parts
<1>2. DOMAIN a = {"given", "iface"} /\ a.iface = names[p] /\ Adds(names, p)
  <2> DEFINE given == ~On(cfg, "all_interfaces") /\ Adds(names, p)
  <2>1. a = [given |-> given, iface |-> names[p]]
    BY <1>1
  <2>2. a.given
    OBVIOUS
  <2> HIDE DEF a, given
  <2>3. a.given = given /\ DOMAIN a = {"given", "iface"} /\ a.iface = names[p]
    BY <2>1
  <2>4. given
    BY <2>2, <2>3, Zenon
  <2> QED
    BY <2>3, <2>4 DEF given
<1>3. names[p] \notin {Empty, TooLong}
  BY <1>2, BadAssumption DEF Adds
<1>4. AddInterface(names[p])
  <2>1. ReadsArgument(a)
    OBVIOUS
  <2> HIDE DEF a
  <2> QED
    BY <1>2, <2>1 DEF ReadsArgument
<1> QED
  BY <1>2, <1>3, <1>4 DEF AddInterface, Stay, ReadsInterface

LEMMA KindsRead ==
  ASSUME Parts, NEW k \in DOMAIN argv, argv[k].given, ReadsArgument(argv[k])
  PROVE  /\ pc = "options"
         /\ ReadsContext(k) \/ ReadsPayload(k) \/ \E p \in 1..Len(Named(cfg, devs)) : ReadsInterface(k, p)
<1>1. pc = "options"
  BY DEF ReadsArgument, SetFlag, AddPayload, SetNumber, SetMark, AddInterface, SetLog, Option
<1>2. \/ k \in 1..8 \/ k \in 9..ValuesAt \/ k = AllAt \/ k = LogAt
      \/ \E i \in 1..6 : k = ValuesAt + i
      \/ \E p \in 1..Len(Named(cfg, devs)) : k = AllAt + p
  BY LinePlaces, Zenon
<1>3. ASSUME k \in 1..8 \/ k = AllAt PROVE ReadsContext(k)
  BY <1>3, FlagIsRead
<1>4. ASSUME k \in 9..ValuesAt PROVE ReadsPayload(k)
  BY <1>4, PayloadIsRead
<1>5. ASSUME k = LogAt PROVE ReadsContext(k)
  BY <1>5, LogIsRead
<1>6. ASSUME NEW i \in 1..6, k = ValuesAt + i PROVE ReadsContext(k)
  BY <1>6, ValueIsRead
<1>7. ASSUME NEW p \in 1..Len(Named(cfg, devs)), k = AllAt + p PROVE ReadsInterface(k, p)
  BY <1>7, InterfaceIsRead
<1> QED
  BY <1>1, <1>2, <1>3, <1>4, <1>5, <1>6, <1>7
-----------------------------------------------------------------------------
LEMMA ContextRead ==
  ASSUME Parts, optind \in Nat, Context, ReadContext, NEW k, Reading(k), k \in CtxAt, ~RefusedAt(k),
         ctx' = [ctx EXCEPT ![FieldAt(k)] = ValueAt(k)]
  PROVE  Context' /\ ReadContext'
<1> DEFINE f == FieldAt(k)
<1>1. f \in Field \ {"daemon", "killproc"} /\ {"daemon", "killproc"} \subseteq Field
  BY FieldsDiffer DEF Field, Flag
<1>2. Context' /\ ctx'[f] = ValueAt(k) /\ \A g \in Field : g # f => ctx'[g] = ctx[g]
  BY <1>1, CtxExcept
<1>3. UNCHANGED <<cfg, devs>>
  BY DEF Reading
<1>4. CtxAt' = CtxAt /\ \A p : FieldAt(p)' = FieldAt(p) /\ ValueAt(p)' = ValueAt(p) /\ RefusedAt(p)' = RefusedAt(p)
  BY <1>3, Unmoved
<1>5. /\ \A p \in CtxAt : Done(p)' <=> Done(p) \/ p = k
      /\ ~Done(k)
  BY NextDone, LinePlaces
<1> HIDE DEF f
<1>6. ASSUME NEW p \in CtxAt
      PROVE  /\ ctx'[FieldAt(p)] = IF Done(p)' THEN ValueAt(p) ELSE Defaults[FieldAt(p)]
             /\ Done(p)' => ~RefusedAt(p)
  <2>1. CASE p = k
    BY <1>2, <1>5, <2>1 DEF f
  <2>2. CASE p # k
    <3>1. FieldAt(p) \in Field /\ FieldAt(p) # f /\ (Done(p)' <=> Done(p))
      BY <1>5, <2>2, FieldsDiffer DEF f
    <3>2. ctx'[FieldAt(p)] = ctx[FieldAt(p)]
      BY <1>2, <3>1
    <3> QED
      BY <3>1, <3>2 DEF ReadContext
  <2> QED
    BY <2>1, <2>2
<1>7. ctx'["daemon"] = ctx["daemon"] /\ ctx'["killproc"] = ctx["killproc"]
  BY <1>1, <1>2
<1>8. ReadContext'
  BY <1>4, <1>6, <1>7 DEF ReadContext
<1> QED
  BY <1>2, <1>8

LEMMA ContextKept ==
  ASSUME Parts, optind \in Nat, Context, ReadContext, NEW k, Reading(k), k \notin CtxAt, UNCHANGED ctx
  PROVE  Context' /\ ReadContext'
<1>1. UNCHANGED <<cfg, devs>>
  BY DEF Reading
<1>2. CtxAt' = CtxAt /\ \A p : FieldAt(p)' = FieldAt(p) /\ ValueAt(p)' = ValueAt(p) /\ RefusedAt(p)' = RefusedAt(p)
  BY <1>1, Unmoved
<1>3. \A p \in CtxAt : Done(p)' <=> Done(p)
  BY NextDone, LinePlaces
<1> QED
  BY <1>2, <1>3 DEF Context, ReadContext

(* Every URI and file is given, so main has come to the payload in front.    *)
LEMMA PayloadRead ==
  ASSUME Parts, optind \in Nat, Roomy(plinfo), ReadPayloads, NEW k, Reading(k), ReadsPayload(k)
  PROVE  ReadPayloads' /\ Roomy(plinfo)'
<1> DEFINE x == [type |-> argv[k].type, info |-> argv[k].info]
           b == Put(Counted(plinfo), x)
           values == ValuesAt
<1>1. /\ k \in 9..values /\ plinfo' = b /\ optind' = k /\ UNCHANGED <<cfg, devs, argv>>
      /\ Array(plinfo) /\ plinfo.cnt \in Nat
  BY ArrayEnded DEF Reading, ReadsPayload, ReadPayloads
<1>2. values \in Nat /\ values' = values
  BY <1>1, Positions, Unmoved
<1>3. optind < k /\ \A p \in 9..values : ~(optind < p /\ p < k)
  BY NextDone, LinePlaces, PayloadPlaces
<1>4. /\ Array(b) /\ Roomy(b) /\ b.cnt = plinfo.cnt + 1
      /\ \A i \in 0..(b.cnt - 1) : b.at[i] = IF i = plinfo.cnt THEN x ELSE plinfo.at[i]
  BY <1>1, AddedKeeps
<1> HIDE DEF values
<1>5. plinfo.cnt = k - 9
  <2>1. CASE k = 9
    BY <1>3, <2>1 DEF ReadPayloads
  <2>2. CASE k # 9
    <3>1. k - 1 \in 9..values /\ k - 1 < k
      BY <1>1, <1>2, <2>2
    <3>2. ~(optind < k - 1)
      BY <1>3, <3>1
    <3>3. optind = k - 1
      BY <1>1, <1>2, <1>3, <3>2
    <3>4. plinfo.cnt = IF optind <= 8 THEN 0 ELSE IF optind >= values THEN values - 8 ELSE optind - 8
      BY DEF ReadPayloads, values
    <3> QED
      BY <1>1, <1>2, <2>2, <3>3, <3>4
  <2> QED
    BY <2>1, <2>2
<1> HIDE DEF b, x
<1>6. b.cnt = k - 8
  BY <1>1, <1>2, <1>4, <1>5
<1>7. b.cnt = IF k <= 8 THEN 0 ELSE IF k >= values THEN values - 8 ELSE k - 8
  BY <1>1, <1>2, <1>6
<1>8. ASSUME NEW i \in 0..(b.cnt - 1)
      PROVE  b.at[i] = [type |-> argv[9 + i].type, info |-> argv[9 + i].info]
  <2>1. CASE i = plinfo.cnt
    <3>1. 9 + i = k
      BY <1>1, <1>2, <1>5, <2>1
    <3> QED
      BY <1>4, <2>1, <3>1 DEF x
  <2>2. CASE i # plinfo.cnt
    <3>1. i \in 0..(plinfo.cnt - 1)
      BY <1>1, <1>4, <2>2
    <3> QED
      BY <1>4, <2>2, <3>1 DEF ReadPayloads
  <2> QED
    BY <2>1, <2>2
<1>9. plinfo' = b /\ optind' = k /\ argv' = argv /\ ValuesAt' = values
  BY <1>1, <1>2 DEF values
<1>10. /\ Array(plinfo)'
       /\ plinfo.cnt' = IF optind' <= 8 THEN 0 ELSE IF optind' >= ValuesAt' THEN ValuesAt' - 8 ELSE optind' - 8
       /\ \A i \in 0..(plinfo.cnt' - 1) : plinfo'.at[i] = [type |-> argv'[9 + i].type, info |-> argv'[9 + i].info]
       /\ Roomy(plinfo)'
  BY <1>4, <1>7, <1>8, <1>9 DEF Array, Roomy
<1> QED
  BY <1>10 DEF ReadPayloads

(* An argument that is none of them is in front of all of them or behind.    *)
LEMMA PayloadsKept ==
  ASSUME Parts, optind \in Nat, ReadPayloads, NEW k, Reading(k), k \notin 9..ValuesAt, UNCHANGED plinfo
  PROVE  ReadPayloads'
<1> DEFINE values == ValuesAt
<1>1. optind' = k /\ UNCHANGED <<cfg, devs, argv>>
  BY DEF Reading
<1>2. values \in Nat /\ values >= 8 /\ values' = values
  BY <1>1, Positions, Unmoved
<1>3. k \in Nat /\ optind < k /\ \A p \in 9..values : ~(optind < p /\ p < k)
  BY NextDone, LinePlaces, PayloadPlaces
<1>4. plinfo.cnt = IF optind <= 8 THEN 0 ELSE IF optind >= values THEN values - 8 ELSE optind - 8
  BY DEF ReadPayloads
<1>k. k \notin 9..values
  OBVIOUS
<1> HIDE DEF values
<1>5. plinfo.cnt = IF k <= 8 THEN 0 ELSE IF k >= values THEN values - 8 ELSE k - 8
  <2>1. CASE k <= 8
    BY <1>2, <1>3, <1>4, <2>1
  <2>2. CASE k > values
    <3>1. values >= 9 => ~(optind < values)
      <4>1. values >= 9 => values \in 9..values /\ values < k
        BY <1>2, <2>2
      <4> QED
        BY <1>3, <4>1
    <3> QED
      BY <1>2, <1>3, <1>4, <2>2, <3>1
  <2> QED
    BY <1>2, <1>3, <1>k, <2>1, <2>2
<1>6. plinfo' = plinfo /\ optind' = k /\ argv' = argv /\ ValuesAt' = values
  BY <1>1, <1>2 DEF values
<1>7. /\ Array(plinfo)'
      /\ plinfo.cnt' = IF optind' <= 8 THEN 0 ELSE IF optind' >= ValuesAt' THEN ValuesAt' - 8 ELSE optind' - 8
      /\ \A i \in 0..(plinfo.cnt' - 1) : plinfo'.at[i] = [type |-> argv'[9 + i].type, info |-> argv'[9 + i].info]
  BY <1>5, <1>6 DEF ReadPayloads, Array
<1> QED
  BY <1>7 DEF ReadPayloads

(* A name is added if it is none of those before it.                         *)
LEMMA InterfaceRead ==
  ASSUME Parts, optind \in Nat, Roomy(iface), ReadInterfaces, NEW k, Reading(k), NEW p, ReadsInterface(k, p)
  PROVE  ReadInterfaces' /\ Roomy(iface)'
<1> DEFINE names == Named(cfg, devs)
           all == AllAt
           x == names[p]
           b == Put(Counted(iface), x)
<1>1. /\ p \in 1..Len(names) /\ k = all + p /\ iface' = b /\ UNCHANGED <<cfg, devs, argv>>
      /\ \A j \in 1..(p - 1) : names[j] # x
      /\ Array(iface) /\ iface.cnt \in Nat
  BY ArrayEnded DEF Reading, ReadsInterface, ReadInterfaces, Adds
<1>2. all \in Nat /\ Len(names) \in Nat /\ all' = all /\ names' = names
  <2>1. ValuesAt \in Nat /\ AllAt = ValuesAt + 7
    BY Positions
  <2>2. all \in Nat
    BY <2>1
  <2> QED
    BY <1>1, <2>2, Positions, Unmoved
<1>3. /\ \A q \in 1..Len(names) : argv[all + q].given /\ all + q <= optind' <=> Done(all + q) \/ all + q = k
      /\ optind < k
  BY NextDone, LinePlaces
<1>4. /\ Array(b) /\ Roomy(b) /\ b.cnt = iface.cnt + 1
      /\ \A i \in 0..(b.cnt - 1) : b.at[i] = IF i = iface.cnt THEN x ELSE iface.at[i]
  BY <1>1, AddedKeeps
<1>5. /\ \A i \in 0..(iface.cnt - 1) : \E q \in 1..Len(names) : Done(all + q) /\ iface.at[i] = names[q]
      /\ \A q \in 1..Len(names) : Done(all + q) => \E i \in 0..(iface.cnt - 1) : iface.at[i] = names[q]
      /\ \A i, j \in 0..(iface.cnt - 1) : iface.at[i] = iface.at[j] => i = j
  BY DEF ReadInterfaces
<1>6. \A q \in 1..Len(names) : Done(all + q) => all + q <= optind
  BY DEF Done
<1> HIDE DEF names, all, b, x
<1>7. ASSUME NEW q \in 1..Len(names) PROVE /\ all + q = k <=> q = p
                                           /\ Done(all + q) => names[q] # x
  <2>1. all + q = k <=> q = p
    BY <1>1, <1>2
  <2>2. ASSUME Done(all + q) PROVE names[q] # x
    <3>1. all + q <= optind
      BY <1>6, <2>2
    <3>2. q \in 1..(p - 1)
      BY <1>1, <1>2, <1>3, <3>1
    <3> QED
      BY <1>1, <3>2
  <2> QED
    BY <2>1, <2>2
<1>8. \A i \in 0..(b.cnt - 1) : i = iface.cnt \/ i \in 0..(iface.cnt - 1)
  BY <1>1, <1>4
<1>9. /\ \A i \in 0..(iface.cnt - 1) : i \in 0..(b.cnt - 1) /\ b.at[i] = iface.at[i] /\ iface.at[i] # x
      /\ iface.cnt \in 0..(b.cnt - 1) /\ b.at[iface.cnt] = x
  <2>1. \A i \in 0..(iface.cnt - 1) : i \in 0..(b.cnt - 1) /\ i # iface.cnt
    BY <1>1, <1>4
  <2>2. iface.cnt \in 0..(b.cnt - 1)
    BY <1>1, <1>4
  <2>3. \A i \in 0..(iface.cnt - 1) : iface.at[i] # x
    BY <1>5, <1>7
  <2> QED
    BY <1>4, <2>1, <2>2, <2>3
<1>10. x = names[p]
  BY DEF x
<1>11. \A i \in 0..(b.cnt - 1) : \E q \in 1..Len(names) : (Done(all + q) \/ q = p) /\ b.at[i] = names[q]
  <2>1. ASSUME NEW i \in 0..(b.cnt - 1)
        PROVE  \E q \in 1..Len(names) : (Done(all + q) \/ q = p) /\ b.at[i] = names[q]
    <3>1. CASE i = iface.cnt
      BY <1>1, <1>9, <1>10, <3>1
    <3>2. CASE i \in 0..(iface.cnt - 1)
      BY <1>5, <1>9, <3>2
    <3> QED
      BY <1>8, <3>1, <3>2
  <2> QED
    BY <2>1
<1>12. \A q \in 1..Len(names) : Done(all + q) \/ q = p => \E i \in 0..(b.cnt - 1) : b.at[i] = names[q]
  BY <1>5, <1>9, <1>10
<1>13. \A i, j \in 0..(b.cnt - 1) : b.at[i] = b.at[j] => i = j
  <2>1. ASSUME NEW i \in 0..(b.cnt - 1), NEW j \in 0..(b.cnt - 1), b.at[i] = b.at[j] PROVE i = j
    <3>1. CASE i \in 0..(iface.cnt - 1) /\ j \in 0..(iface.cnt - 1)
      <4>1. iface.at[i] = iface.at[j]
        BY <1>9, <2>1, <3>1, Zenon
      <4> QED
        BY <1>5, <3>1, <4>1, Zenon
    <3>2. CASE i = iface.cnt \/ j = iface.cnt
      BY <1>8, <1>9, <2>1, <3>2
    <3> QED
      BY <1>8, <3>1, <3>2
  <2> QED
    BY <2>1
<1>14. iface' = b /\ Named(cfg, devs)' = names /\ AllAt' = all
  BY <1>1, <1>2 DEF names, all
<1>15. /\ Array(iface)' /\ Roomy(iface)'
       /\ \A i \in 0..(iface.cnt' - 1) :
            \E q \in 1..Len(Named(cfg, devs)') : Done(AllAt + q)' /\ iface'.at[i] = Named(cfg, devs)'[q]
       /\ \A q \in 1..Len(Named(cfg, devs)') :
            Done(AllAt + q)' => \E i \in 0..(iface.cnt' - 1) : iface'.at[i] = Named(cfg, devs)'[q]
       /\ \A i, j \in 0..(iface.cnt' - 1) : iface'.at[i] = iface'.at[j] => i = j
  <2>1. Array(iface)' /\ Roomy(iface)'
    BY <1>4, <1>14 DEF Array, Roomy
  <2>2. \A q \in 1..Len(names) : Done(AllAt + q)' <=> Done(all + q) \/ q = p
    BY <1>1, <1>3, <1>7, <1>14 DEF Done
  <2> QED
    BY <1>11, <1>12, <1>13, <1>14, <2>1, <2>2
<1> QED
  BY <1>15 DEF ReadInterfaces

LEMMA InterfacesKept ==
  ASSUME Parts, optind \in Nat, ReadInterfaces, NEW k, Reading(k), UNCHANGED iface,
         \A p \in 1..Len(Named(cfg, devs)) : k # AllAt + p
  PROVE  ReadInterfaces'
<1>1. UNCHANGED <<cfg, devs>>
  BY DEF Reading
<1>2. AllAt' = AllAt /\ Named(cfg, devs)' = Named(cfg, devs)
  BY <1>1, Unmoved
<1>3. \A p \in 1..Len(Named(cfg, devs)) : argv[AllAt + p].given /\ AllAt + p <= optind' <=> Done(AllAt + p)
  BY NextDone, LinePlaces
<1>4. \A p \in 1..Len(Named(cfg, devs)) : Done(AllAt + p)' <=> Done(AllAt + p)
  BY <1>1, <1>2, <1>3 DEF Done, Reading
<1> QED
  BY <1>2, <1>4 DEF ReadInterfaces, Array
-----------------------------------------------------------------------------
LEMMA LeastPlace ==
  ASSUME NEW S \in SUBSET Nat, S # {}
  PROVE  \E least \in S : \A n \in S : least <= n
<1> DEFINE less == OpToRel(<, Nat)
<1>1. IsWellFoundedOn(less, Nat)
  BY NatLessThanWellFounded
<1>2. ASSUME NEW a \in Nat, NEW b \in Nat, a < b PROVE <<a, b>> \in less
  <2>1. <<a, b>> \in Nat \X Nat /\ <<a, b>>[1] < <<a, b>>[2]
    BY <1>2
  <2>2. less = {ss \in Nat \X Nat : ss[1] < ss[2]}
    BY Zenon DEF OpToRel
  <2> QED
    BY <2>1, <2>2, Zenon
<1> HIDE DEF less
<1>3. PICK least \in S : \A n \in S : ~ (<<n, least>> \in less)
  BY <1>1, WFMin
<1>4. ASSUME NEW n \in S PROVE least <= n
  <2>1. ~(n < least)
    BY <1>2, <1>3
  <2> QED
    BY <2>1
<1> QED
  BY <1>4

(* When none is left, main has read what is given.                           *)
LEMMA NoneIsLeft == ASSUME Parts, optind \in Nat, NoneLeft PROVE \A p \in DOMAIN argv : Done(p) <=> argv[p].given
<1>1. DOMAIN argv = 1..LogAt
  BY Zenon DEF Parts
<1>2. ASSUME NEW p \in DOMAIN argv, argv[p].given PROVE p <= optind
  BY <1>1, <1>2 DEF NoneLeft
<1> QED
  BY <1>2 DEF Done

LEMMA FlagsRead ==
  ASSUME Section(cfg), Parts, optind \in Nat, NoneLeft, ReadContext
  PROVE  FlagsAsConfigured
<1>1. \A f \in Flag : Defaults[f] = FALSE
  BY DEF Flag, Defaults
<1>2. ASSUME NEW i \in 1..8 PROVE ctx[FlagArgs[i].flag] = On(cfg, FlagArgs[i].option)
  <2> DEFINE on == On(cfg, FlagArgs[i].option)
             flag == FlagArgs[i].flag
  <2>1. on \in BOOLEAN
    <3>1. FlagArgs[i].option \in Switches
      BY DEF Switches, FlagArgs
    <3> QED
      BY <3>1, OnIsBoolean
  <2>2. argv[i] = [given |-> on, flag |-> flag]
    BY Zenon DEF Parts
  <2>3. ctx[flag] = IF Done(i) THEN TRUE ELSE FALSE
    <3>1. i \in CtxAt /\ FieldAt(i) = flag /\ ValueAt(i) = TRUE
      BY CtxPlaces
    <3>2. Defaults[flag] = FALSE
      BY <1>1, FlagNames
    <3> HIDE DEF flag
    <3> QED
      BY <3>1, <3>2 DEF ReadContext
  <2> HIDE DEF on, flag
  <2>4. Done(i) <=> argv[i].given
    BY NoneIsLeft, CtxPlaces, LinePlaces
  <2>5. argv[i].given = on
    BY <2>2
  <2>6. ASSUME on = TRUE PROVE ctx[flag] = TRUE
    BY <2>3, <2>4, <2>5, <2>6
  <2>7. ASSUME on = FALSE PROVE ctx[flag] = FALSE
    BY <2>3, <2>4, <2>5, <2>7
  <2>8. ctx[flag] = on
    BY <2>1, <2>6, <2>7
  <2> QED
    BY <2>8 DEF on, flag
<1>3. ctx["alliface"] = On(cfg, "all_interfaces")
  <2> DEFINE on == On(cfg, "all_interfaces")
  <2>1. on \in BOOLEAN
    BY OnIsBoolean DEF Switches
  <2>2. argv[AllAt] = [given |-> on, flag |-> "alliface"]
    BY Zenon DEF Parts
  <2>3. ctx["alliface"] = IF Done(AllAt) THEN TRUE ELSE FALSE
    BY <1>1, CtxPlaces DEF ReadContext, Flag
  <2> HIDE DEF on
  <2>4. Done(AllAt) <=> argv[AllAt].given
    BY NoneIsLeft, CtxPlaces, LinePlaces
  <2>5. argv[AllAt].given = on
    BY <2>2
  <2>6. ASSUME on = TRUE PROVE ctx["alliface"] = TRUE
    BY <2>3, <2>4, <2>5, <2>6
  <2>7. ASSUME on = FALSE PROVE ctx["alliface"] = FALSE
    BY <2>3, <2>4, <2>5, <2>7
  <2>8. ctx["alliface"] = on
    BY <2>1, <2>6, <2>7
  <2> QED
    BY <2>8 DEF on
<1>4. DOMAIN FlagArgs = 1..8
  BY DEF FlagArgs
<1> QED
  BY <1>2, <1>3, <1>4 DEF FlagsAsConfigured

(* -y is not given for a share of 0, which is its default.                   *)
LEMMA ValuesRead ==
  ASSUME Parts, optind \in Nat, NoneLeft, ReadContext
  PROVE  /\ ValuesAsConfigured /\ (Given(cfg, "fwmask") => ReadAs("fwmask", cfg.fwmask) # {})
         /\ \A i \in 1..6 : ~Given(cfg, ValueArgs[i].option) =>
                            ctx[ValueArgs[i].setting] = Defaults[ValueArgs[i].setting]
<1>0. /\ ValueArgs[3].option = "fwmask" /\ ValueArgs[3].setting = "fwmask"
      /\ ValueArgs[6].option = "dynamic_pct" /\ ValueArgs[6].setting = "dynamic_pct"
      /\ DOMAIN ValueArgs = 1..6
  BY DEF ValueArgs
<1>1. ASSUME NEW i \in 1..6
      PROVE  /\ ctx[ValueArgs[i].setting] = IF Given(cfg, ValueArgs[i].option)
                                            THEN ReadAs(ValueArgs[i].setting, cfg[ValueArgs[i].option])
                                            ELSE Defaults[ValueArgs[i].setting]
             /\ Given(cfg, ValueArgs[i].option) => ~RefusedAt(ValuesAt + i)
  <2> DEFINE o == ValueArgs[i].option
             s == ValueArgs[i].setting
             k == ValuesAt + i
             value == ReadAs(s, cfg[o])
  <2>1. argv[k].given <=> Given(cfg, o)
    <3> DEFINE given == Given(cfg, o)
    <3>1. argv[k] = [given |-> given, setting |-> s, value |-> cfg[o]]
      BY Zenon DEF Parts
    <3>2. argv[k].given = given
      BY <3>1
    <3> HIDE DEF given, k, o
    <3>3. argv[k].given <=> given
      BY <3>2, Zenon
    <3> QED
      BY <3>3 DEF given
  <2>2. k \in CtxAt /\ ctx[s] = IF Done(k) THEN value ELSE Defaults[s]
    BY CtxPlaces DEF ReadContext
  <2>3. Done(k) <=> argv[k].given
    BY NoneIsLeft, CtxPlaces, LinePlaces
  <2>4. Done(k) => ~RefusedAt(k)
    BY <2>2 DEF ReadContext
  <2> HIDE DEF k, o, s, value
  <2>5. /\ ctx[s] = IF Given(cfg, o) THEN value ELSE Defaults[s]
        /\ Given(cfg, o) => ~RefusedAt(k)
    BY <2>1, <2>2, <2>3, <2>4
  <2> QED
    BY <2>5 DEF k, o, s, value
<1>2. ASSUME Set(cfg, "log_file") PROVE ctx["logpath"] = cfg.log_file
  <2>1. argv[LogAt] = [given |-> Set(cfg, "log_file"), log |-> cfg.log_file]
    BY Zenon DEF Parts
  <2>2. argv[LogAt].given = Set(cfg, "log_file")
    BY <2>1
  <2>3. argv[LogAt].given
    BY <1>2, <2>2, Zenon
  <2>4. Done(LogAt)
    BY <2>3, NoneIsLeft, CtxPlaces, LinePlaces
  <2> QED
    BY <2>4, CtxPlaces DEF ReadContext
<1>3. ASSUME Given(cfg, "fwmask") PROVE ReadAs("fwmask", cfg.fwmask) # {}
  <2>1. ~RefusedAt(ValuesAt + 3)
    BY <1>0, <1>1, <1>3
  <2>2. ~Refuses(ValueArgs[3].setting, ReadAs(ValueArgs[3].setting, cfg[ValueArgs[3].option]))
    <3> DEFINE value == ReadAs(ValueArgs[3].setting, cfg[ValueArgs[3].option])
    <3>1. 3 \in 1..6 /\ ValuesAt + 3 = ValuesAt + 3
      OBVIOUS
    <3> QED
      BY <2>1, <3>1, Zenon DEF RefusedAt
  <2> QED
    BY <1>0, <2>2 DEF Refuses, Mark
<1>4. cfg.dynamic_pct = NoShare => ctx["dynamic_pct"] = 0
  <2>1. cfg.dynamic_pct = NoShare => ~Given(cfg, "dynamic_pct")
    BY DEF Given
  <2>2. Defaults["dynamic_pct"] = 0
    BY DEF Defaults
  <2>3. ctx[ValueArgs[6].setting] = IF Given(cfg, ValueArgs[6].option)
                                    THEN ReadAs(ValueArgs[6].setting, cfg[ValueArgs[6].option])
                                    ELSE Defaults[ValueArgs[6].setting]
    BY <1>1
  <2> QED
    BY <1>0, <2>1, <2>2, <2>3
<1>5. ValuesAsConfigured
  BY <1>0, <1>1, <1>2, <1>4 DEF ValuesAsConfigured
<1> QED
  BY <1>1, <1>3, <1>5

(* What the names are, and which of them are added.                          *)
LEMMA NamedAre ==
  ASSUME NEW c, NEW view, Section(c)
  PROVE  /\ \A p \in 1..Len(Named(c, view)) : Adds(Named(c, view), p) => Named(c, view)[p] \in Usable(c, view)
         /\ \A x \in Usable(c, view) :
              \E p \in 1..Len(Named(c, view)) : Named(c, view)[p] = x /\ Adds(Named(c, view), p)
<1> DEFINE names == Named(c, view)
           resolved == [i \in DOMAIN c.network |-> view[c.network[i]]]
           first == IF UsesNetworks(c) THEN resolved ELSE <<>>
           second == IF UsesInterfaces(c) THEN c.interface ELSE <<>>
           S == (IF UsesNetworks(c) THEN {view[n] : n \in ToSet(c.network)} ELSE {})
                \cup (IF UsesInterfaces(c) THEN ToSet(c.interface) ELSE {})
<1>1. IsSeq(c.network) /\ IsSeq(c.interface)
  BY ListFacts DEF Section, Lists
<1>2. IsSeq(<<>>) /\ Len(<<>>) = 0
  BY EmptySeq DEF IsSeq
<1>3. /\ IsSeq(resolved) /\ Len(resolved) = Len(c.network)
      /\ \A i \in 1..Len(c.network) : resolved[i] = view[c.network[i]]
  <2>1. /\ Len(c.network) \in Nat /\ resolved = [i \in 1..Len(c.network) |-> resolved[i]]
        /\ \A i \in 1..Len(c.network) : resolved[i] = view[c.network[i]]
    BY <1>1, SeqFacts
  <2> HIDE DEF resolved
  <2> QED
    BY <2>1, FunctionIsSeq
<1>4. /\ IsSeq(first) /\ IsSeq(second) /\ Joins(names, first, second)
  <2>1. IsSeq(first) /\ IsSeq(second) /\ names = first \o second
    BY <1>1, <1>2, <1>3 DEF Named
  <2> HIDE DEF first, second, names
  <2> QED
    BY <2>1, Joined
<1>5. \A x : x \in ToSet(c.network) <=> \E i \in 1..Len(c.network) : x = c.network[i]
  BY <1>1, SeqFacts DEF ToSet
<1>6. \A x : x \in ToSet(c.interface) <=> \E i \in 1..Len(c.interface) : x = c.interface[i]
  BY <1>1, SeqFacts DEF ToSet
<1>7. \A x : x \in S <=> \/ \E i \in 1..Len(first) : x = first[i]
                         \/ \E i \in 1..Len(second) : x = second[i]
  <2> DEFINE A == IF UsesNetworks(c) THEN {view[n] : n \in ToSet(c.network)} ELSE {}
             B == IF UsesInterfaces(c) THEN ToSet(c.interface) ELSE {}
  <2>1. \A x : x \in A <=> \E i \in 1..Len(first) : x = first[i]
    <3>1. CASE UsesNetworks(c)
      BY <1>3, <1>5, <3>1
    <3>2. CASE ~UsesNetworks(c)
      BY <1>2, <3>2
    <3> QED
      BY <3>1, <3>2
  <2>2. \A x : x \in B <=> \E i \in 1..Len(second) : x = second[i]
    <3>1. CASE UsesInterfaces(c)
      BY <1>6, <3>1
    <3>2. CASE ~UsesInterfaces(c)
      BY <1>2, <3>2
    <3> QED
      BY <3>1, <3>2
  <2>3. S = A \cup B
    OBVIOUS
  <2> HIDE DEF first, second, A, B, S
  <2> QED
    BY <2>1, <2>2, <2>3
<1>8. Usable(c, view) = S \ (Bad \cup {Down})
  BY DEF Usable
<1>9. Len(first) \in Nat /\ Len(second) \in Nat /\ Len(names) = Len(first) + Len(second)
  BY <1>4, SeqFacts DEF Joins
<1> HIDE DEF first, second, names, S, resolved
<1>10. \A x : x \in S <=> \E p \in 1..Len(names) : names[p] = x
  <2>1. ASSUME NEW x, x \in S PROVE \E p \in 1..Len(names) : names[p] = x
    <3>1. ASSUME NEW i \in 1..Len(first), x = first[i] PROVE \E p \in 1..Len(names) : names[p] = x
      BY <1>4, <1>9, <3>1 DEF Joins
    <3>2. ASSUME NEW i \in 1..Len(second), x = second[i] PROVE \E p \in 1..Len(names) : names[p] = x
      <4>1. Len(first) + i \in 1..Len(names) /\ names[Len(first) + i] = x
        BY <1>4, <1>9, <3>2 DEF Joins
      <4> QED
        BY <4>1
    <3> QED
      BY <1>7, <2>1, <3>1, <3>2
  <2>2. ASSUME NEW p \in 1..Len(names) PROVE names[p] \in S
    <3>1. CASE p <= Len(first)
      <4>1. p \in 1..Len(first) /\ names[p] = first[p]
        BY <1>4, <1>9, <3>1 DEF Joins
      <4> QED
        BY <1>7, <4>1
    <3>2. CASE p > Len(first)
      <4>1. p - Len(first) \in 1..Len(second) /\ Len(first) + (p - Len(first)) = p
        BY <1>9, <3>2
      <4>2. names[p] = second[p - Len(first)]
        BY <1>4, <4>1 DEF Joins
      <4> QED
        BY <1>7, <4>1, <4>2
    <3> QED
      BY <1>9, <3>1, <3>2
  <2> QED
    BY <2>1, <2>2
<1>11. \A p \in 1..Len(names) : Adds(names, p) => names[p] \in Usable(c, view)
  BY <1>8, <1>10 DEF Adds
<1>12. ASSUME NEW x \in Usable(c, view) PROVE \E p \in 1..Len(names) : names[p] = x /\ Adds(names, p)
  <2> DEFINE places == {p \in 1..Len(names) : names[p] = x}
  <2>1. places \in SUBSET Nat /\ places # {}
    BY <1>8, <1>10, <1>12
  <2>2. PICK p \in places : \A q \in places : p <= q
    <3> HIDE DEF places
    <3> QED
      BY <2>1, LeastPlace
  <2>3. p \in 1..Len(names) /\ names[p] = x
    OBVIOUS
  <2>4. ASSUME NEW j \in 1..(p - 1), names[j] = x PROVE FALSE
    <3>1. j \in places
      BY <1>9, <2>3, <2>4
    <3>2. p <= j
      BY <2>2, <3>1
    <3> QED
      BY <1>9, <2>3, <3>2
  <2>5. x \notin Bad \cup {Down}
    BY <1>8, <1>12
  <2> QED
    BY <2>3, <2>4, <2>5 DEF Adds
<1> QED
  BY <1>11, <1>12 DEF names

LEMMA InterfacesRead ==
  ASSUME Section(cfg), Parts, optind \in Nat, NoneLeft, ReadInterfaces
  PROVE  InterfacesAsConfigured
<1> SUFFICES ASSUME ~On(cfg, "all_interfaces")
             PROVE  /\ {iface.at[i] : i \in 0..(iface.cnt - 1)} = Usable(cfg, devs)
                    /\ \A i, j \in 0..(iface.cnt - 1) : iface.at[i] = iface.at[j] => i = j
  BY Zenon DEF InterfacesAsConfigured
<1> DEFINE names == Named(cfg, devs)
<1>1. \A p \in 1..Len(names) : Done(AllAt + p) <=> Adds(names, p)
  <2>1. ASSUME NEW p \in 1..Len(names) PROVE Done(AllAt + p) <=> Adds(names, p)
    <3> DEFINE given == ~On(cfg, "all_interfaces") /\ Adds(names, p)
               k == AllAt + p
    <3>1. argv[k] = [given |-> given, iface |-> names[p]]
      BY Zenon DEF Parts
    <3>2. given <=> Adds(names, p)
      OBVIOUS
    <3>3. Done(k) <=> argv[k].given
      BY NoneIsLeft, LinePlaces
    <3>4. given \in BOOLEAN
      OBVIOUS
    <3>5. argv[k].given = given
      BY <3>1
    <3> HIDE DEF given, k, names
    <3>6. Done(k) <=> Adds(names, p)
      BY <3>2, <3>3, <3>4, <3>5, Zenon
    <3> QED
      BY <3>6 DEF k
  <2> QED
    BY <2>1
<1>2. /\ \A p \in 1..Len(names) : Adds(names, p) => names[p] \in Usable(cfg, devs)
      /\ \A x \in Usable(cfg, devs) : \E p \in 1..Len(names) : names[p] = x /\ Adds(names, p)
  BY NamedAre
<1>3. /\ \A i \in 0..(iface.cnt - 1) : \E p \in 1..Len(names) : Done(AllAt + p) /\ iface.at[i] = names[p]
      /\ \A p \in 1..Len(names) : Done(AllAt + p) => \E i \in 0..(iface.cnt - 1) : iface.at[i] = names[p]
  BY DEF ReadInterfaces
<1> HIDE DEF names
<1>4. \A i \in 0..(iface.cnt - 1) : iface.at[i] \in Usable(cfg, devs)
  BY <1>1, <1>2, <1>3
<1>5. \A x \in Usable(cfg, devs) : \E i \in 0..(iface.cnt - 1) : iface.at[i] = x
  BY <1>1, <1>2, <1>3
<1> QED
  BY <1>4, <1>5 DEF ReadInterfaces

(* The URIs in front of the files, before the check adds anything.           *)
UrisThenFiles ==
  /\ \A i \in 1..Len(Uris(cfg)) : plinfo.at[i - 1] = [type |-> "u", info |-> Uris(cfg)[i]]
  /\ \A i \in 1..Len(cfg.payload_file) :
       plinfo.at[Len(Uris(cfg)) + i - 1] = [type |-> "b", info |-> cfg.payload_file[i]]
  /\ plinfo.cnt = Len(Uris(cfg)) + Len(cfg.payload_file)

LEMMA PayloadsRead ==
  ASSUME Parts, optind \in Nat, NoneLeft, ReadPayloads
  PROVE  UrisThenFiles
<1> DEFINE u == Len(Uris(cfg))
           f == Len(cfg.payload_file)
           values == ValuesAt
<1>1. u \in Nat /\ f \in Nat /\ values = 8 + u + f
  BY Positions
<1>2. \A k \in 9..values : k <= optind
  BY NoneIsLeft, LinePlaces, PayloadPlaces DEF Done
<1>3. plinfo.cnt = IF optind <= 8 THEN 0 ELSE IF optind >= values THEN values - 8 ELSE optind - 8
  BY DEF ReadPayloads
<1>4. /\ \A i \in 1..u : argv[8 + i] = [given |-> TRUE, type |-> "u", info |-> Uris(cfg)[i]]
      /\ \A i \in 1..f : argv[8 + u + i] = [given |-> TRUE, type |-> "b", info |-> cfg.payload_file[i]]
  BY Zenon DEF Parts
<1>5. \A i \in 0..(plinfo.cnt - 1) : plinfo.at[i] = [type |-> argv[9 + i].type, info |-> argv[9 + i].info]
  BY DEF ReadPayloads
<1> HIDE DEF u, f, values
<1>6. plinfo.cnt = u + f
  <2>1. CASE values = 8
    BY <1>1, <1>3, <2>1
  <2>2. CASE values # 8
    <3>1. values \in 9..values
      BY <1>1, <2>2
    <3>2. values <= optind
      BY <1>2, <3>1
    <3> QED
      BY <1>1, <1>3, <2>2, <3>2
  <2> QED
    BY <2>1, <2>2
<1>7. ASSUME NEW i \in 1..u PROVE plinfo.at[i - 1] = [type |-> "u", info |-> Uris(cfg)[i]]
  <2>1. i - 1 \in 0..(plinfo.cnt - 1) /\ 9 + (i - 1) = 8 + i
    BY <1>1, <1>6
  <2>2. plinfo.at[i - 1] = [type |-> argv[8 + i].type, info |-> argv[8 + i].info]
    BY <1>5, <2>1
  <2>3. argv[8 + i].type = "u" /\ argv[8 + i].info = Uris(cfg)[i]
    <3> DEFINE k == 8 + i
    <3>1. argv[k] = [given |-> TRUE, type |-> "u", info |-> Uris(cfg)[i]]
      BY <1>4
    <3> HIDE DEF k
    <3>2. argv[k].type = "u" /\ argv[k].info = Uris(cfg)[i]
      BY <3>1
    <3> QED
      BY <3>2 DEF k
  <2> QED
    BY <2>2, <2>3
<1>8. ASSUME NEW i \in 1..f PROVE plinfo.at[u + i - 1] = [type |-> "b", info |-> cfg.payload_file[i]]
  <2>1. u + i - 1 \in 0..(plinfo.cnt - 1) /\ 9 + (u + i - 1) = 8 + u + i
    BY <1>1, <1>6
  <2>2. plinfo.at[u + i - 1] = [type |-> argv[8 + u + i].type, info |-> argv[8 + u + i].info]
    BY <1>5, <2>1
  <2>3. argv[8 + u + i].type = "b" /\ argv[8 + u + i].info = cfg.payload_file[i]
    <3> DEFINE k == 8 + u + i
    <3>1. argv[k] = [given |-> TRUE, type |-> "b", info |-> cfg.payload_file[i]]
      BY <1>4
    <3> HIDE DEF k
    <3>2. argv[k].type = "b" /\ argv[k].info = cfg.payload_file[i]
      BY <3>1
    <3> QED
      BY <3>2 DEF k
  <2> QED
    BY <2>2, <2>3
<1> QED
  BY <1>6, <1>7, <1>8 DEF UrisThenFiles, u, f
-----------------------------------------------------------------------------
(* The check adds a payload where there is none, and what it completes the   *)
(* script has given.                                                         *)
LEMMA CheckConfigures ==
  ASSUME Section(cfg), Startable(cfg, devs), Parts, optind \in Nat, NoneLeft,
         Context, ReadContext, ReadPayloads, Check, UNCHANGED cfg
  PROVE  /\ Context' /\ ~ctx'.daemon /\ ~ctx'.killproc
         /\ FlagsAsConfigured' /\ ValuesAsConfigured' /\ (pc' = "daemon" => PayloadsAsConfigured')
<1>1. ctx' = Completed
  BY DEF Check
<1>2. Context'
  BY <1>1, CompletedFields DEF Context
<1>3. FlagsAsConfigured /\ ValuesAsConfigured /\ (Given(cfg, "fwmask") => ReadAs("fwmask", cfg.fwmask) # {})
  BY FlagsRead, ValuesRead
<1>4. \A x \in Field \ {"inbound", "outbound", "use_ipv4", "use_ipv6", "fwmask"} : ctx'[x] = ctx[x]
  BY <1>1, CompletedFields
<1>5. /\ ctx'["inbound"] = (ctx["inbound"] \/ ~ctx["outbound"])
      /\ ctx'["outbound"] = (ctx["outbound"] \/ ~ctx["inbound"])
      /\ ctx'["use_ipv4"] = (ctx["use_ipv4"] \/ ~ctx["use_ipv6"])
      /\ ctx'["use_ipv6"] = (ctx["use_ipv6"] \/ ~ctx["use_ipv4"])
      /\ ctx'["fwmask"] = IF ctx["fwmask"] = {} THEN ctx["fwmark"] ELSE ctx["fwmask"]
  BY <1>1, CompletedFields
<1>6. ~ctx'.daemon /\ ~ctx'.killproc
  <2>1. {"daemon", "killproc"} \subseteq Field \ {"inbound", "outbound", "use_ipv4", "use_ipv6", "fwmask"}
    BY DEF Field, Flag
  <2> QED
    BY <1>4, <2>1 DEF ReadContext
<1>7. \A i \in 1..8 : ctx'[FlagArgs[i].flag] = ctx[FlagArgs[i].flag]
  <2>1. /\ FlagArgs[1].flag = "inbound" /\ FlagArgs[2].flag = "outbound" /\ FlagArgs[3].flag = "use_ipv4"
        /\ FlagArgs[4].flag = "use_ipv6" /\ FlagArgs[1].option = "inbound" /\ FlagArgs[2].option = "outbound"
        /\ FlagArgs[3].option = "ipv4" /\ FlagArgs[4].option = "ipv6" /\ DOMAIN FlagArgs = 1..8
    BY DEF FlagArgs
  <2>2. /\ ctx["inbound"] = On(cfg, "inbound") /\ ctx["outbound"] = On(cfg, "outbound")
        /\ ctx["use_ipv4"] = On(cfg, "ipv4") /\ ctx["use_ipv6"] = On(cfg, "ipv6")
    <3>1. /\ ctx[FlagArgs[1].flag] = On(cfg, FlagArgs[1].option) /\ ctx[FlagArgs[2].flag] = On(cfg, FlagArgs[2].option)
          /\ ctx[FlagArgs[3].flag] = On(cfg, FlagArgs[3].option) /\ ctx[FlagArgs[4].flag] = On(cfg, FlagArgs[4].option)
      BY <1>3, <2>1 DEF FlagsAsConfigured
    <3> QED
      BY <2>1, <3>1
  <2>3. /\ On(cfg, "inbound") \in BOOLEAN /\ On(cfg, "outbound") \in BOOLEAN
        /\ On(cfg, "ipv4") \in BOOLEAN /\ On(cfg, "ipv6") \in BOOLEAN
    <3>1. {"inbound", "outbound", "ipv4", "ipv6"} \subseteq Switches
      <4>1. {FlagArgs[i].option : i \in {1, 2, 3, 4}} \subseteq Switches
        BY <2>1 DEF Switches
      <4> QED
        BY <2>1, <4>1
    <3> QED
      BY <3>1, OnIsBoolean
  <2>4. /\ On(cfg, "inbound") \/ On(cfg, "outbound")
        /\ On(cfg, "ipv4") \/ On(cfg, "ipv6")
    BY Zenon DEF Startable
  <2>5. /\ ctx'["inbound"] = ctx["inbound"] /\ ctx'["outbound"] = ctx["outbound"]
        /\ ctx'["use_ipv4"] = ctx["use_ipv4"] /\ ctx'["use_ipv6"] = ctx["use_ipv6"]
    <3> DEFINE in == ctx["inbound"]
               out == ctx["outbound"]
               four == ctx["use_ipv4"]
               six == ctx["use_ipv6"]
    <3>1. /\ in \in BOOLEAN /\ out \in BOOLEAN /\ four \in BOOLEAN /\ six \in BOOLEAN
      BY <2>2, <2>3
    <3>2. (in \/ out) /\ (four \/ six)
      BY <2>2, <2>4, Zenon
    <3> HIDE DEF in, out, four, six
    <3>3. /\ in = (in \/ ~out) /\ out = (out \/ ~in)
          /\ four = (four \/ ~six) /\ six = (six \/ ~four)
      BY <3>1, <3>2
    <3> QED
      BY <1>5, <3>3, Zenon DEF in, out, four, six
  <2>6. ASSUME NEW i \in 1..8 PROVE ctx'[FlagArgs[i].flag] = ctx[FlagArgs[i].flag]
    <3>1. CASE i \in 1..4
      <4>1. i = 1 \/ i = 2 \/ i = 3 \/ i = 4
        BY <3>1
      <4> QED
        BY <2>1, <2>5, <4>1
    <3>2. CASE i \in 5..8
      <4>1. FlagArgs[i].flag # FlagArgs[1].flag /\ FlagArgs[i].flag # FlagArgs[2].flag
            /\ FlagArgs[i].flag # FlagArgs[3].flag /\ FlagArgs[i].flag # FlagArgs[4].flag
        BY <3>2, FlagNames
      <4>2. FlagArgs[i].flag \in Field /\ FlagArgs[i].flag # "fwmask"
        BY FlagNames DEF Field, Flag
      <4> QED
        BY <1>4, <2>1, <4>1, <4>2
    <3> QED
      BY <3>1, <3>2
  <2> QED
    BY <2>6
<1>8. FlagsAsConfigured'
  <2>1. ctx'["alliface"] = ctx["alliface"]
    <3>1. "alliface" \in Field \ {"inbound", "outbound", "use_ipv4", "use_ipv6", "fwmask"}
      BY DEF Field, Flag
    <3> QED
      BY <1>4, <3>1
  <2>2. DOMAIN FlagArgs = 1..8
    BY DEF FlagArgs
  <2> QED
    BY <1>3, <1>7, <2>1, <2>2 DEF FlagsAsConfigured, On
<1>9. ValuesAsConfigured'
  <2>1. DOMAIN ValueArgs = 1..6
    BY DEF ValueArgs
  <2>2. ASSUME NEW i \in 1..6, Given(cfg, ValueArgs[i].option)
        PROVE  ctx'[ValueArgs[i].setting] = ReadAs(ValueArgs[i].setting, cfg[ValueArgs[i].option])
    <3>1. ctx[ValueArgs[i].setting] = ReadAs(ValueArgs[i].setting, cfg[ValueArgs[i].option])
      BY <1>3, <2>1, <2>2 DEF ValuesAsConfigured
    <3>2. CASE ValueArgs[i].setting = "fwmask"
      <4>1. ValueArgs[i].option = "fwmask"
        BY <3>2 DEF ValueArgs
      <4>2. ctx["fwmask"] = ReadAs("fwmask", cfg["fwmask"]) /\ ReadAs("fwmask", cfg["fwmask"]) # {}
        BY <1>3, <2>2, <3>1, <3>2, <4>1
      <4> QED
        BY <1>5, <3>2, <4>1, <4>2
    <3>3. CASE ValueArgs[i].setting # "fwmask"
      <4>1. ValueArgs[i].setting \in Field \ {"inbound", "outbound", "use_ipv4", "use_ipv6", "fwmask"}
        <5>1. ValueArgs[i].setting \in Setting \cup Mark
          BY SettingNames
        <5> QED
          BY <3>3, <5>1 DEF Field, Setting, Mark
      <4> QED
        BY <1>4, <3>1, <4>1
    <3> QED
      BY <3>2, <3>3
  <2>3. ctx'["logpath"] = ctx["logpath"]
    <3>1. "logpath" \in Field \ {"inbound", "outbound", "use_ipv4", "use_ipv6", "fwmask"}
      BY DEF Field
    <3> QED
      BY <1>4, <3>1
  <2>4. ctx'["dynamic_pct"] = ctx["dynamic_pct"]
    <3>1. "dynamic_pct" \in Field \ {"inbound", "outbound", "use_ipv4", "use_ipv6", "fwmask"}
      BY DEF Field, Setting
    <3> QED
      BY <1>4, <3>1
  <2> QED
    BY <1>3, <2>1, <2>2, <2>3, <2>4 DEF ValuesAsConfigured, Set, Given
<1>10. ASSUME pc' = "daemon" PROVE PayloadsAsConfigured'
  <2> DEFINE uris == Uris(cfg)
             files == cfg.payload_file
             x == [type |-> "u", info |-> Null]
             b == CountedOnly(plinfo)
  <2>1. plinfo' = IF plinfo.cnt # 0 THEN plinfo ELSE Put(b, x)
    BY <1>10 DEF Check, Inconsistent, Fail
  <2>2. /\ \A i \in 1..Len(uris) : plinfo.at[i - 1] = [type |-> "u", info |-> uris[i]]
        /\ \A i \in 1..Len(files) : plinfo.at[Len(uris) + i - 1] = [type |-> "b", info |-> files[i]]
        /\ plinfo.cnt = Len(uris) + Len(files)
    BY PayloadsRead DEF UrisThenFiles
  <2>3. IsSeq(uris) /\ IsSeq(files)
    BY Zenon DEF Parts
  <2>4. /\ Len(uris) \in Nat /\ DOMAIN uris = 1..Len(uris) /\ (uris = <<>> <=> Len(uris) = 0)
        /\ Len(files) \in Nat /\ DOMAIN files = 1..Len(files) /\ (files = <<>> <=> Len(files) = 0)
    BY <2>3, SeqFacts, EmptySeq DEF IsSeq
  <2>5. uris' = uris /\ files' = files
    OBVIOUS
  <2>6. Array(plinfo)
    BY DEF ReadPayloads
  <2> HIDE DEF uris, files, x, b
  <2>7. CASE plinfo.cnt # 0
    <3>1. plinfo' = plinfo /\ ~(uris = <<>> /\ files = <<>>)
      BY <2>1, <2>2, <2>4, <2>7
    <3>2. /\ \A i \in DOMAIN uris : plinfo'.at[i - 1] = [type |-> "u", info |-> uris[i]]
          /\ \A i \in DOMAIN files : plinfo'.at[Len(uris) + i - 1] = [type |-> "b", info |-> files[i]]
          /\ plinfo'.cnt = Len(uris) + Len(files)
      BY <2>2, <2>4, <3>1
    <3> QED
      BY <2>5, <3>1, <3>2 DEF PayloadsAsConfigured, uris, files
  <2>8. CASE plinfo.cnt = 0
    <3>1. uris = <<>> /\ files = <<>> /\ DOMAIN uris = {} /\ DOMAIN files = {}
      BY <2>2, <2>4, <2>8
    <3>2. Array(b) /\ b.cnt = 1
      BY <2>6, <2>8, CountedOnlyKeeps, ArrayEnded DEF b
    <3>3. Put(b, x).cnt = 1 /\ Put(b, x).at[0] = x
      BY <3>2, PutKeeps
    <3>4. plinfo'.cnt = 1 /\ plinfo'.at[0] = x
      BY <2>1, <2>8, <3>3
    <3> QED
      BY <2>5, <3>1, <3>4 DEF PayloadsAsConfigured, uris, files, x
  <2> QED
    BY <2>7, <2>8
<1> QED
  BY <1>2, <1>6, <1>8, <1>9, <1>10
-----------------------------------------------------------------------------
(* What holds from the start of the daemon to the end of its options, and    *)
(* after the check.                                                          *)
Started ==
  /\ Startable(cfg, devs) /\ argv = Argv(cfg, devs) /\ optind \in Nat
  /\ pc \in {"options", "check", "daemon", "log", "run", "free"}
  /\ pc = "options" => Roomy(plinfo) /\ Roomy(iface)
  /\ pc # "free" => Context /\ ReadInterfaces
  /\ pc \in {"options", "check"} => ReadContext /\ ReadPayloads
  /\ pc \notin {"options", "free"} => NoneLeft
  /\ pc \in {"daemon", "log", "run"} =>
       ~ctx.daemon /\ ~ctx.killproc /\ FlagsAsConfigured /\ ValuesAsConfigured /\ PayloadsAsConfigured

LineInv ==
  /\ Section(cfg)
  /\ phase \in {"edit", "saved"} => Init /\ optind = 0
  /\ phase = "started" => Started

LEMMA NothingRead ==
  Section(cfg) /\ Startable(cfg, devs) /\ argv = Argv(cfg, devs) /\ Init /\ optind = 0 => Started
<1> SUFFICES ASSUME Section(cfg), Startable(cfg, devs), argv = Argv(cfg, devs), Init, optind = 0 PROVE Started
  OBVIOUS
<1>1. Parts
  BY LineHasParts
<1>2. pc = "options" /\ ctx = Defaults /\ plinfo = NewArray /\ iface = NewArray
  BY DEF Init
<1>3. Array(plinfo) /\ Roomy(plinfo) /\ plinfo.cnt = 0 /\ Array(iface) /\ Roomy(iface) /\ iface.cnt = 0
  BY <1>2, NewArrayIsArray DEF NewArray
<1>4. Context
  <2>1. DOMAIN Defaults = Field
    BY DEF Defaults, Field, Flag, Mark, Setting
  <2>2. Defaults = [x \in DOMAIN Defaults |-> Defaults[x]]
    BY DEF Defaults
  <2> QED
    BY <1>2, <2>1, <2>2 DEF Context
<1>5. \A p \in DOMAIN argv : ~Done(p)
  <2>1. DOMAIN argv = 1..LogAt
    BY <1>1, Zenon DEF Parts
  <2> QED
    BY <2>1 DEF Done
<1>6. ReadContext
  <2>1. ~ctx.daemon /\ ~ctx.killproc
    BY <1>2 DEF Defaults
  <2> QED
    BY <1>1, <1>2, <1>5, <2>1, LinePlaces DEF ReadContext
<1>7. ReadPayloads
  BY <1>3 DEF ReadPayloads
<1>8. ReadInterfaces
  BY <1>1, <1>3, <1>5, LinePlaces DEF ReadInterfaces
<1> QED
  BY <1>2, <1>3, <1>4, <1>6, <1>7, <1>8 DEF Started

LEMMA ArgumentKeepsStarted ==
  ASSUME Section(cfg), Started, UNCHANGED <<cfg, devs, argv>>,
         NEW k \in DOMAIN argv, NextIs(k), ReadsArgument(argv[k]), optind' = k
  PROVE  Started'
<1>1. Parts /\ optind \in Nat /\ Startable(cfg, devs) /\ argv = Argv(cfg, devs)
  BY LineHasParts DEF Started
<1>2. Reading(k) /\ argv[k].given
  BY DEF Reading, NextIs
<1>3. /\ pc = "options"
      /\ ReadsContext(k) \/ ReadsPayload(k) \/ \E p \in 1..Len(Named(cfg, devs)) : ReadsInterface(k, p)
  BY <1>1, <1>2, KindsRead
<1>4. Context /\ ReadContext /\ ReadPayloads /\ ReadInterfaces /\ Roomy(plinfo) /\ Roomy(iface)
  BY <1>3 DEF Started
<1>5. k \in Nat
  BY <1>1, <1>2, NextDone
<1>6. (Startable(cfg, devs) /\ argv = Argv(cfg, devs) /\ optind \in Nat)'
  BY <1>1, <1>5
<1>7. CASE pc' = "free"
  BY <1>6, <1>7 DEF Started
<1>8. CASE pc' = pc
  <2>1. Context' /\ ReadContext' /\ ReadPayloads' /\ ReadInterfaces' /\ Roomy(plinfo)' /\ Roomy(iface)'
    <3>1. ASSUME ReadsContext(k)
          PROVE  Context' /\ ReadContext' /\ ReadPayloads' /\ ReadInterfaces' /\ Roomy(plinfo)' /\ Roomy(iface)'
      <4>1. k \in CtxAt /\ UNCHANGED <<plinfo, iface>> /\ ~RefusedAt(k)
            /\ ctx' = [ctx EXCEPT ![FieldAt(k)] = ValueAt(k)]
        BY <1>3, <1>8, <3>1 DEF ReadsContext
      <4>2. k \notin 9..ValuesAt /\ \A p \in 1..Len(Named(cfg, devs)) : k # AllAt + p
        BY <1>1, <4>1, LinePlaces
      <4>3. Context' /\ ReadContext'
        BY <1>1, <1>2, <1>4, <4>1, ContextRead
      <4>4. ReadPayloads' /\ ReadInterfaces'
        BY <1>1, <1>2, <1>4, <4>1, <4>2, PayloadsKept, InterfacesKept
      <4> QED
        BY <1>4, <4>1, <4>3, <4>4 DEF Roomy
    <3>2. ASSUME ReadsPayload(k)
          PROVE  Context' /\ ReadContext' /\ ReadPayloads' /\ ReadInterfaces' /\ Roomy(plinfo)' /\ Roomy(iface)'
      <4>1. k \in 9..ValuesAt /\ UNCHANGED <<ctx, iface>>
        BY <3>2 DEF ReadsPayload
      <4>2. k \notin CtxAt /\ \A p \in 1..Len(Named(cfg, devs)) : k # AllAt + p
        BY <1>1, <4>1, LinePlaces
      <4>3. Context' /\ ReadContext'
        BY <1>1, <1>2, <1>4, <4>1, <4>2, ContextKept
      <4>4. ReadPayloads' /\ Roomy(plinfo)'
        BY <1>1, <1>2, <1>4, <3>2, PayloadRead
      <4>5. ReadInterfaces'
        BY <1>1, <1>2, <1>4, <4>1, <4>2, InterfacesKept
      <4> QED
        BY <1>4, <4>1, <4>3, <4>4, <4>5 DEF Roomy
    <3>3. ASSUME NEW p \in 1..Len(Named(cfg, devs)), ReadsInterface(k, p)
          PROVE  Context' /\ ReadContext' /\ ReadPayloads' /\ ReadInterfaces' /\ Roomy(plinfo)' /\ Roomy(iface)'
      <4>1. k = AllAt + p /\ UNCHANGED <<ctx, plinfo>>
        BY <3>3 DEF ReadsInterface
      <4>2. k \notin CtxAt /\ k \notin 9..ValuesAt
        BY <1>1, <4>1, LinePlaces
      <4>3. Context' /\ ReadContext'
        BY <1>1, <1>2, <1>4, <4>1, <4>2, ContextKept
      <4>4. ReadPayloads'
        BY <1>1, <1>2, <1>4, <4>1, <4>2, PayloadsKept
      <4>5. ReadInterfaces' /\ Roomy(iface)'
        BY <1>1, <1>2, <1>4, <3>3, InterfaceRead
      <4> QED
        BY <1>4, <4>1, <4>3, <4>4, <4>5 DEF Roomy
    <3> QED
      BY <1>3, <3>1, <3>2, <3>3
  <2> QED
    BY <1>3, <1>6, <1>8, <2>1 DEF Started
<1> QED
  BY <1>3, <1>7, <1>8 DEF ReadsContext, ReadsPayload, ReadsInterface

(* What has been read stays read.                                            *)
LEMMA ReadStays ==
  ASSUME UNCHANGED <<cfg, devs, argv, optind>>
  PROVE  /\ ReadInterfaces /\ UNCHANGED iface => ReadInterfaces'
         /\ ReadPayloads /\ UNCHANGED plinfo => ReadPayloads'
         /\ ReadContext /\ UNCHANGED ctx => ReadContext'
<1>1. /\ ValuesAt' = ValuesAt /\ AllAt' = AllAt /\ CtxAt' = CtxAt /\ Named(cfg, devs)' = Named(cfg, devs)
      /\ \A p : FieldAt(p)' = FieldAt(p) /\ ValueAt(p)' = ValueAt(p) /\ RefusedAt(p)' = RefusedAt(p)
  BY Unmoved
<1>2. \A p : Done(p)' <=> Done(p)
  BY DEF Done
<1>3. \A p : Done(AllAt + p)' <=> Done(AllAt + p)
  BY <1>1 DEF Done
<1>4. ASSUME ReadInterfaces, UNCHANGED iface PROVE ReadInterfaces'
  <2> DEFINE names == Named(cfg, devs)
             last == iface.cnt - 1
  <2>1. /\ \A i \in 0..last : \E p \in 1..Len(names) : Done(AllAt + p) /\ iface.at[i] = names[p]
        /\ \A p \in 1..Len(names) : Done(AllAt + p) => \E i \in 0..last : iface.at[i] = names[p]
    BY <1>4 DEF ReadInterfaces
  <2>2. names' = names /\ last' = last /\ iface' = iface
    BY <1>1, <1>4
  <2> HIDE DEF names, last
  <2>3. /\ \A i \in 0..last' : \E p \in 1..Len(names') : Done(AllAt + p)' /\ iface'.at[i] = names'[p]
        /\ \A p \in 1..Len(names') : Done(AllAt + p)' => \E i \in 0..last' : iface'.at[i] = names'[p]
    BY <1>3, <2>1, <2>2
  <2>4. Array(iface)' /\ \A i, j \in 0..(iface'.cnt - 1) : iface'.at[i] = iface'.at[j] => i = j
    BY <1>4 DEF ReadInterfaces, Array
  <2> QED
    BY <2>3, <2>4 DEF ReadInterfaces, names, last
<1>5. ReadPayloads /\ UNCHANGED plinfo => ReadPayloads'
  BY <1>1 DEF ReadPayloads, Array
<1>6. ReadContext /\ UNCHANGED ctx => ReadContext'
  BY <1>1, <1>2 DEF ReadContext
<1> QED
  BY <1>4, <1>5, <1>6

LEMMA StageKeepsStarted ==
  ASSUME Section(cfg), Started, UNCHANGED <<cfg, devs, argv, optind>>, NoneLeft,
         EndOfOptions \/ Check \/ Daemonise(FALSE) \/ OpenLog(FALSE)
  PROVE  Started'
<1>1. Parts /\ optind \in Nat /\ Startable(cfg, devs) /\ argv = Argv(cfg, devs)
  BY LineHasParts DEF Started
<1>2. (Startable(cfg, devs) /\ argv = Argv(cfg, devs) /\ optind \in Nat /\ NoneLeft)'
  BY <1>1 DEF NoneLeft
<1>3. ReadInterfaces /\ UNCHANGED iface => ReadInterfaces'
  BY ReadStays
<1>4. CASE EndOfOptions
  <2>1. pc = "options" /\ UNCHANGED <<ctx, plinfo, iface>>
    BY <1>4 DEF EndOfOptions
  <2>2. Context /\ ReadContext /\ ReadPayloads /\ ReadInterfaces
    BY <2>1 DEF Started
  <2>3. pc' = "check"
    BY <1>4, <2>2 DEF EndOfOptions, ReadContext
  <2>4. ReadPayloads'
    BY <2>1, <2>2, ReadStays
  <2>5. ReadContext' /\ Context'
    BY <2>1, <2>2, ReadStays DEF Context
  <2> QED
    BY <1>2, <1>3, <2>1, <2>2, <2>3, <2>4, <2>5 DEF Started
<1>5. CASE Check
  <2>1. pc = "check" /\ UNCHANGED iface /\ pc' \in {"daemon", "free"}
    BY <1>5 DEF Check, Fail
  <2>2. Context /\ ReadContext /\ ReadPayloads /\ ReadInterfaces
    BY <2>1 DEF Started
  <2>3. /\ Context' /\ ~ctx'.daemon /\ ~ctx'.killproc
        /\ FlagsAsConfigured' /\ ValuesAsConfigured' /\ (pc' = "daemon" => PayloadsAsConfigured')
    BY <1>1, <1>5, <2>2, CheckConfigures
  <2> QED
    BY <1>2, <1>3, <2>1, <2>2, <2>3 DEF Started
<1>6. CASE Daemonise(FALSE) \/ OpenLog(FALSE)
  <2>1. pc \in {"daemon", "log"} /\ UNCHANGED <<plinfo, iface>>
    BY <1>6 DEF Daemonise, OpenLog
  <2>2. /\ Context /\ ReadInterfaces /\ ~ctx.daemon /\ ~ctx.killproc
        /\ FlagsAsConfigured /\ ValuesAsConfigured /\ PayloadsAsConfigured
    BY <2>1 DEF Started
  <2>3. UNCHANGED ctx /\ pc' \in {"log", "run"}
    BY <1>6, <2>2 DEF Daemonise, OpenLog
  <2>4. Context' /\ FlagsAsConfigured' /\ ValuesAsConfigured'
    BY <2>2, <2>3 DEF Context, FlagsAsConfigured, ValuesAsConfigured, On, Set, Given
  <2>5. PayloadsAsConfigured'
    BY <2>1, <2>2 DEF PayloadsAsConfigured
  <2> QED
    BY <1>2, <1>3, <2>1, <2>2, <2>3, <2>4, <2>5 DEF Started
<1> QED
  BY <1>4, <1>5, <1>6

LEMMA ShippedIsSection == Section(Shipped)
<1>1. \A o \in Lists : IsList(Shipped[o])
  BY SectionAssumption, Zenon
<1>2. \A o \in Switches : Shipped[o] \in BOOLEAN \cup {Unset}
  BY SectionAssumption
<1>3. \A o \in Numbers : Shipped[o] \in Text \cup {Unset}
  BY SectionAssumption
<1> QED
  BY <1>1, <1>2, <1>3 DEF Section

LEMMA EditedIsSection ==
  ASSUME NEW c, Section(c), NEW o \in DOMAIN Values, NEW v \in Values[o]
  PROVE  Section([c EXCEPT ![o] = v])
<1>1. \A l \in Lists : \A w \in Values[l] : IsList(w)
  BY SectionAssumption
<1>2. \A s \in Switches : \A w \in Values[s] : w \in BOOLEAN \cup {Unset}
  BY SectionAssumption
<1>n. \A s \in Numbers : \A w \in Values[s] : w \in Text \cup {Unset}
  BY SectionAssumption
<1>3. /\ Lists \subseteq DOMAIN Shipped /\ Switches \subseteq DOMAIN Shipped /\ Numbers \subseteq DOMAIN Shipped
      /\ DOMAIN c = DOMAIN Shipped /\ DOMAIN Values = DOMAIN Shipped
  BY SectionAssumption DEF Section
<1> DEFINE d == [c EXCEPT ![o] = v]
<1>4. DOMAIN d = DOMAIN c /\ \A x \in DOMAIN c : d[x] = IF x = o THEN v ELSE c[x]
  OBVIOUS
<1> HIDE DEF d
<1>5. \A l \in Lists : IsList(d[l])
  BY <1>1, <1>3, <1>4 DEF Section
<1>6. \A s \in Switches : d[s] \in BOOLEAN \cup {Unset}
  BY <1>2, <1>3, <1>4 DEF Section
<1>7. \A s \in Numbers : d[s] \in Text \cup {Unset}
  BY <1>n, <1>3, <1>4 DEF Section
<1>8. Section(d)
  BY <1>3, <1>4, <1>5, <1>6, <1>7 DEF Section
<1> QED
  BY <1>8 DEF d

LEMMA NumberNames == Numbers = {"queue_num", "fwmark", "fwmask", "repeat", "ttl", "dynamic_pct"}
<1>1. /\ ValueArgs[1].option = "queue_num" /\ ValueArgs[2].option = "fwmark" /\ ValueArgs[3].option = "fwmask"
      /\ ValueArgs[4].option = "repeat" /\ ValueArgs[5].option = "ttl" /\ ValueArgs[6].option = "dynamic_pct"
      /\ DOMAIN ValueArgs = 1..6
  BY DEF ValueArgs
<1>2. \A i \in 1..6 : i = 1 \/ i = 2 \/ i = 3 \/ i = 4 \/ i = 5 \/ i = 6
  OBVIOUS
<1>3. \A i \in 1..6 :
        ValueArgs[i].option \in {"queue_num", "fwmark", "fwmask", "repeat", "ttl", "dynamic_pct"}
  BY <1>1, <1>2
<1>4. 1 \in 1..6 /\ 2 \in 1..6 /\ 3 \in 1..6 /\ 4 \in 1..6 /\ 5 \in 1..6 /\ 6 \in 1..6
  OBVIOUS
<1> QED
  BY <1>1, <1>3, <1>4 DEF Numbers

LEMMA DefaultsAreTexts == \A o \in Numbers : o \in DOMAIN FormDefault /\ FormDefault[o] \in Text
<1>1. {"0", "1", "3", "5"} \subseteq Char
  <2>1. {Digit[1], Digit[2], Digit[4], Digit[6]} \subseteq ToSet(Digit)
    BY DEF ToSet, Digit
  <2>2. Digit[1] = "0" /\ Digit[2] = "1" /\ Digit[4] = "3" /\ Digit[6] = "5"
    BY DEF Digit
  <2> QED
    BY <2>1, <2>2 DEF Char, DigitOf
<1>2. /\ <<"5", "1", "3">> \in Seq(Char) /\ <<"1">> \in Seq(Char) /\ <<"3">> \in Seq(Char)
      /\ <<"0">> \in Seq(Char)
  <2> HIDE DEF Char
  <2> QED
    BY <1>1
<1>3. /\ FormDefault["queue_num"] = <<"5", "1", "3">> /\ FormDefault["fwmark"] = MarkText
      /\ FormDefault["fwmask"] = MarkText /\ FormDefault["repeat"] = <<"1">>
  BY DEF FormDefault
<1>4. FormDefault["ttl"] = <<"3">> /\ FormDefault["dynamic_pct"] = <<"0">>
  BY DEF FormDefault
<1>5. Numbers \subseteq DOMAIN FormDefault
  BY NumberNames DEF FormDefault
<1>6. \A o \in Numbers : FormDefault[o] \in {<<"5", "1", "3">>, MarkText, <<"1">>, <<"3">>, <<"0">>}
  BY <1>3, <1>4, NumberNames
<1> QED
  BY <1>2, <1>5, <1>6, MarkTextAssumption DEF Text

LEMMA FormIsSection == ASSUME NEW c, Section(c) PROVE Section(Form(c))
<1>1. (Lists \cup Switches) \cap ({"interface_mode"} \cup DOMAIN FormDefault) = {}
  <2>1. /\ FlagArgs[1].option = "inbound" /\ FlagArgs[2].option = "outbound" /\ FlagArgs[3].option = "ipv4"
        /\ FlagArgs[4].option = "ipv6" /\ FlagArgs[5].option = "no_hop_estimate"
        /\ FlagArgs[6].option = "skip_firewall" /\ FlagArgs[7].option = "use_iptables"
        /\ FlagArgs[8].option = "silent" /\ DOMAIN FlagArgs = 1..8
    BY DEF FlagArgs
  <2>2. \A i \in 1..8 : i = 1 \/ i = 2 \/ i = 3 \/ i = 4 \/ i = 5 \/ i = 6 \/ i = 7 \/ i = 8
    OBVIOUS
  <2>3. Switches \subseteq {"enabled", "all_interfaces", "inbound", "outbound", "ipv4", "ipv6", "no_hop_estimate",
                            "skip_firewall", "use_iptables", "silent"}
    BY <2>1, <2>2 DEF Switches
  <2>4. DOMAIN FormDefault = {"queue_num", "fwmark", "fwmask", "repeat", "ttl", "dynamic_pct", "sip_profile"}
    BY DEF FormDefault
  <2> QED
    BY <2>3, <2>4 DEF Lists
<1>2. Lists \cup Switches \subseteq DOMAIN c
  BY SectionAssumption DEF Section
<1>3. DOMAIN Form(c) = DOMAIN c /\ \A o \in Lists \cup Switches : Form(c)[o] = c[o]
  BY <1>1, <1>2 DEF Form
<1>4. ASSUME NEW o \in Numbers PROVE Form(c)[o] \in Text \cup {Unset}
  <2>1. o \in DOMAIN c /\ c[o] \in Text \cup {Unset}
    BY SectionAssumption DEF Section
  <2>2. o # "interface_mode"
    BY NumberNames
  <2>3. Form(c)[o] = IF o \in DOMAIN FormDefault /\ c[o] = Unset THEN FormDefault[o] ELSE c[o]
    BY <2>1, <2>2 DEF Form
  <2> QED
    BY <2>1, <2>3, DefaultsAreTexts
<1> QED
  BY <1>3, <1>4 DEF Section

LEMMA LineInvKept == LineInv /\ [ServiceNext]_<<vars, svars>> => LineInv'
<1> SUFFICES ASSUME LineInv, [ServiceNext]_<<vars, svars>> PROVE LineInv'
  OBVIOUS
<1>1. ASSUME NEW o \in DOMAIN Values, NEW v \in Values[o], Edit(o, v) PROVE LineInv'
  <2>1. Section(cfg')
    BY <1>1, EditedIsSection DEF LineInv, Edit
  <2>2. phase' = "edit" /\ (Init /\ optind = 0)'
    BY <1>1 DEF LineInv, Edit, vars, Init
  <2> QED
    BY <2>1, <2>2 DEF LineInv
<1>2. CASE Save
  <2>1. Section(cfg')
    BY <1>2, FormIsSection DEF LineInv, Save
  <2>2. phase' = "saved" /\ (Init /\ optind = 0)'
    BY <1>2 DEF LineInv, Save, vars, Init
  <2> QED
    BY <2>1, <2>2 DEF LineInv
<1>3. ASSUME NEW view \in Views, start_instance(view) PROVE LineInv'
  <2>1. Section(cfg)' /\ (Init /\ optind = 0)'
    BY <1>3 DEF LineInv, start_instance, vars, Init
  <2>2. CASE Startable(cfg, view)
    <3>1. phase' = "started" /\ (Startable(cfg, devs) /\ argv = Argv(cfg, devs))'
      BY <1>3, <2>2 DEF start_instance
    <3>2. Started'
      BY <2>1, <3>1, NothingRead, PTL
    <3> QED
      BY <2>1, <3>1, <3>2 DEF LineInv
  <2>3. CASE ~Startable(cfg, view)
    <3>1. phase' = "off"
      BY <1>3, <2>3 DEF start_instance
    <3> QED
      BY <2>1, <3>1 DEF LineInv
  <2> QED
    BY <2>2, <2>3
<1>4. CASE Main
  <2>1. Section(cfg) /\ Started /\ phase = "started" /\ UNCHANGED <<phase, cfg, devs, argv>>
    BY <1>4 DEF LineInv, Main
  <2>2. Started'
    <3>1. ASSUME NEW k \in DOMAIN argv, NextIs(k), ReadsArgument(argv[k]), optind' = k PROVE Started'
      BY <2>1, <3>1, ArgumentKeepsStarted
    <3>2. ASSUME NoneLeft, EndOfOptions \/ Check \/ Daemonise(FALSE) \/ OpenLog(FALSE), UNCHANGED optind PROVE Started'
      BY <2>1, <3>2, StageKeepsStarted
    <3> QED
      BY <1>4, <3>1, <3>2 DEF Main
  <2> QED
    BY <2>1, <2>2 DEF LineInv
<1>5. CASE Shell
  <2>1. Section(cfg') /\ phase' = "shell"
    BY <1>5 DEF LineInv, Shell
  <2> QED
    BY <2>1 DEF LineInv
<1>6. CASE UNCHANGED <<vars, svars>>
  <2>1. UNCHANGED <<pc, ctx, plinfo, iface, logfp, freed, taken, phase, cfg, devs, argv, optind>>
    BY <1>6 DEF vars, svars
  <2>2. Section(cfg)' /\ (phase' \in {"edit", "saved"} => (Init /\ optind = 0)')
    BY <2>1 DEF LineInv, Init
  <2>3. phase' = "started" => Started'
    <3>1. phase = "started" => Started
      BY DEF LineInv
    <3>2. /\ (ReadContext => ReadContext') /\ (ReadPayloads => ReadPayloads') /\ (ReadInterfaces => ReadInterfaces')
          /\ (Context => Context') /\ (NoneLeft => NoneLeft')
      BY <2>1, ReadStays DEF Context, NoneLeft
    <3>3. /\ FlagsAsConfigured => FlagsAsConfigured'
          /\ ValuesAsConfigured => ValuesAsConfigured'
          /\ PayloadsAsConfigured => PayloadsAsConfigured'
      BY <2>1 DEF FlagsAsConfigured, ValuesAsConfigured, PayloadsAsConfigured, On, Set, Given
    <3> QED
      BY <2>1, <3>1, <3>2, <3>3 DEF Started, Roomy
  <2> QED
    BY <2>2, <2>3 DEF LineInv
<1> QED
  BY <1>1, <1>2, <1>3, <1>4, <1>5, <1>6 DEF ServiceNext

LEMMA LineInvariance == ServiceSpec => []LineInv
<1>1. ServiceInit => LineInv
  BY ShippedIsSection DEF ServiceInit, LineInv
<1> QED
  BY <1>1, LineInvKept, PTL DEF ServiceSpec

(* Whatever the section and the networks are, a daemon that gets to run has  *)
(* the flags, values, interfaces and payloads of the section, no more and no *)
(* fewer (fakesip.init:137-253, mainfun.c:154-417).                          *)
THEOREM DaemonRunsAsConfigured == ServiceSpec => []RunsAsConfigured
<1>1. LineInv => RunsAsConfigured
  <2> SUFFICES ASSUME LineInv, phase = "started", pc = "run"
               PROVE  FlagsAsConfigured /\ ValuesAsConfigured /\ InterfacesAsConfigured /\ PayloadsAsConfigured
    BY DEF RunsAsConfigured
  <2>1. Section(cfg) /\ Started
    BY DEF LineInv
  <2>2. Parts
    BY <2>1, LineHasParts DEF Started
  <2>3. optind \in Nat /\ NoneLeft /\ ReadInterfaces /\ FlagsAsConfigured /\ ValuesAsConfigured /\ PayloadsAsConfigured
    BY <2>1 DEF Started
  <2> QED
    BY <2>1, <2>2, <2>3, InterfacesRead
<1> QED
  BY <1>1, LineInvariance, PTL
-----------------------------------------------------------------------------
(* What is no digit.                                                        *)
LEMMA DigitsApart ==
  /\ DOMAIN DigitOf \cap {"x", ".", "+", "-", " "} = {}
  /\ "0" \in DOMAIN DigitOf /\ "0" \notin {"x", ".", "+", "-", " "}
<1> DEFINE apart(c) == c # "x" /\ c # "." /\ c # "+" /\ c # "-" /\ c # " "
<1>1. /\ DOMAIN Digit = 1..16
      /\ Digit[1] = "0" /\ Digit[2] = "1" /\ Digit[3] = "2" /\ Digit[4] = "3" /\ Digit[5] = "4"
      /\ Digit[6] = "5" /\ Digit[7] = "6" /\ Digit[8] = "7" /\ Digit[9] = "8" /\ Digit[10] = "9"
      /\ Digit[11] = "a" /\ Digit[12] = "b" /\ Digit[13] = "c" /\ Digit[14] = "d" /\ Digit[15] = "e"
      /\ Digit[16] = "f"
  BY DEF Digit
<1>2. /\ apart(Digit[1]) /\ apart(Digit[2]) /\ apart(Digit[3]) /\ apart(Digit[4])
      /\ apart(Digit[5]) /\ apart(Digit[6]) /\ apart(Digit[7]) /\ apart(Digit[8])
  BY <1>1
<1>3. /\ apart(Digit[9]) /\ apart(Digit[10]) /\ apart(Digit[11]) /\ apart(Digit[12])
      /\ apart(Digit[13]) /\ apart(Digit[14]) /\ apart(Digit[15]) /\ apart(Digit[16])
  BY <1>1
<1> HIDE DEF apart
<1>4. \A i \in 1..16 : \/ i = 1 \/ i = 2 \/ i = 3 \/ i = 4 \/ i = 5 \/ i = 6 \/ i = 7 \/ i = 8
                       \/ i = 9 \/ i = 10 \/ i = 11 \/ i = 12 \/ i = 13 \/ i = 14 \/ i = 15 \/ i = 16
  OBVIOUS
<1>5. \A i \in 1..16 : apart(Digit[i])
  BY <1>2, <1>3, <1>4, Zenon
<1>6. DOMAIN DigitOf = {Digit[i] : i \in 1..16}
  BY <1>1, Zenon DEF DigitOf, ToSet
<1>7. \A c \in DOMAIN DigitOf : apart(c)
  BY <1>5, <1>6, Zenon
<1>8. "0" \in DOMAIN DigitOf
  <2>1. 1 \in 1..16
    OBVIOUS
  <2> QED
    BY <1>1, <1>6, <2>1, Zenon
<1> QED
  BY <1>7, <1>8, Zenon DEF apart

(* The numerals.  The digits that go on from a position reach the end if    *)
(* and only if there is nothing but digits.                                 *)
LEMMA DigitRun ==
  ASSUME NEW s \in Seq(Char), NEW base \in {10, 16}, NEW i \in 1..Len(s),
         NEW last, last = i + Cardinality(DigitsFrom(s, i, base)) - 1
  PROVE  last \in (i - 1)..Len(s) /\ (last = Len(s) <=> AllDigits(s, i, base))
<1> DEFINE run == DigitsFrom(s, i, base)
<1>1. Len(s) \in Nat
  OBVIOUS
<1>2. run \in SUBSET (i..Len(s))
  BY DEF DigitsFrom
<1>3. IsFiniteSet(i..Len(s)) /\ Cardinality(i..Len(s)) = Len(s) - i + 1
  BY <1>1, FS_Interval
<1>4. /\ IsFiniteSet(run) /\ Cardinality(run) <= Len(s) - i + 1
      /\ (Len(s) - i + 1 = Cardinality(run) => i..Len(s) = run)
  <2> HIDE DEF run
  <2> QED BY <1>2, <1>3, FS_Subset
<1>5. Cardinality(run) \in Nat
  BY <1>4, FS_CardinalityType
<1>6. i..Len(s) = run <=> AllDigits(s, i, base)
  <2>1. ASSUME AllDigits(s, i, base) PROVE i..Len(s) = run
    BY <1>1, <2>1 DEF AllDigits, DigitsFrom
  <2>2. ASSUME i..Len(s) = run PROVE AllDigits(s, i, base)
    <3>1. Len(s) \in run
      BY <1>1, <2>2
    <3> QED BY <1>1, <3>1 DEF AllDigits, DigitsFrom
  <2> QED BY <2>1, <2>2
<1>7. last = Len(s) <=> Cardinality(run) = Len(s) - i + 1
  <2> HIDE DEF run
  <2>1. last = i + Cardinality(run) - 1
    BY DEF run
  <2> QED BY <1>1, <1>5, <2>1
<1>8. last \in (i - 1)..Len(s)
  <2> HIDE DEF run
  <2>1. last = i + Cardinality(run) - 1
    BY DEF run
  <2> QED BY <1>1, <1>4, <1>5, <2>1
<1>9. last = Len(s) => i..Len(s) = run
  BY <1>4, <1>7
<1>10. i..Len(s) = run => Cardinality(run) = Len(s) - i + 1
  BY <1>3
<1> QED BY <1>6, <1>7, <1>8, <1>9, <1>10

(* A text that starts with neither space nor sign is read from its start.   *)
LEMMA ReadFromStart ==
  ASSUME NEW s \in Seq(Char), s # <<>>, s[1] \notin Sign \cup Space
  PROVE  FirstOther(s, Space) = 1 /\ ~At(s, 1, Sign)
<1>1. Len(s) \in Nat \ {0}
  BY EmptySeq
<1>2. ~At(s, 1, Space) /\ ~At(s, 1, Sign)
  BY DEF At
<1>3. 1 \in 1..(Len(s) + 1) /\ \A j \in 1..(1 - 1) : At(s, j, Space)
  BY <1>1
<1>4. \A i \in 1..(Len(s) + 1) : (\A j \in 1..(i - 1) : At(s, j, Space)) => i = 1
  BY <1>1, <1>2
<1> QED BY <1>2, <1>3, <1>4 DEF FirstOther

(* What parse_ull makes of what strtoull read, from first to last.          *)
LEMMA WhatIsRead ==
  ASSUME NEW s \in Seq(Char), s # <<>>, s[1] \notin Sign \cup Space, NEW first \in {1, 3}, NEW last,
         first = IF /\ Base(s) = 16 /\ At(s, 1, {"0"}) /\ At(s, 2, {"x"})
                    /\ 3 <= Len(s) /\ IsDigit(s[3], 16)
                 THEN 3 ELSE 1,
         last = first + Cardinality(DigitsFrom(s, first, Base(s))) - 1
  PROVE  LET value == ValueOf(SubSeq(s, first, last), Base(s)) IN
         parse_ull(s) = IF value <= UllMax /\ (IF last < first THEN 0 ELSE last) = Len(s)
                        THEN value ELSE Refused
<1> DEFINE value == ValueOf(SubSeq(s, first, last), Base(s))
           end   == IF last < first THEN 0 ELSE last
<1>1. FirstOther(s, Space) = 1 /\ ~At(s, 1, Sign) /\ ~At(s, 1, {"-"})
  BY ReadFromStart DEF At, Sign
<1>2. 1 + 1 = 2 /\ 1 + 2 = 3
  OBVIOUS
<1>3. Strtoull(s, Base(s)) = [value    |-> IF ~(value <= UllMax) THEN UllMax ELSE value,
                              overflow |-> ~(value <= UllMax), end |-> end]
  BY <1>1, <1>2, Zenon DEF Strtoull
<1> HIDE DEF value, end
<1>4. parse_ull(s) = IF ~(value <= UllMax) \/ end # Len(s) THEN Refused
                     ELSE IF ~(value <= UllMax) THEN UllMax ELSE value
  <2> DEFINE r == Strtoull(s, Base(s))
  <2>1. parse_ull(s) = IF r.overflow \/ r.end # Len(s) THEN Refused ELSE r.value
    BY Zenon DEF parse_ull
  <2> HIDE DEF r
  <2>2. r = [value |-> IF ~(value <= UllMax) THEN UllMax ELSE value, overflow |-> ~(value <= UllMax), end |-> end]
    BY <1>3 DEF r
  <2>3. /\ r.overflow = ~(value <= UllMax) /\ r.end = end
        /\ r.value = IF ~(value <= UllMax) THEN UllMax ELSE value
    BY <2>2
  <2> QED BY <2>1, <2>3
<1>5. parse_ull(s) = IF value <= UllMax /\ end = Len(s) THEN value ELSE Refused
  BY <1>4
<1> QED BY <1>5 DEF value, end

(* A decimal numeral, read with base 10.                                    *)
LEMMA DecimalRead ==
  ASSUME NEW s \in Seq(Char), s # <<>>, s[1] \notin Sign \cup Space, Base(s) = 10
  PROVE  parse_ull(s) = IF Pattern(s) /\ NumberOf(s) <= UllMax THEN NumberOf(s) ELSE Refused
<1> DEFINE last == 1 + Cardinality(DigitsFrom(s, 1, 10)) - 1
<1>0. SubSeq(s, 1, Len(s)) = s
  BY SubSeqFull
<1>1. Len(s) \in Nat \ {0}
  BY EmptySeq
<1>2. last \in 0..Len(s) /\ (last = Len(s) <=> AllDigits(s, 1, 10))
  <2> HIDE DEF last
  <2>1. last = 1 + Cardinality(DigitsFrom(s, 1, 10)) - 1
    BY DEF last
  <2> QED BY <1>1, <2>1, DigitRun
<1>3. ~(At(s, 1, {"0"}) /\ At(s, 2, {"x"}))
  BY DEF Base
<1>4. ~Hexadecimal(s) /\ (Pattern(s) <=> AllDigits(s, 1, 10)) /\ NumberOf(s) = ValueOf(s, 10)
  BY <1>3 DEF Hexadecimal, Pattern, NumberOf
<1> HIDE DEF last
<1>5. last = 1 + Cardinality(DigitsFrom(s, 1, Base(s))) - 1
  BY DEF last
<1>6. parse_ull(s) = IF ValueOf(SubSeq(s, 1, last), 10) <= UllMax /\ (IF last < 1 THEN 0 ELSE last) = Len(s)
                     THEN ValueOf(SubSeq(s, 1, last), 10) ELSE Refused
  BY <1>3, <1>5, WhatIsRead
<1>7. (IF last < 1 THEN 0 ELSE last) = Len(s) <=> last = Len(s)
  BY <1>1, <1>2
<1>8. CASE last = Len(s)
  BY <1>0, <1>1, <1>2, <1>4, <1>6, <1>7, <1>8
<1>9. CASE last # Len(s)
  BY <1>2, <1>4, <1>6, <1>7, <1>9
<1> QED BY <1>8, <1>9

(* A text that starts with 0x: a numeral if there is nothing but digits      *)
(* after it; if not even one follows, only the zero is read.                *)
LEMMA HexadecimalRead ==
  ASSUME NEW s \in Seq(Char), s # <<>>, At(s, 1, {"0"}), At(s, 2, {"x"})
  PROVE  parse_ull(s) = IF Pattern(s) /\ NumberOf(s) <= UllMax THEN NumberOf(s) ELSE Refused
<1>1. Len(s) \in Nat /\ Len(s) >= 2 /\ s[1] = "0" /\ s[2] = "x"
  BY EmptySeq DEF At
<1>2. Base(s) = 16 /\ s[1] \notin Sign \cup Space
  BY <1>1 DEF Base, Sign, Space
<1>3. /\ ~IsDigit(s[2], 10) /\ ~IsDigit(s[2], 16)
  BY <1>1, DigitsApart DEF IsDigit
<1>4. ~AllDigits(s, 1, 10) /\ ~AllDigits(s, 1, 16)
  BY <1>1, <1>3 DEF AllDigits
<1>5. /\ Pattern(s) <=> AllDigits(s, 3, 16)
      /\ AllDigits(s, 3, 16) => NumberOf(s) = ValueOf(SubSeq(s, 3, Len(s)), 16)
  BY <1>4 DEF Pattern, Hexadecimal, NumberOf
<1>6. CASE 3 <= Len(s) /\ IsDigit(s[3], 16)
  <2> DEFINE last == 3 + Cardinality(DigitsFrom(s, 3, 16)) - 1
  <2>1. last = 3 + Cardinality(DigitsFrom(s, 3, Base(s))) - 1
    BY <1>2
  <2> HIDE DEF last
  <2>2. last \in 2..Len(s) /\ (last = Len(s) <=> AllDigits(s, 3, 16))
    <3>1. last = 3 + Cardinality(DigitsFrom(s, 3, 16)) - 1
      BY <1>2, <2>1
    <3>2. last \in (3 - 1)..Len(s) /\ (last = Len(s) <=> AllDigits(s, 3, 16))
      <4>1. 3 \in 1..Len(s) /\ 16 \in {10, 16}
        BY <1>1, <1>6
      <4> QED BY <3>1, <4>1, DigitRun
    <3> QED BY <3>2
  <2>3. parse_ull(s) = IF ValueOf(SubSeq(s, 3, last), 16) <= UllMax /\ (IF last < 3 THEN 0 ELSE last) = Len(s)
                       THEN ValueOf(SubSeq(s, 3, last), 16) ELSE Refused
    BY <1>2, <1>6, <2>1, WhatIsRead
  <2>4. (IF last < 3 THEN 0 ELSE last) = Len(s) <=> last = Len(s)
    BY <1>1, <1>6, <2>2
  <2>5. CASE last = Len(s)
    BY <1>5, <2>2, <2>3, <2>4, <2>5
  <2>6. CASE last # Len(s)
    BY <1>5, <2>2, <2>3, <2>4, <2>6
  <2> QED BY <2>5, <2>6
<1>7. CASE ~(3 <= Len(s) /\ IsDigit(s[3], 16))
  <2>1. ~AllDigits(s, 3, 16)
    BY <1>1, <1>7 DEF AllDigits
  <2> DEFINE last == 1 + Cardinality(DigitsFrom(s, 1, 16)) - 1
  <2>2. last = 1 + Cardinality(DigitsFrom(s, 1, Base(s))) - 1
    BY <1>2
  <2> HIDE DEF last
  <2>3. last \in 0..Len(s) /\ last # Len(s)
    BY <1>1, <1>2, <1>4, <2>2, DigitRun
  <2>4. parse_ull(s) = IF ValueOf(SubSeq(s, 1, last), 16) <= UllMax /\ (IF last < 1 THEN 0 ELSE last) = Len(s)
                       THEN ValueOf(SubSeq(s, 1, last), 16) ELSE Refused
    BY <1>2, <1>7, <2>2, WhatIsRead
  <2> QED BY <1>1, <1>5, <2>1, <2>3, <2>4
<1> QED BY <1>6, <1>7

(* What starts with space or a sign is no numeral.                          *)
LEMMA NoNumeral ==
  ASSUME NEW s \in Seq(Char), s = <<>> \/ s[1] \in Sign \cup Space
  PROVE  ~Pattern(s) /\ parse_ull(s) = Refused
<1>1. parse_ull(s) = Refused
  BY DEF parse_ull
<1>2. CASE s = <<>>
  <2>1. Len(s) = 0
    BY <1>2
  <2>2. ~AllDigits(s, 1, 10) /\ ~At(s, 1, {"0"})
    BY <2>1 DEF AllDigits, At
  <2> QED BY <1>1, <2>2 DEF Pattern, Hexadecimal
<1>3. CASE s # <<>> /\ s[1] \in Sign \cup Space
  <2>1. Len(s) \in Nat \ {0}
    BY <1>3, EmptySeq
  <2>2. ~IsDigit(s[1], 10) /\ s[1] # "0"
    BY <1>3, DigitsApart DEF IsDigit, Sign, Space
  <2>3. 1 \in 1..Len(s)
    BY <2>1
  <2>4. ~AllDigits(s, 1, 10) /\ ~At(s, 1, {"0"})
    BY <2>2, <2>3 DEF AllDigits, At
  <2> QED BY <1>1, <2>4 DEF Pattern, Hexadecimal
<1> QED BY <1>2, <1>3

LEMMA ExactFor ==
  ASSUME NEW s \in Seq(Char)
  PROVE  parse_ull(s) = IF Pattern(s) /\ NumberOf(s) <= UllMax THEN NumberOf(s) ELSE Refused
<1>1. CASE s = <<>> \/ s[1] \in Sign \cup Space
  BY <1>1, NoNumeral
<1>2. CASE s # <<>> /\ s[1] \notin Sign \cup Space /\ Base(s) = 10
  BY <1>2, DecimalRead
<1>3. CASE s # <<>> /\ s[1] \notin Sign \cup Space /\ Base(s) # 10
  <2>1. At(s, 1, {"0"}) /\ At(s, 2, {"x"})
    BY <1>3 DEF Base
  <2> QED BY <1>3, <2>1, HexadecimalRead
<1> QED BY <1>1, <1>2, <1>3

(* Whatever is typed, however long: the parser takes the numerals that fit  *)
(* and nothing else, and where the page passes a mark the daemon reads the  *)
(* same number (fakesip.js:114-126, mainfun.c:101-122, 274-281).            *)
THEOREM NumbersAgree == TextSpec => []SameNumbers
<1>1. TextInit => text \in Seq(Char)
  BY EmptySeq DEF TextInit
<1>2. text \in Seq(Char) /\ [TextNext]_text => (text \in Seq(Char))'
  BY TypedAssumption DEF TextNext
<1>3. text \in Seq(Char) => SameNumbers
  <2> SUFFICES ASSUME text \in Seq(Char) PROVE SameNumbers
    OBVIOUS
  <2>1. ParserExact
    BY ExactFor DEF ParserExact
  <2>2. PageWithinParser
    <3> SUFFICES ASSUME text = Trim(text), parseUint32(text) # Refused
                 PROVE  MarkValue(text) = parseUint32(text)
      BY DEF PageWithinParser
    <3>1. Pattern(text) /\ NumberOf(text) \in 1..Uint32Max /\ parseUint32(text) = NumberOf(text)
      BY Zenon DEF parseUint32
    <3>2. NumberOf(text) <= UllMax
      BY <3>1, NumeralsAssumption
    <3>3. parse_ull(text) = NumberOf(text)
      BY <2>1, <3>1, <3>2 DEF ParserExact
    <3> QED BY <3>1, <3>3 DEF MarkValue
  <2> QED BY <2>1, <2>2 DEF SameNumbers
<1> QED BY <1>1, <1>2, <1>3, PTL DEF TextSpec
-----------------------------------------------------------------------------
(* A plain numeral has neither sign nor fraction: range() compares the       *)
(* number main reads.                                                       *)
LEMMA PlainDigits ==
  ASSUME NEW s \in Seq(Char), Pattern(s)
  PROVE  Len(s) \in Nat \ {0} /\ s[1] \notin Space /\ s[Len(s)] \notin Space /\ ~At(s, 1, {"-"})
<1>1. Len(s) \in Nat
  OBVIOUS
<1>2. "-" \notin DOMAIN DigitOf /\ "0" \notin Space \cup {"-"} /\ DOMAIN DigitOf \cap Space = {}
  BY DigitsApart DEF Space
<1>3. CASE AllDigits(s, 1, 10)
  <2>1. 1 \in 1..Len(s) /\ Len(s) \in 1..Len(s)
    BY <1>1, <1>3 DEF AllDigits
  <2>2. s[1] \in DOMAIN DigitOf /\ s[Len(s)] \in DOMAIN DigitOf
    BY <1>3, <2>1 DEF AllDigits, IsDigit
  <2> QED
    BY <1>1, <1>2, <2>1, <2>2 DEF At
<1>4. CASE Hexadecimal(s)
  <2>1. s[1] = "0" /\ Len(s) >= 3 /\ Len(s) \in 3..Len(s)
    BY <1>1, <1>4 DEF Hexadecimal, At, AllDigits
  <2>2. s[Len(s)] \in DOMAIN DigitOf
    BY <1>4, <2>1 DEF Hexadecimal, AllDigits, IsDigit
  <2> QED
    BY <1>1, <1>2, <2>1, <2>2 DEF At
<1> QED
  BY <1>3, <1>4 DEF Pattern

LEMMA PlainIsTrimmed == ASSUME NEW s \in Seq(Char), Pattern(s) PROVE Trim(s) = s
<1> DEFINE kept == {i \in 1..Len(s) : s[i] \notin Space}
<1>1. Len(s) \in Nat \ {0} /\ 1 \in kept /\ Len(s) \in kept
  BY PlainDigits
<1>2. \A i \in kept : i \in 1..Len(s)
  OBVIOUS
<1>3. /\ \A i \in kept : (\A j \in kept : i <= j) => i = 1
      /\ \A i \in kept : (\A j \in kept : j <= i) => i = Len(s)
      /\ \A j \in kept : 1 <= j /\ j <= Len(s)
  <2> HIDE DEF kept
  <2> QED
    BY <1>1, <1>2
<1>4. kept # {} /\ Trim(s) = SubSeq(s, CHOOSE i \in kept : \A j \in kept : i <= j,
                                       CHOOSE i \in kept : \A j \in kept : j <= i)
  BY <1>1 DEF Trim
<1> HIDE DEF kept
<1>5. (CHOOSE i \in kept : \A j \in kept : i <= j) = 1
  BY <1>1, <1>3
<1>6. (CHOOSE i \in kept : \A j \in kept : j <= i) = Len(s)
  BY <1>1, <1>3
<1> QED
  BY <1>4, <1>5, <1>6, SubSeqFull

LEMMA RangeOfPlain ==
  ASSUME NEW s \in Seq(Char), Pattern(s), NEW lo, NEW hi, InRange(s, lo, hi)
  PROVE  NumberOf(s) \in lo..hi /\ (NumberOf(s) > 0 => Positive(s))
<1>1. Len(s) \in Nat \ {0} /\ ~At(s, 1, {"-"})
  BY PlainDigits
<1>2. Whole(s) = SubSeq(s, 1, Dot(s) - 1)
  BY <1>1, Zenon DEF Whole
<1>3. "." \notin DOMAIN DigitOf /\ "x" \notin DOMAIN DigitOf
  BY DigitsApart
<1>4. Dot(s) = Len(s) + 1
  <2>1. ASSUME NEW i \in 1..Len(s), s[i] = "." PROVE AllDigits(s, 1, 10) \/ Hexadecimal(s) => FALSE
    <3>1. AllDigits(s, 1, 10) => FALSE
      BY <1>3, <2>1 DEF AllDigits, IsDigit
    <3>2. Hexadecimal(s) => i # 1 /\ i # 2
      BY <2>1 DEF Hexadecimal, At
    <3>3. Hexadecimal(s) => FALSE
      BY <1>1, <1>3, <2>1, <3>2 DEF Hexadecimal, AllDigits, IsDigit
    <3> QED
      BY <3>1, <3>3
  <2>2. ~ \E i \in 1..Len(s) : s[i] = "."
    BY <2>1 DEF Pattern
  <2> QED
    BY <2>2 DEF Dot
<1>5. Whole(s) = s
  BY <1>1, <1>2, <1>4, SubSeqFull
<1>6. AllDigits(s, 1, 10) /\ WholeOf(s) \in lo..hi /\ WholeOf(s) = ValueOf(s, 10)
  BY <1>5 DEF InRange, Decimal, WholeOf
<1>7. ~Hexadecimal(s)
  BY <1>1, <1>3, <1>6 DEF Hexadecimal, At, AllDigits, IsDigit
<1> QED
  BY <1>1, <1>6, <1>7, Zenon DEF NumberOf, Positive

LEMMA RangeRead ==
  ASSUME NEW s \in Seq(Char), Pattern(s), NEW lo \in Nat, NEW hi \in Nat, hi <= UllMax, InRange(s, lo, hi)
  PROVE  /\ parse_ull(s) = NumberOf(s) /\ parse_ull(s) \in lo..hi
         /\ NumberOf(s) > 0 => Positive(s)
<1>1. NumberOf(s) \in lo..hi /\ (NumberOf(s) > 0 => Positive(s))
  BY RangeOfPlain
<1>2. UllMax \in Nat
  BY NumeralsAssumption
<1>3. ASSUME NEW n \in lo..hi PROVE n <= UllMax
  BY <1>2
<1>4. NumberOf(s) <= UllMax
  BY <1>1, <1>3
<1>5. parse_ull(s) = NumberOf(s)
  BY <1>4, ExactFor
<1> QED
  BY <1>1, <1>5

(* The numbers of a plain section, as the page and main read them.           *)
LEMMA PlainNumbers ==
  ASSUME Section(cfg), Accepted(cfg), Plain(cfg)
  PROVE  /\ parse_ull(cfg.queue_num) \in NfqNum /\ parse_ull(cfg.repeat) \in Repeat
         /\ parse_ull(cfg.ttl) \in TtlSet /\ parse_ull(cfg.dynamic_pct) \in 0..99
         /\ parse_ull(cfg.dynamic_pct) = 0 => cfg.dynamic_pct = NoShare
         /\ parse_ull(cfg.dynamic_pct) > 0 => Positive(cfg.dynamic_pct)
         /\ MarkBits(cfg.fwmark) # {} /\ MarkBits(cfg.fwmask) # {}
         /\ MarkBits(cfg.fwmark) \subseteq MarkBits(cfg.fwmask)
<1>0. InForm(cfg) /\ validateFirewallMask(cfg)
  BY Zenon DEF Accepted
<1>1. \A o \in Numbers : cfg[o] \in Seq(Char) /\ Pattern(cfg[o])
  <2>1. \A o \in Numbers : cfg[o] # Unset
    BY <1>0 DEF InForm, Set
  <2>2. \A o \in Numbers : cfg[o] \in Seq(Char) \cup {Unset}
    BY DEF Section, Text
  <2>3. \A o \in Numbers : Pattern(cfg[o])
    BY DEF Plain
  <2> QED
    BY <2>1, <2>2, <2>3
<1>2. /\ InRange(cfg.queue_num, 1, 65535) /\ InRange(cfg.repeat, 1, 10) /\ InRange(cfg.ttl, 1, 255)
      /\ InRange(cfg.dynamic_pct, 0, 99) /\ parseUint32(cfg.fwmark) # Refused
  BY <1>0 DEF InForm
<1>3. /\ parseUint32(cfg.fwmask) # Refused
      /\ BitsOf(parseUint32(cfg.fwmark)) \subseteq BitsOf(parseUint32(cfg.fwmask))
  BY <1>0, <1>2 DEF validateFirewallMask
<1>5. ASSUME NEW o \in Numbers, parseUint32(cfg[o]) # Refused
      PROVE  MarkBits(cfg[o]) = BitsOf(parseUint32(cfg[o])) /\ MarkBits(cfg[o]) # {}
  <2>1. cfg[o] \in Seq(Char) /\ Pattern(cfg[o]) /\ Trim(cfg[o]) = cfg[o]
    BY <1>1, PlainIsTrimmed
  <2>2. NumberOf(cfg[o]) \in 1..Uint32Max /\ parseUint32(cfg[o]) = NumberOf(cfg[o])
    BY <1>5, <2>1, Zenon DEF parseUint32
  <2>3. NumberOf(cfg[o]) <= UllMax
    BY <2>2, NumeralsAssumption
  <2>4. MarkValue(cfg[o]) = NumberOf(cfg[o])
    BY <2>1, <2>2, <2>3, ExactFor DEF MarkValue
  <2>5. MarkBits(cfg[o]) = BitsOf(NumberOf(cfg[o]))
    BY <1>5, <2>2, <2>4, Zenon DEF MarkBits
  <2> QED
    BY <2>2, <2>5, BitAssumption
<1>6. {"queue_num", "fwmark", "fwmask", "repeat", "ttl", "dynamic_pct"} \subseteq Numbers
  BY NumberNames
<1>7. parse_ull(cfg["queue_num"]) \in NfqNum
  <2> DEFINE least == 1  most == 65535
  <2>1. InRange(cfg["queue_num"], least, most) /\ least..most = NfqNum
    BY <1>2 DEF NfqNum
  <2>2. least \in Nat /\ most \in Nat /\ most <= UllMax
    BY WidthAssumption, NumeralsAssumption
  <2> HIDE DEF least, most
  <2>3. cfg["queue_num"] \in Seq(Char) /\ Pattern(cfg["queue_num"])
    BY <1>1, <1>6
  <2>4. parse_ull(cfg["queue_num"]) \in least..most
    BY <2>1, <2>2, <2>3, RangeRead
  <2> QED
    BY <2>1, <2>4
<1>8. parse_ull(cfg["repeat"]) \in Repeat
  <2> DEFINE least == 1  most == 10
  <2>1. InRange(cfg["repeat"], least, most) /\ least..most = Repeat
    BY <1>2 DEF Repeat
  <2>2. least \in Nat /\ most \in Nat /\ most <= UllMax
    BY WidthAssumption, NumeralsAssumption
  <2> HIDE DEF least, most
  <2>3. cfg["repeat"] \in Seq(Char) /\ Pattern(cfg["repeat"])
    BY <1>1, <1>6
  <2>4. parse_ull(cfg["repeat"]) \in least..most
    BY <2>1, <2>2, <2>3, RangeRead
  <2> QED
    BY <2>1, <2>4
<1>9. parse_ull(cfg["ttl"]) \in TtlSet
  <2> DEFINE least == 1  most == 255
  <2>1. InRange(cfg["ttl"], least, most) /\ least..most = TtlSet
    BY <1>2 DEF TtlSet
  <2>2. least \in Nat /\ most \in Nat /\ most <= UllMax
    BY WidthAssumption, NumeralsAssumption
  <2> HIDE DEF least, most
  <2>3. cfg["ttl"] \in Seq(Char) /\ Pattern(cfg["ttl"])
    BY <1>1, <1>6
  <2>4. parse_ull(cfg["ttl"]) \in least..most
    BY <2>1, <2>2, <2>3, RangeRead
  <2> QED
    BY <2>1, <2>4
<1>10. /\ parse_ull(cfg["dynamic_pct"]) \in 0..99
       /\ parse_ull(cfg["dynamic_pct"]) = NumberOf(cfg["dynamic_pct"])
       /\ NumberOf(cfg["dynamic_pct"]) > 0 => Positive(cfg["dynamic_pct"])
  <2> DEFINE least == 0  most == 99
  <2>1. InRange(cfg["dynamic_pct"], least, most) /\ least..most = 0..99
    BY <1>2
  <2>2. least \in Nat /\ most \in Nat /\ most <= UllMax
    BY WidthAssumption, NumeralsAssumption
  <2> HIDE DEF least, most
  <2>3. cfg["dynamic_pct"] \in Seq(Char) /\ Pattern(cfg["dynamic_pct"])
    BY <1>1, <1>6
  <2>4. /\ parse_ull(cfg["dynamic_pct"]) \in least..most
        /\ parse_ull(cfg["dynamic_pct"]) = NumberOf(cfg["dynamic_pct"])
        /\ NumberOf(cfg["dynamic_pct"]) > 0 => Positive(cfg["dynamic_pct"])
    BY <2>1, <2>2, <2>3, RangeRead
  <2> QED
    BY <2>1, <2>4
<1>11. NumberOf(cfg.dynamic_pct) = 0 => cfg.dynamic_pct = NoShare
  BY Zenon DEF Plain
<1>12. /\ MarkBits(cfg.fwmark) # {} /\ MarkBits(cfg.fwmask) # {}
       /\ MarkBits(cfg.fwmark) \subseteq MarkBits(cfg.fwmask)
  BY <1>2, <1>3, <1>5, <1>6
<1> QED
  BY <1>7, <1>8, <1>9, <1>10, <1>11, <1>12

(* What the page saves, the check lets through.                              *)
LEMMA PageIsConsistent ==
  ASSUME Section(cfg), Parts, Startable(cfg, devs), optind \in Nat, NoneLeft,
         Context, ReadContext, ReadInterfaces, Accepted(cfg), Plain(cfg)
  PROVE  ~Inconsistent
<1>1. /\ FlagsAsConfigured /\ ValuesAsConfigured
      /\ \A i \in 1..6 : ~Given(cfg, ValueArgs[i].option) => ctx[ValueArgs[i].setting] = Defaults[ValueArgs[i].setting]
  BY FlagsRead, ValuesRead
<1>2. /\ ValueArgs[2].option = "fwmark" /\ ValueArgs[3].option = "fwmask" /\ ValueArgs[6].option = "dynamic_pct"
      /\ ValueArgs[2].setting = "fwmark" /\ ValueArgs[3].setting = "fwmask" /\ ValueArgs[6].setting = "dynamic_pct"
      /\ FlagArgs[5].flag = "nohopest" /\ FlagArgs[5].option = "no_hop_estimate"
      /\ DOMAIN ValueArgs = 1..6 /\ DOMAIN FlagArgs = 1..8
  BY DEF ValueArgs, FlagArgs
<1>3. ASSUME NEW i \in 1..6
      PROVE  Given(cfg, ValueArgs[i].option) =>
               ctx[ValueArgs[i].setting] = ReadAs(ValueArgs[i].setting, cfg[ValueArgs[i].option])
  BY <1>1, <1>2 DEF ValuesAsConfigured
<1>4. Given(cfg, "fwmark") /\ Given(cfg, "fwmask") /\ (Given(cfg, "dynamic_pct") <=> cfg.dynamic_pct # NoShare)
  <2>1. Set(cfg, "fwmark") /\ Set(cfg, "fwmask") /\ Set(cfg, "dynamic_pct")
    BY NumberNames DEF Accepted, InForm
  <2> QED
    BY <2>1 DEF Given
<1>5. /\ ctx["fwmark"] = MarkBits(cfg.fwmark) /\ ctx["fwmask"] = MarkBits(cfg.fwmask)
      /\ ctx["dynamic_pct"] = IF cfg.dynamic_pct # NoShare THEN parse_ull(cfg.dynamic_pct) ELSE 0
  <2>1. ctx[ValueArgs[2].setting] = ReadAs(ValueArgs[2].setting, cfg[ValueArgs[2].option])
    BY <1>2, <1>3, <1>4
  <2>2. ctx[ValueArgs[3].setting] = ReadAs(ValueArgs[3].setting, cfg[ValueArgs[3].option])
    BY <1>2, <1>3, <1>4
  <2>3. cfg.dynamic_pct # NoShare => ctx[ValueArgs[6].setting] = ReadAs(ValueArgs[6].setting, cfg[ValueArgs[6].option])
    BY <1>2, <1>3, <1>4
  <2>4. cfg.dynamic_pct = NoShare => ctx.dynamic_pct = 0
    BY <1>1, Zenon DEF ValuesAsConfigured
  <2>5. "fwmark" \notin Setting /\ "fwmask" \notin Setting /\ "dynamic_pct" \in Setting
    BY DEF Setting
  <2> QED
    BY <1>2, <2>1, <2>2, <2>3, <2>4, <2>5 DEF ReadAs
<1>6. ~(On(cfg, "no_hop_estimate") /\ Positive(cfg.dynamic_pct))
  BY Zenon DEF Accepted, validateHopSettings
<1>8. ~MaskTooSmall
  BY <1>5, PlainNumbers DEF MaskTooSmall
<1>9. ~(ctx.dynamic_pct # 0 /\ ctx.nohopest)
  <2>1. ctx["nohopest"] = On(cfg, "no_hop_estimate")
    <3>1. ctx[FlagArgs[5].flag] = On(cfg, FlagArgs[5].option)
      BY <1>1, <1>2 DEF FlagsAsConfigured
    <3> QED
      BY <1>2, <3>1
  <2>2. ctx["dynamic_pct"] # 0 => Positive(cfg.dynamic_pct)
    <3>1. parse_ull(cfg.dynamic_pct) \in 0..99 /\ (parse_ull(cfg.dynamic_pct) > 0 => Positive(cfg.dynamic_pct))
      BY PlainNumbers
    <3> QED
      BY <1>5, <3>1
  <2> QED
    BY <1>6, <2>1, <2>2, Zenon
<1>10. ~(~ctx.alliface /\ iface.cnt = 0)
  <2>1. ctx["alliface"] = On(cfg, "all_interfaces")
    BY <1>1 DEF FlagsAsConfigured
  <2>2. ASSUME ~On(cfg, "all_interfaces") PROVE iface.cnt # 0
    <3>1. SomeAdded(cfg, devs)
      BY <2>2, Zenon DEF Startable
    <3>2. PICK p \in DOMAIN Named(cfg, devs) : Adds(Named(cfg, devs), p)
      BY <3>1 DEF SomeAdded
    <3>3. p \in 1..Len(Named(cfg, devs))
      BY NamedIsSeq, SeqFacts
    <3>4. Named(cfg, devs)[p] \in Usable(cfg, devs)
      BY <3>2, <3>3, NamedAre
    <3>5. {iface.at[i] : i \in 0..(iface.cnt - 1)} = Usable(cfg, devs)
      BY <2>2, InterfacesRead DEF InterfacesAsConfigured
    <3>6. \E i \in 0..(iface.cnt - 1) : TRUE
      BY <3>4, <3>5
    <3> QED
      BY <3>6
  <2> QED
    BY <2>1, <2>2, Zenon
<1> QED
  BY <1>8, <1>9, <1>10 DEF Inconsistent

(* Each argument of what the page saves is one main takes.                   *)
LEMMA PageIsTaken ==
  ASSUME Section(cfg), Parts, NEW k \in CtxAt, argv[k].given, Accepted(cfg), Plain(cfg)
  PROVE  ~RefusedAt(k)
<1>1. cfg.log_file # TooLong
  <2>1. InForm(cfg)
    BY Zenon DEF Accepted
  <2> QED
    BY <2>1 DEF InForm
<1>2. ASSUME NEW i \in 1..6, k = ValuesAt + i
      PROVE  ~Refuses(ValueArgs[i].setting, ReadAs(ValueArgs[i].setting, cfg[ValueArgs[i].option]))
  <2>1. /\ ValueArgs[1] = [option |-> "queue_num", setting |-> "nfqnum"]
        /\ ValueArgs[2] = [option |-> "fwmark", setting |-> "fwmark"]
        /\ ValueArgs[3] = [option |-> "fwmask", setting |-> "fwmask"]
        /\ ValueArgs[4] = [option |-> "repeat", setting |-> "repeat"]
        /\ ValueArgs[5] = [option |-> "ttl", setting |-> "ttl"]
        /\ ValueArgs[6] = [option |-> "dynamic_pct", setting |-> "dynamic_pct"]
    BY DEF ValueArgs
  <2>2. i = 6 => cfg.dynamic_pct # NoShare
    <3> SUFFICES ASSUME i = 6 PROVE cfg.dynamic_pct # NoShare
      OBVIOUS
    <3> DEFINE given == Given(cfg, ValueArgs[i].option)
               a == argv[ValuesAt + i]
    <3>1. a = [given |-> given, setting |-> ValueArgs[i].setting, value |-> cfg[ValueArgs[i].option]]
      BY Zenon DEF Parts
    <3>2. a.given
      BY <1>2
    <3>3. a.given = given
      BY <3>1
    <3>4. given
      <4> HIDE DEF given, a
      <4> QED
        BY <3>2, <3>3, Zenon
    <3>5. ValueArgs[i].option = "dynamic_pct"
      BY <2>1
    <3> QED
      BY <3>4, <3>5 DEF Given
  <2>3. i = 1 \/ i = 2 \/ i = 3 \/ i = 4 \/ i = 5 \/ i = 6
    OBVIOUS
  <2> DEFINE name == ValueArgs[i].setting
             v == ReadAs(name, cfg[ValueArgs[i].option])
  <2>4. \/ name = "nfqnum" /\ v \in NfqNum
        \/ name = "repeat" /\ v \in Repeat
        \/ name = "ttl" /\ v \in TtlSet
        \/ name = "dynamic_pct" /\ v \in Pct
        \/ name \in Mark /\ v # {}
    <3>1. CASE i = 1
      BY <2>1, <3>1, PlainNumbers DEF ReadAs, Setting
    <3>2. CASE i = 2
      BY <2>1, <3>2, PlainNumbers DEF ReadAs, Setting, Mark
    <3>3. CASE i = 3
      BY <2>1, <3>3, PlainNumbers DEF ReadAs, Setting, Mark
    <3>4. CASE i = 4
      BY <2>1, <3>4, PlainNumbers DEF ReadAs, Setting
    <3>5. CASE i = 5
      BY <2>1, <3>5, PlainNumbers DEF ReadAs, Setting
    <3>6. CASE i = 6
      <4>1. parse_ull(cfg.dynamic_pct) \in Pct
        BY <2>2, <3>6, PlainNumbers DEF Pct
      <4> QED
        BY <2>1, <3>6, <4>1 DEF ReadAs, Setting
    <3> QED
      BY <2>3, <3>1, <3>2, <3>3, <3>4, <3>5, <3>6
  <2> HIDE DEF name, v
  <2>5. ~Refuses(name, v)
    BY <2>4 DEF Valid, Setting, Mark, Refuses
  <2> QED
    BY <2>5 DEF name, v
<1> QED
  BY <1>1, <1>2 DEF RefusedAt

(* Whatever the page accepts in plain numerals, and the script starts, main  *)
(* takes: no argument ends it, and the check finds nothing to object to      *)
(* (fakesip.js:114-231, fakesip.init:137-253, mainfun.c:101-122, :154-396).  *)
THEOREM PageNeverRefused == ServiceSpec => NotRefused
<1>1. LineInv /\ [ServiceNext]_<<vars, svars>>
        => [ByPage /\ Plain(cfg) /\ pc \in {"options", "check"} => pc' # "free"]_<<vars, svars>>
  <2> SUFFICES ASSUME LineInv, ServiceNext, ByPage, Plain(cfg), pc \in {"options", "check"} PROVE pc' # "free"
    OBVIOUS
  <2>1. phase = "started" /\ cfg = Form(cfg) /\ Accepted(cfg)
    BY DEF ByPage
  <2>2. Section(cfg) /\ Started
    BY <2>1 DEF LineInv
  <2>3. /\ Parts /\ Startable(cfg, devs) /\ optind \in Nat
        /\ Context /\ ReadContext /\ ReadInterfaces
    BY <2>2, LineHasParts DEF Started
  <2>4. Main
    BY <2>1 DEF ServiceNext, Edit, Save, start_instance, Shell
  <2>5. ASSUME NEW k \in DOMAIN argv, NextIs(k), ReadsArgument(argv[k]) PROVE pc' # "free"
    <3>1. argv[k].given
      BY <2>5 DEF NextIs
    <3>2. /\ pc = "options"
          /\ ReadsContext(k) \/ ReadsPayload(k) \/ \E p \in 1..Len(Named(cfg, devs)) : ReadsInterface(k, p)
      BY <2>3, <2>5, <3>1, KindsRead
    <3>3. k \in CtxAt => ~RefusedAt(k)
      BY <2>1, <2>2, <2>3, <3>1, PageIsTaken
    <3> QED
      BY <3>2, <3>3 DEF ReadsContext, ReadsPayload, ReadsInterface
  <2>6. ASSUME NoneLeft, Check PROVE pc' # "free"
    <3>1. ~Inconsistent
      BY <2>1, <2>2, <2>3, <2>6, PageIsConsistent
    <3> QED
      BY <2>6, <3>1 DEF Check
  <2>7. ASSUME EndOfOptions \/ Daemonise(FALSE) \/ OpenLog(FALSE) PROVE pc' # "free"
    BY <2>7 DEF EndOfOptions, Daemonise, OpenLog
  <2> QED
    BY <2>4, <2>5, <2>6, <2>7 DEF Main
<1> QED
  BY <1>1, LineInvariance, PTL DEF ServiceSpec, NotRefused
-----------------------------------------------------------------------------
(* What the page saves is what it shows of the section it found.            *)
Saved == phase = "saved" => Section(before) /\ cfg = Form(before)

(* The form keeps the targets of a section without a mode: with both kinds   *)
(* of name its mode is "auto", with one kind the other list is empty.        *)
LEMMA FormKeepsTargets ==
  ASSUME NEW c, Section(c), c.interface_mode = Unset
  PROVE  Targets(Form(c)) = Targets(c)
<1> DEFINE f == Form(c)
           m == EffectiveMode(c)
<1>1. /\ DOMAIN FormDefault \cap {"all_interfaces", "interface_mode", "network", "interface"} = {}
      /\ {"all_interfaces", "interface_mode", "network", "interface"} \subseteq DOMAIN c
  <2>1. {"all_interfaces", "network", "interface"} \subseteq Lists \cup Switches
    BY DEF Lists, Switches
  <2> QED
    BY <2>1, SectionAssumption DEF FormDefault, Section
<1>2. /\ f.network = c.network /\ f.interface = c.interface /\ f.all_interfaces = c.all_interfaces
      /\ f.interface_mode = IF On(c, "all_interfaces") THEN Unset ELSE m
  BY <1>1 DEF Form
<1>3. On(f, "all_interfaces") = On(c, "all_interfaces")
  BY <1>2 DEF On
<1>4. m = IF c.network # <<>> /\ c.interface # <<>> THEN "auto" ELSE IF c.interface # <<>> THEN "device" ELSE "network"
  BY SectionAssumption DEF EffectiveMode
<1> HIDE DEF f, m
<1>5. CASE On(c, "all_interfaces")
  BY <1>3, <1>5 DEF Targets, f
<1>6. CASE ~On(c, "all_interfaces")
  <2>1. Mode(f) = m /\ Mode(c) = "auto"
    BY <1>2, <1>4, <1>6, SectionAssumption DEF Mode
  <2>2. Targets(f) = << IF m \in {"network", "auto"} THEN c.network ELSE <<>>,
                        IF m \in {"device", "auto"} THEN c.interface ELSE <<>> >>
    BY <1>2, <1>3, <1>6, <2>1 DEF Targets, UsesNetworks, UsesInterfaces
  <2>3. Targets(c) = << c.network, c.interface >>
    BY <1>6, <2>1 DEF Targets, UsesNetworks, UsesInterfaces
  <2> QED
    BY <1>4, <2>2, <2>3 DEF f
<1> QED
  BY <1>5, <1>6

LEMMA SavedKept == ServiceSpec => []Saved
<1>1. ServiceInit => Saved
  BY DEF ServiceInit, Saved
<1>2. LineInv /\ Saved /\ [ServiceNext]_<<vars, svars>> => Saved'
  <2> SUFFICES ASSUME LineInv, Saved, [ServiceNext]_<<vars, svars>> PROVE Saved'
    OBVIOUS
  <2>1. ASSUME NEW o, NEW v, Edit(o, v) PROVE Saved'
    BY <2>1 DEF Saved, Edit
  <2>2. CASE Save
    BY <2>2 DEF LineInv, Saved, Save
  <2>3. ASSUME NEW view, start_instance(view) PROVE Saved'
    BY <2>3 DEF Saved, start_instance
  <2>4. CASE Main
    BY <2>4 DEF Saved, Main
  <2>5. CASE Shell
    BY <2>5 DEF Saved, Shell
  <2>6. CASE UNCHANGED <<vars, svars>>
    BY <2>6 DEF Saved, svars
  <2> QED
    BY <2>1, <2>2, <2>3, <2>4, <2>5, <2>6 DEF ServiceNext
<1> QED
  BY <1>1, <1>2, LineInvariance, PTL DEF ServiceSpec

(* Whatever the section is, saving it on the page keeps the interfaces it    *)
(* works on if it has no mode yet (fakesip.js:23-35, fakesip.init:194-202).  *)
THEOREM TargetsKept == ServiceSpec => []SavingKeepsTargets
<1>1. Saved => SavingKeepsTargets
  BY FormKeepsTargets DEF Saved, SavingKeepsTargets
<1> QED
  BY <1>1, SavedKept, PTL
-----------------------------------------------------------------------------
Place == {"none", "exec", "status", "sleep", "over"}
Answer == State \cup {None, "sent", "ok", "failed"}
Notice == {None, "success", "failure"}

(* The shape of the variables the proofs update.                             *)
Shape ==
  /\ truth \in Settled /\ goal \in Settled /\ serviceBusy \in BOOLEAN
  /\ at \in [Click -> Place] /\ action \in [Click -> Action]
  /\ answer \in [Click -> Answer] /\ notified \in [Click -> Notice]
  /\ reached \in [Click -> BOOLEAN]

(* A chain that waits has its target as soon as it holds, and as soon as an  *)
(* answer says so.                                                           *)
Witnessed ==
  \A c \in Click :
    /\ at[c] \in {"status", "sleep"} /\ truth = Target(c) => reached[c]
    /\ at[c] = "status" /\ answer[c] = Target(c) => reached[c]

Active(c) == at[c] \in {"exec", "status", "sleep"}

(* The lock admits one chain, and a chain reports when it is over.           *)
OneChain ==
  /\ \A c \in Click : Active(c) => serviceBusy
  /\ \A c, d \in Click : Active(c) /\ Active(d) => c = d

Reported == \A c \in Click : notified[c] = "success" => at[c] = "over"

PageInv == Shape /\ LockedWhileBusy /\ OneChain /\ Reported /\ Witnessed /\ SuccessWasTrue
-----------------------------------------------------------------------------
(* What a command aims at is a state the daemon can be in, and no request or  *)
(* failure is taken for it.                                                  *)
LEMMA TargetIsState ==
  \A a \in Action : TargetOf(a) \in Settled /\ TargetOf(a) \notin {"sent", "unknown", None}
  BY NoneAssumption DEF TargetOf, Action, Settled, State

LEMMA PageInitInv == PageInit => PageInv
<1> SUFFICES ASSUME PageInit PROVE PageInv
  OBVIOUS
<1>1. Shape
  BY DEF PageInit, Shape, State, Settled, Action, Place, Answer, Notice
<1>2. LockedWhileBusy
  BY DEF PageInit, LockedWhileBusy
<1>3. Witnessed
  BY DEF PageInit, Witnessed
<1>4. SuccessWasTrue /\ Reported
  BY NoneAssumption DEF PageInit, SuccessWasTrue, Reported
<1>5. OneChain
  BY DEF PageInit, OneChain, Active
<1> QED BY <1>1, <1>2, <1>3, <1>4, <1>5 DEF PageInv
-----------------------------------------------------------------------------
(* A change of the daemon is noted by every chain that waits for it.          *)
LEMMA ChangeIsNoted ==
  ASSUME PageInv, NEW s \in Settled, Becomes(s), goal' \in Settled, UNCHANGED <<page, refresh, chain>>
  PROVE  PageInv'
<1>1. Shape'
  BY DEF PageInv, Shape, Becomes, page, chain
<1>2. LockedWhileBusy' /\ OneChain' /\ Reported'
  BY DEF PageInv, LockedWhileBusy, OneChain, Active, Reported, page, chain
<1>3. Witnessed'
  BY DEF PageInv, Shape, Witnessed, Becomes, Target, chain
<1>4. SuccessWasTrue'
  BY DEF PageInv, Shape, SuccessWasTrue, Becomes, chain
<1> QED BY <1>1, <1>2, <1>3, <1>4 DEF PageInv

(* Requests for the status touch no chain.                                   *)
LEMMA RefreshingPreserves ==
  ASSUME PageInv, NEW r \in Refresher, Refreshing(r)
  PROVE  PageInv'
<1>1. UNCHANGED <<service, serviceBusy, chain, reached>>
  BY DEF Refreshing, Look, refreshServiceStatus, page
<1>2. Shape' /\ OneChain' /\ Reported'
  BY <1>1 DEF PageInv, Shape, OneChain, Active, Reported, service, chain
<1>3. Witnessed' /\ SuccessWasTrue'
  BY <1>1 DEF PageInv, Witnessed, SuccessWasTrue, Target, service, chain
<1>4. LockedWhileBusy'
  BY <1>1 DEF PageInv, Shape, LockedWhileBusy, Refreshing, Look, refreshServiceStatus,
              updateServiceStatus, page
<1> QED BY <1>2, <1>3, <1>4 DEF PageInv

LEMMA PollPreserves ==
  ASSUME PageInv, Poll
  PROVE  PageInv'
<1>1. UNCHANGED <<service, page, chain, reached>>
  BY DEF Poll
<1>2. Shape' /\ LockedWhileBusy' /\ OneChain' /\ Reported'
  BY <1>1 DEF PageInv, Shape, LockedWhileBusy, OneChain, Active, Reported, service, page, chain
<1>3. Witnessed' /\ SuccessWasTrue'
  BY <1>1 DEF PageInv, Witnessed, SuccessWasTrue, Target, service, chain
<1> QED BY <1>2, <1>3 DEF PageInv
-----------------------------------------------------------------------------
LEMMA CommandPreserves ==
  ASSUME PageInv, NEW c \in Click, NEW a \in Action, serviceCommand(c, a)
  PROVE  PageInv'
<1> USE DEF PageInv, serviceCommand
<1>1. Shape'
  BY DEF Shape, Place, Answer, service, page
<1>2. LockedWhileBusy'
  BY DEF LockedWhileBusy, updateServiceStatus
<1>3. OneChain' /\ Reported'
  BY DEF OneChain, Active, Reported, Shape
<1>4. Witnessed'
  BY DEF Witnessed, Shape, Target, service
<1>5. SuccessWasTrue'
  BY DEF SuccessWasTrue, service
<1> QED BY <1>1, <1>2, <1>3, <1>4, <1>5

LEMMA ExecutePreserves ==
  ASSUME PageInv, NEW c \in Click, Execute(c)
  PROVE  PageInv'
<1> USE DEF PageInv, Execute
<1>1. Target(c) \in Settled
  BY TargetIsState DEF Shape, Target
<1>2. truth' \in Settled
  BY DEF Shape, Settled
<1>3. Shape'
  BY <1>1, <1>2 DEF Shape, Answer, page
<1>4. LockedWhileBusy' /\ OneChain' /\ Reported' /\ SuccessWasTrue'
  BY DEF LockedWhileBusy, OneChain, Active, Reported, SuccessWasTrue, page
<1>5. \A d \in Click : at'[d] \notin {"status", "sleep"}
  BY DEF OneChain, Active
<1>6. Witnessed'
  BY <1>5 DEF Witnessed
<1> QED BY <1>3, <1>4, <1>6

LEMMA ExecutedPreserves ==
  ASSUME PageInv, NEW c \in Click, Executed(c)
  PROVE  PageInv'
<1> USE DEF PageInv, Executed
<1>1. CASE answer[c] = "failed"
  <2>1. Finish(c, "failure") /\ UNCHANGED <<service, label, enabled, action, answer, reached>>
    BY <1>1
  <2>2. Shape' /\ LockedWhileBusy'
    BY <2>1 DEF Shape, Place, Notice, Finish, service, LockedWhileBusy
  <2>3. OneChain' /\ Reported'
    BY <2>1 DEF Shape, OneChain, Active, Reported, Finish
  <2>4. Witnessed' /\ SuccessWasTrue'
    BY <2>1 DEF Shape, Witnessed, SuccessWasTrue, Target, Finish, service
  <2> QED BY <2>2, <2>3, <2>4
<1>2. CASE answer[c] = "ok"
  <2>1. /\ at' = [at EXCEPT ![c] = "status"] /\ answer' = [answer EXCEPT ![c] = "sent"]
        /\ reached' = [reached EXCEPT ![c] = truth = Target(c)]
        /\ UNCHANGED <<service, label, enabled, action, notified, serviceBusy>>
    BY <1>2
  <2>2. Shape' /\ LockedWhileBusy'
    BY <2>1 DEF Shape, Place, Answer, service, LockedWhileBusy
  <2>3. OneChain' /\ Reported'
    BY <2>1 DEF Shape, OneChain, Active, Reported
  <2>4. Target(c) # "sent"
    BY TargetIsState DEF Shape, Target
  <2>5. Witnessed'
    BY <2>1, <2>4 DEF Shape, Witnessed, Target, service
  <2>6. SuccessWasTrue'
    BY <2>1 DEF Shape, SuccessWasTrue, Reported
  <2> QED BY <2>2, <2>3, <2>5, <2>6
<1> QED BY <1>1, <1>2

LEMMA LookForPreserves ==
  ASSUME PageInv, NEW c \in Click, LookFor(c)
  PROVE  PageInv'
<1> USE DEF PageInv, LookFor
<1>1. Shape'
  BY DEF Shape, Answer, State, Settled, service, page
<1>2. LockedWhileBusy' /\ OneChain' /\ Reported' /\ SuccessWasTrue'
  BY DEF LockedWhileBusy, OneChain, Active, Reported, SuccessWasTrue, page
<1>3. Target(c) # "unknown"
  BY TargetIsState DEF Shape, Target
<1>4. Witnessed'
  BY <1>3 DEF Shape, Witnessed, Target, service
<1> QED BY <1>1, <1>2, <1>4

LEMMA WaitPreserves ==
  ASSUME PageInv, NEW c \in Click, waitForServiceState(c)
  PROVE  PageInv'
<1> USE DEF PageInv
<1>1. CASE Saw(c) = Target(c)
  <2>1. /\ at[c] = "status" /\ Finish(c, "success")
        /\ UNCHANGED <<service, label, enabled, action, answer, reached>>
    BY <1>1 DEF waitForServiceState
  <2>2. reached[c]
    BY <1>1 DEF waitForServiceState, Saw, Witnessed
  <2>3. Shape' /\ LockedWhileBusy'
    BY <2>1 DEF Shape, Place, Notice, Finish, service, LockedWhileBusy
  <2>4. OneChain' /\ Reported'
    BY <2>1 DEF Shape, OneChain, Active, Reported, Finish
  <2>5. Witnessed' /\ SuccessWasTrue'
    BY <2>1, <2>2 DEF Shape, Witnessed, SuccessWasTrue, Target, Finish, service
  <2> QED BY <2>3, <2>4, <2>5
<1>2. CASE Finish(c, "failure") /\ waitForServiceState(c)
  <2>1. /\ at[c] = "status" /\ Finish(c, "failure")
        /\ UNCHANGED <<service, label, enabled, action, answer, reached>>
    BY <1>2 DEF waitForServiceState
  <2>2. Shape' /\ LockedWhileBusy'
    BY <2>1 DEF Shape, Place, Notice, Finish, service, LockedWhileBusy
  <2>3. OneChain' /\ Reported'
    BY <2>1 DEF Shape, OneChain, Active, Reported, Finish
  <2>4. Witnessed' /\ SuccessWasTrue'
    BY <2>1 DEF Shape, Witnessed, SuccessWasTrue, Target, Finish, service
  <2> QED BY <2>2, <2>3, <2>4
<1>3. CASE /\ at' = [at EXCEPT ![c] = "sleep"] /\ UNCHANGED <<notified, serviceBusy, refresh>>
           /\ waitForServiceState(c)
  <2>1. /\ at[c] = "status"
        /\ UNCHANGED <<service, label, enabled, action, answer, reached>>
    BY <1>3 DEF waitForServiceState
  <2>2. Shape' /\ LockedWhileBusy'
    BY <1>3, <2>1 DEF Shape, Place, service, LockedWhileBusy
  <2>3. OneChain' /\ Reported'
    BY <1>3, <2>1 DEF Shape, OneChain, Active, Reported
  <2>4. Witnessed' /\ SuccessWasTrue'
    BY <1>3, <2>1 DEF Shape, Witnessed, SuccessWasTrue, Target, service
  <2> QED BY <2>2, <2>3, <2>4
<1> QED BY <1>1, <1>2, <1>3 DEF waitForServiceState

LEMMA AwakePreserves ==
  ASSUME PageInv, NEW c \in Click, Awake(c)
  PROVE  PageInv'
<1> USE DEF PageInv, Awake
<1>1. Shape' /\ LockedWhileBusy'
  BY DEF Shape, Place, Answer, service, page, LockedWhileBusy
<1>2. OneChain' /\ Reported'
  BY DEF Shape, OneChain, Active, Reported, page
<1>3. Target(c) # "sent"
  BY TargetIsState DEF Shape, Target
<1>4. Witnessed' /\ SuccessWasTrue'
  BY <1>3 DEF Shape, Witnessed, SuccessWasTrue, Target, service
<1> QED BY <1>1, <1>2, <1>4
-----------------------------------------------------------------------------
LEMMA PageNextInv == PageInv /\ [PageNext]_panel => PageInv'
<1> SUFFICES ASSUME PageInv, [PageNext]_panel PROVE PageInv'
  OBVIOUS
<1>1. CASE Settle
  BY <1>1, ChangeIsNoted DEF Settle, PageInv, Shape
<1>2. CASE Fall
  BY <1>2, ChangeIsNoted DEF Fall, PageInv, Shape, Settled
<1>3. CASE Poll
  BY <1>3, PollPreserves
<1>4. ASSUME NEW r \in Refresher, Refreshing(r) PROVE PageInv'
  BY <1>4, RefreshingPreserves
<1>5. ASSUME NEW c \in Click, Chain(c) PROVE PageInv'
  BY <1>5, ExecutePreserves, ExecutedPreserves, LookForPreserves, WaitPreserves, AwakePreserves
     DEF Chain
<1>6. ASSUME NEW c \in Click, NEW a \in Action, serviceCommand(c, a) PROVE PageInv'
  BY <1>6, CommandPreserves
<1>7. CASE UNCHANGED panel
  <2>1. Shape' /\ LockedWhileBusy' /\ OneChain' /\ Reported'
    BY <1>7 DEF PageInv, Shape, LockedWhileBusy, OneChain, Active, Reported, panel, service,
       page, chain
  <2>2. Witnessed' /\ SuccessWasTrue'
    BY <1>7 DEF PageInv, Witnessed, SuccessWasTrue, Target, panel, service, chain
  <2> QED BY <2>1, <2>2 DEF PageInv
<1> QED BY <1>1, <1>2, <1>3, <1>4, <1>5, <1>6, <1>7 DEF PageNext

LEMMA PageInvariance == PageSpec => []PageInv
  BY PageInitInv, PageNextInv, PTL DEF PageSpec

(* The panel stays locked during every command, whatever order the answers   *)
(* of the polls arrive in (fakesip.js:303-325, :349-356).                     *)
THEOREM PanelStaysLocked == PageSpec => []LockedWhileBusy
<1>1. PageInv => LockedWhileBusy
  BY DEF PageInv
<1> QED BY <1>1, PageInvariance, PTL

(* A reported success was true at some moment after the command, for every   *)
(* number of clicks, looks and failures (fakesip.js:337-347, :358-375).       *)
THEOREM SuccessIsWitnessed == PageSpec => []SuccessWasTrue
<1>1. PageInv => SuccessWasTrue
  BY DEF PageInv
<1> QED BY <1>1, PageInvariance, PTL
=============================================================================
