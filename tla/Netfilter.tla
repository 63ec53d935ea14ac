----------------------------- MODULE Netfilter -----------------------------
(***************************************************************************)
(* The part of the kernel's packet filter, and of the nft and iptables     *)
(* tools, that FakeSIP relies on.  None of it is FakeSIP's code: it is      *)
(* what the commands of ipv4nft.c, ipv6nft.c, ipv4ipt.c and ipv6ipt.c mean. *)
(*                                                                         *)
(* A table maps the chains that exist to their rules, in order.  A rule     *)
(* applies to the packets whose interface, remote peer and kind are in its  *)
(* sets, and does one thing: "return", "queue", "drop", or a jump, written  *)
(* as the name of the chain.                                                *)
(***************************************************************************)
EXTENDS Integers, SequencesExt

Rule(ifaces, peers, kinds, do) ==
  [ifaces |-> ifaces, peers |-> peers, kinds |-> kinds, do |-> do]

Applies(rule, p) ==
  p.iface \in rule.ifaces /\ p.peer \in rule.peers /\ p.kind \in rule.kinds

Rules(t, c) == IF c \in DOMAIN t THEN t[c] ELSE << >>

(* What a list of rules does to a packet, given what the chains it may jump *)
(* to do: the first rule that does not pass the packet on decides, and a    *)
(* "return" passes it on to the calling chain.                              *)
Outcome(rules, p, sub) ==
  LET does(r) == IF r.do \in DOMAIN sub THEN sub[r.do] ELSE r.do
      stop == {k \in DOMAIN rules : Applies(rules[k], p) /\ does(rules[k]) # "pass"}
  IN  IF stop = {} \/ does(rules[Min(stop)]) = "return" THEN "pass"
      ELSE does(rules[Min(stop)])

(* Traversal of a base chain; FakeSIP nests chains at most two deep.        *)
Traverse(t, base, p) ==
  LET leaf == [c \in {"R"} |-> Outcome(Rules(t, c), p, << >>)]
      mid  == [c \in {"R", "S", "D"} |-> IF c = "R" THEN leaf[c] ELSE Outcome(Rules(t, c), p, leaf)]
  IN  Outcome(Rules(t, base), p, mid)
-----------------------------------------------------------------------------
(* Commands.  Op is one of                                                  *)
(*   "new" "flush" "drop"          iptables -N, -F, -X of a chain           *)
(*   "append" "insert" "delete"    -A, -I, -D of a rule; nft add, insert    *)
(*   "load"                        nft -f -, with a whole table, atomically *)
(*   "unload"                      nft delete table                         *)
Chain(op, c)    == [op |-> op, chain |-> c]
Edit(op, c, r)  == [op |-> op, chain |-> c, rule |-> r]
Load(table)     == [op |-> "load", table |-> table]
Unload          == [op |-> "unload"]

Jumps(t, c) == \E d \in DOMAIN t : \E k \in DOMAIN t[d] : t[d][k].do = c

(* Whether the tool can carry a command out on a table.                     *)
Possible(cmd, t) ==
  CASE cmd.op = "new"    -> cmd.chain \notin DOMAIN t
    [] cmd.op = "flush"  -> cmd.chain \in DOMAIN t
    [] cmd.op = "drop"   -> /\ cmd.chain \in DOMAIN t
                            /\ t[cmd.chain] = << >> /\ ~Jumps(t, cmd.chain)
    [] cmd.op = "delete" -> cmd.chain \in DOMAIN t /\ Contains(t[cmd.chain], cmd.rule)
    [] cmd.op \in {"append", "insert"} ->
         /\ cmd.chain \in DOMAIN t
         /\ cmd.rule.do \in {"return", "queue", "drop"} \cup DOMAIN t
    [] cmd.op = "load"   -> TRUE
    [] cmd.op = "unload" -> DOMAIN t # {}

(* The table it leaves.  Loading a table that is still there adds to it.    *)
Result(cmd, t) ==
  CASE cmd.op = "new"    -> [c \in DOMAIN t \cup {cmd.chain} |-> Rules(t, c)]
    [] cmd.op = "flush"  -> [t EXCEPT ![cmd.chain] = << >>]
    [] cmd.op = "drop"   -> [c \in DOMAIN t \ {cmd.chain} |-> t[c]]
    [] cmd.op = "delete" -> [t EXCEPT ![cmd.chain] = RemoveFirst(@, cmd.rule)]
    [] cmd.op = "append" -> [t EXCEPT ![cmd.chain] = Append(@, cmd.rule)]
    [] cmd.op = "insert" -> [t EXCEPT ![cmd.chain] = <<cmd.rule>> \o @]
    [] cmd.op = "load"   -> [c \in DOMAIN t \cup DOMAIN cmd.table |->
                               Rules(t, c) \o Rules(cmd.table, c)]
    [] cmd.op = "unload" -> << >>
=============================================================================
