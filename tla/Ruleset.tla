------------------------------ MODULE Ruleset ------------------------------
(***************************************************************************)
(* The firewall rules of FakeSIP and the commands that install and remove  *)
(* them, as ipv4nft.c, ipv6nft.c, ipv4ipt.c and ipv6ipt.c list them and    *)
(* nfrules.c puts them together for a configuration.                        *)
(***************************************************************************)
EXTENDS Netfilter, FiniteSetsExt

CONSTANTS Iface,      \* network interfaces
          Public,     \* a remote peer in no excluded network
          LocalNets   \* per family, the excluded networks, in rule order

Family  == {4, 6}
Backend == {"nft", "ipt"}
Kind    == {"udp", "decoy", "expired"}  \* decoy: carries fwmark;
                                        \* expired: ICMP error about a decoy
Peers(f)  == Range(LocalNets[f]) \cup {Public}
Packet(f) == [iface : Iface, peer : Peers(f), kind : Kind]

ASSUME PublicAssumption == \A f \in Family : Public \notin Range(LocalNets[f])
ASSUME LocalNetsAssumption == \A f \in Family : LocalNets[f] \in Seq(Range(LocalNets[f]))

Configuration ==
  [skipfw : BOOLEAN, use_ipv4 : BOOLEAN, use_ipv6 : BOOLEAN, use_iptables : BOOLEAN,
   alliface : BOOLEAN, iface : Seq(Iface)]

Table == Backend \X Family
Empty(b) == IF b = "nft" THEN << >> ELSE [c \in {"PRE", "POST"} |-> << >>]
-----------------------------------------------------------------------------
(* The rules.                                                               *)
Exclude(f)     == [k \in DOMAIN LocalNets[f] |->
                     Rule(Iface, {LocalNets[f][k]}, Kind, "return")]
SkipMarked(f)  == Rule(Iface, Peers(f), {"decoy"}, "return")
ToQueue(f)     == Rule(Iface, Peers(f), {"udp", "decoy"}, "queue")
Jump(f, is, c) == Rule(is, Peers(f), Kind, c)
DropExpired(f, is) == Rule(is, Peers(f), {"expired"}, "drop")

(* One group of commands for all interfaces, or one for each.               *)
Groups(cfg) == IF cfg.alliface THEN <<Iface>> ELSE [k \in DOMAIN cfg.iface |-> {cfg.iface[k]}]
ForIfaces(cfg, Cmds(_)) == FlattenSeq([k \in DOMAIN Groups(cfg) |-> Cmds(Groups(cfg)[k])])

NftTable(f) ==
  [c \in {"PRE", "POST", "R"} |->
    IF c = "R" THEN <<SkipMarked(f), ToQueue(f)>> ELSE Exclude(f)]

(* Mutant: the ICMP errors are dropped after the jumps are in place. *)
NftIfaceSetupDropLast(f, cfg) ==
  LET cmds(is) == << Edit("append", "PRE", Jump(f, is, "R")),
                     Edit("append", "POST", Jump(f, is, "R")),
                     Edit("insert", "PRE", DropExpired(f, is)) >>
  IN  ForIfaces(cfg, cmds)
NftIfaceSetup(f, cfg) ==
  LET cmds(is) == << Edit("insert", "PRE", DropExpired(f, is)),
                     Edit("append", "PRE", Jump(f, is, "R")),
                     Edit("append", "POST", Jump(f, is, "R")) >>
  IN  ForIfaces(cfg, cmds)

NftSetup(f, cfg) == <<Load(NftTable(f))>> \o NftIfaceSetup(f, cfg)
NftCleanup(f)    == <<Unload>>

(* Mutant: packets on their way out are forgotten. *)
IptIfaceSetupInOnly(f, cfg) ==
  LET cmds(is) == << Edit("append", "S", Jump(f, is, "R")) >>
  IN  ForIfaces(cfg, cmds)
IptIfaceSetup(f, cfg) ==
  LET cmds(is) == << Edit("append", "S", Jump(f, is, "R")),
                     Edit("append", "D", Jump(f, is, "R")) >>
  IN  ForIfaces(cfg, cmds)

(* Mutant: the jumps to R precede the exclusions. *)
IptSetupJumpsFirst(f, cfg) ==
  << Chain("new", "S"), Chain("new", "D"), Chain("new", "R"),
     Edit("insert", "PRE",  Jump(f, Iface, "S")),
     Edit("insert", "POST", Jump(f, Iface, "D")),
     Edit("append", "R", SkipMarked(f)), Edit("append", "R", ToQueue(f)) >>
  \o IptIfaceSetup(f, cfg)
  \o [k \in DOMAIN Exclude(f) |-> Edit("append", "S", Exclude(f)[k])]
  \o [k \in DOMAIN Exclude(f) |-> Edit("append", "D", Exclude(f)[k])]

IptSetup(f, cfg) ==
  << Chain("new", "S"), Chain("new", "D"),
     Edit("insert", "PRE",  Jump(f, Iface, "S")),
     Edit("insert", "POST", Jump(f, Iface, "D")),
     Chain("new", "R") >>
  \o [k \in DOMAIN Exclude(f) |-> Edit("append", "S", Exclude(f)[k])]
  \o [k \in DOMAIN Exclude(f) |-> Edit("append", "D", Exclude(f)[k])]
  \o << Edit("append", "R", SkipMarked(f)), Edit("append", "R", ToQueue(f)) >>
  \o IptIfaceSetup(f, cfg)

(* Mutants: chains dropped while rules jump to them; nothing is flushed.    *)
IptCleanupDropsFirst(f) ==
  << Chain("flush", "R"), Chain("flush", "S"), Chain("flush", "D"),
     Chain("drop", "R"), Chain("drop", "S"), Chain("drop", "D"),
     Edit("delete", "PRE",  Jump(f, Iface, "S")),
     Edit("delete", "POST", Jump(f, Iface, "D")) >>
IptCleanupUnlinksOnly(f) ==
  << Edit("delete", "PRE",  Jump(f, Iface, "S")),
     Edit("delete", "POST", Jump(f, Iface, "D")),
     Chain("drop", "R"), Chain("drop", "S"), Chain("drop", "D") >>
IptCleanup(f) ==
  << Chain("flush", "R"), Chain("flush", "S"), Chain("flush", "D"),
     Edit("delete", "PRE",  Jump(f, Iface, "S")),
     Edit("delete", "POST", Jump(f, Iface, "D")),
     Chain("drop", "R"), Chain("drop", "S"), Chain("drop", "D") >>

(* A script is a list of commands, each with the table it acts on and       *)
(* whether its failure ends the script.                                     *)
Script(b, f, cmds, must) ==
  [k \in DOMAIN cmds |-> [table |-> <<b, f>>, cmd |-> cmds[k], must |-> must]]

BackendOf(cfg) == IF cfg.use_iptables THEN "ipt" ELSE "nft"

Cleanup(f, cfg) ==
  Script(BackendOf(cfg), f, IF cfg.use_iptables THEN IptCleanup(f) ELSE NftCleanup(f), FALSE)

(* Mutants: no cleanup first; a cleanup that must succeed.                  *)
SetupOnTop(f, cfg) ==
  Script(BackendOf(cfg), f, IF cfg.use_iptables THEN IptSetup(f, cfg) ELSE NftSetup(f, cfg), TRUE)
SetupStrict(f, cfg) ==
  Script(BackendOf(cfg), f, (IF cfg.use_iptables THEN IptCleanup(f) ELSE NftCleanup(f)) \o
                            (IF cfg.use_iptables THEN IptSetup(f, cfg) ELSE NftSetup(f, cfg)), TRUE)
(* Both setup functions clean up first.                                     *)
Setup(f, cfg) ==
  Cleanup(f, cfg) \o
  Script(BackendOf(cfg), f, IF cfg.use_iptables THEN IptSetup(f, cfg) ELSE NftSetup(f, cfg), TRUE)

If(cond, script) == IF cond THEN script ELSE << >>

NfrulesSetup(cfg) ==
  If(~cfg.skipfw /\ cfg.use_ipv4, Setup(4, cfg)) \o If(~cfg.skipfw /\ cfg.use_ipv6, Setup(6, cfg))
NfrulesCleanup(cfg) ==
  If(~cfg.skipfw /\ cfg.use_ipv4, Cleanup(4, cfg)) \o If(~cfg.skipfw /\ cfg.use_ipv6, Cleanup(6, cfg))
-----------------------------------------------------------------------------
(* The tables of a configuration, and what a completed setup leaves in one. *)
Chains == {"PRE", "POST", "S", "D", "R"}
Own(cfg) == {t \in Table : /\ ~cfg.skipfw
                           /\ t[1] = BackendOf(cfg)
                           /\ IF t[2] = 4 THEN cfg.use_ipv4 ELSE cfg.use_ipv6}

InstalledNft(f, cfg) ==
  [c \in {"PRE", "POST", "R"} |->
    IF c = "R" THEN NftTable(f)["R"]
    ELSE LET is   == Groups(cfg)
             drop == Reverse([k \in DOMAIN is |-> DropExpired(f, is[k])])
         IN  (IF c = "PRE" THEN drop ELSE << >>) \o Exclude(f)
               \o [k \in DOMAIN is |-> Jump(f, is[k], "R")]]
InstalledIpt(f, cfg) ==
  LET is == Groups(cfg)
  IN  [c \in Chains |->
        CASE c = "PRE"  -> <<Jump(f, Iface, "S")>>
          [] c = "POST" -> <<Jump(f, Iface, "D")>>
          [] c = "R"    -> <<SkipMarked(f), ToQueue(f)>>
          [] OTHER      -> Exclude(f) \o [k \in DOMAIN is |-> Jump(f, is[k], "R")]]

Installed(t, cfg) == IF t[1] = "ipt" THEN InstalledIpt(t[2], cfg) ELSE InstalledNft(t[2], cfg)

=============================================================================
