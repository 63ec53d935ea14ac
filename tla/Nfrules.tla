------------------------------ MODULE Nfrules ------------------------------
(***************************************************************************)
(* The life of one daemon's firewall rules (nfrules.c): it runs the scripts *)
(* of module Ruleset one command at a time, while any command may fail and  *)
(* the daemon may be killed at any moment and started again.                *)
(***************************************************************************)
EXTENDS Ruleset

CONSTANTS NftWorks,    \* the outcomes of "nft --version": one per kind of host
          Configs,     \* per host, configurations the daemon is started with
          MaxFailures  \* bound: commands that fail for no reason of FakeSIP's

ASSUME FailuresAssumption == MaxFailures \in Nat
ASSUME ConfigsAssumption ==
  NftWorks \subseteq BOOLEAN /\ \A w \in NftWorks : Configs[w] \subseteq Configuration

VARIABLES works,    \* whether the host has nft
          tables,   \* the kernel's tables; they outlive the daemon
          cfg,      \* the configuration of the running daemon
          phase,    \* "off" "setup" "up" "rollback" "cleanup"
          pending,  \* the commands still to run
          hits,     \* failures of that kind in the script being run
          failures  \* and since the system was booted

firewall == <<works, tables, cfg, phase, pending, hits, failures>>

RulesInit ==
  /\ works \in NftWorks
  /\ tables = [t \in Table |-> Empty(t[1])]
  /\ cfg \in Configs[works]
  /\ phase = "off" /\ pending = << >> /\ hits = 0 /\ failures = 0

(* fs_nfrules_setup chooses the tool, and keeps the choice in use_iptables. *)
(* "nft --version" may fail for once where nft works.                       *)
Start(c) ==
  /\ phase = "off"
  /\ \/ /\ cfg' = [c EXCEPT !.use_iptables = @ \/ (~c.skipfw /\ ~works)]
        /\ UNCHANGED failures
     \/ /\ works /\ ~c.skipfw /\ ~c.use_iptables
        /\ failures < MaxFailures /\ failures' = failures + 1
        /\ cfg' = [c EXCEPT !.use_iptables = TRUE]
  /\ phase' = "setup"
  /\ pending' = NfrulesSetup(cfg')
  /\ hits' = 0
  /\ UNCHANGED <<works, tables>>

Running == phase \in {"setup", "rollback", "cleanup"} /\ pending # << >>
Cmd     == Head(pending).cmd
Target  == tables[Head(pending).table]
Take    == tables' = [tables EXCEPT ![Head(pending).table] = Result(Cmd, @)]

Proceed == pending' = Tail(pending) /\ UNCHANGED <<cfg, phase>>

(* A command that must succeed and does not: undo everything.               *)
Rollback ==
  /\ phase' = "rollback"
  /\ pending' = NfrulesCleanup(cfg)
  /\ UNCHANGED cfg

CommandSucceeds == Running /\ Possible(Cmd, Target) /\ Take /\ Proceed /\ UNCHANGED <<works, hits, failures>>

(* The tool refuses: the chain is missing, or it is there already.          *)
CommandRefused ==
  /\ Running /\ ~Possible(Cmd, Target)
  /\ IF Head(pending).must THEN Rollback /\ hits' = 0 ELSE Proceed /\ UNCHANGED hits
  /\ UNCHANGED <<works, tables, failures>>

(* The tool cannot be started, is killed, or its status is lost: it counts  *)
(* as failed, whether or not the kernel had already made the change.        *)
CommandFaults ==
  /\ Running /\ failures < MaxFailures
  /\ failures' = failures + 1 /\ UNCHANGED works
  /\ UNCHANGED tables \/ (Possible(Cmd, Target) /\ Take)
  /\ IF Head(pending).must THEN Rollback /\ hits' = 0 ELSE Proceed /\ hits' = hits + 1

ScriptEnds ==
  /\ phase \in {"setup", "rollback", "cleanup"} /\ pending = << >>
  /\ phase' = IF phase = "setup" THEN "up" ELSE "off"
  /\ UNCHANGED <<works, tables, cfg, pending, hits, failures>>

(* The packet loop ends, by a signal or an error.                           *)
Stop ==
  /\ phase = "up"
  /\ phase' = "cleanup" /\ pending' = NfrulesCleanup(cfg) /\ hits' = 0
  /\ UNCHANGED <<works, tables, cfg, failures>>

(* SIGKILL or a crash of the daemon; the command it is waiting for, if any, *)
(* has taken effect or has not.                                             *)
DaemonDies ==
  /\ phase # "off"
  /\ phase' = "off" /\ pending' = << >>
  /\ UNCHANGED tables \/ (Running /\ Possible(Cmd, Target) /\ Take)
  /\ UNCHANGED <<works, cfg, hits, failures>>

RulesNext ==
  \/ \E c \in Configs[works] : Start(c)
  \/ CommandSucceeds
  \/ CommandRefused
  \/ CommandFaults
  \/ ScriptEnds
  \/ Stop
  \/ DaemonDies

RulesSpec == RulesInit /\ [][RulesNext]_firewall
-----------------------------------------------------------------------------
RulesTypeOK ==
  /\ works \in NftWorks
  /\ \A t \in Table : DOMAIN tables[t] \subseteq Chains
  /\ cfg.use_iptables \in BOOLEAN
  /\ phase \in {"off", "setup", "up", "rollback", "cleanup"}
  /\ phase \in {"off", "up"} => pending = << >>
  /\ hits \in 0..MaxFailures /\ failures \in 0..MaxFailures

Queues(t, base, p) == Traverse(tables[t], base, p) = "queue"

(* In every state between two commands, whatever failed and whatever a      *)
(* killed daemon left behind, traffic of an excluded network is not handed  *)
(* to the queue: the exclusions are in place before the first jump to the   *)
(* queueing rules (ipv4ipt.c:211-223, ipv4nft.c:180-199).  Nor is a decoy,  *)
(* which would be answered with decoys of its own: the mark is looked at    *)
(* first, even while rules come and go (ipv4ipt.c:161-192, :232-249).       *)
QueuesOnlyCandidates ==
  /\ RulesTypeOK
  /\ \A t \in Table : \A p \in Packet(t[2]) : \A base \in {"PRE", "POST"} :
       Queues(t, base, p) => p.peer = Public /\ p.kind # "decoy"

(* A daemon that is up has exactly the rules of its configuration, whatever *)
(* its predecessors left.  With iptables this needs nothing, for -N refuses *)
(* a leftover chain; with nft a cleanup that failed unnoticed lets the new  *)
(* table be added to the old one (ipv4nft.c:180, :205-210).                 *)
ExactWhenUp ==
  phase = "up" => \A t \in Own(cfg) :
    \/ tables[t] = Installed(t, cfg)
    \/ t[1] = "nft" /\ hits > 0

(* No leftover of a killed daemon can keep the next one from starting: a    *)
(* setup is rolled back only if one of its commands failed for a reason of  *)
(* its own.  The cleanup that opens setup must get every partial ruleset    *)
(* out of the way, in the order the kernel accepts (ipv4ipt.c:229-255).     *)
StartsFromAnyLeftover ==
  [][phase = "setup" /\ phase' = "rollback" => hits > 0 \/ failures' > failures]_firewall

(* A cleanup of which no command failed leaves nothing of the daemon's own  *)
(* tables, after a complete installation and after a partial one alike      *)
(* (nfrules.c:92-95, :99-122).                                              *)
CleanupLeavesNothing ==
  phase \in {"rollback", "cleanup"} /\ pending = << >> /\ hits = 0 =>
    \A t \in Own(cfg) : tables[t] = Empty(t[1])

(* One command of an iptables cleanup may fail, and no packet is queued     *)
(* once it has ended: R is flushed, or nothing leads to it.                 *)
OneFaultLeavesNoQueue ==
  phase \in {"rollback", "cleanup"} /\ pending = << >> /\ hits <= 1 =>
    \A t \in Own(cfg) : t[1] = "ipt" =>
      \A p \in Packet(t[2]) : \A base \in {"PRE", "POST"} : ~Queues(t, base, p)

(* With nft, an interface whose packets are queued, and so answered with    *)
(* decoys, already drops the ICMP errors the decoys provoke (ipv4nft.c:37-  *)
(* 121): the drop rule is inserted before the jump is added.                *)
ExpiredDroppedWhereQueued ==
  \A f \in Family, i \in Iface, base \in {"PRE", "POST"} :
    Queues(<<"nft", f>>, base, [iface |-> i, peer |-> Public, kind |-> "udp"]) =>
      Traverse(tables[<<"nft", f>>], "PRE", [iface |-> i, peer |-> Public, kind |-> "expired"]) = "drop"
=============================================================================
