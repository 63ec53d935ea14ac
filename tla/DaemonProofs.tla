---------------------------- MODULE DaemonProofs ----------------------------
(***************************************************************************)
(* Theorems about the life of one daemon's firewall rules (module Nfrules)  *)
(* and about all daemons of a host (module Daemon), for every number of     *)
(* daemons, every configuration and every bound on what goes wrong.         *)
(***************************************************************************)
EXTENDS Daemon, Nfrules, RulesetProofs, FiniteSetTheorems

-----------------------------------------------------------------------------
(* What is always so: every table has the right shape, and the script that   *)
(* is running has come as far as its tables show.                            *)
RulesHeld ==
  /\ works \in NftWorks /\ cfg \in Configuration
  /\ Shapely(tables)
  /\ phase \in {"off", "setup", "up", "rollback", "cleanup"}
  /\ hits \in Nat /\ failures \in 0..MaxFailures /\ hits <= failures
ScriptHeld ==
  /\ phase \in {"off", "up"} => pending = << >>
  /\ phase = "setup" => Progress(cfg, TRUE, pending, tables, hits)
  /\ phase \in {"rollback", "cleanup"} => Progress(cfg, FALSE, pending, tables, hits)
  /\ phase = "up" => ExactWhenUp
RulesInv == RulesHeld /\ ScriptHeld

LEMMA RulesStart == RulesInit => RulesInv
<1> SUFFICES ASSUME RulesInit PROVE RulesInv
  OBVIOUS
<1>1. tables = [t \in Table |-> Empty(t[1])]
  BY DEF RulesInit
<1>2. Shapely(tables)
  BY <1>1, EmptyShape DEF Shapely
<1>3. cfg \in Configuration
  BY ConfigsAssumption DEF RulesInit
<1> QED
  BY <1>2, <1>3, FailuresAssumption DEF RulesInit, RulesInv, RulesHeld, ScriptHeld

LEMMA ExactAtEnd ==
  ASSUME RulesHeld, phase = "setup", pending = << >>, ScriptHeld, NEW t \in Own(cfg)
  PROVE  tables[t] = Installed(t, cfg) \/ (t[1] = "nft" /\ hits > 0)
<1>1. Progress(cfg, TRUE, << >>, tables, hits) /\ cfg \in Configuration /\ hits \in Nat
  BY DEF RulesHeld, ScriptHeld
<1>2. t[2] \in Family /\ Uses(t[2], cfg) /\ t = Mine(t[2], cfg)
  BY <1>1, OwnIs
<1>3. TableAt(t[2], cfg, TRUE, Len(Work(t[2], cfg, TRUE)), tables[Mine(t[2], cfg)], hits)
  BY <1>1, <1>2, ProgressEnds
<1> QED
  BY <1>1, <1>2, <1>3, SetupEnd

(* Where a script is running, its next command is one of the script.         *)
LEMMA RunningStep ==
  ASSUME RulesInv, Running
  PROVE  LET up  == phase = "setup"
             new == [tables EXCEPT ![Head(pending).table] = Result(Cmd, @)]
         IN  /\ Head(pending).must \in BOOLEAN /\ (Head(pending).must => up)
             /\ Possible(Cmd, Target) => Shapely(new) /\ Progress(cfg, up, Tail(pending), new, hits)
             /\ ~Head(pending).must => /\ ~Possible(Cmd, Target) => Progress(cfg, up, Tail(pending), tables, hits)
                                       /\ Progress(cfg, up, Tail(pending), tables, hits + 1)
             /\ Head(pending).must /\ hits = 0 => Possible(Cmd, Target)
<1> DEFINE job == Head(pending)
           new == [tables EXCEPT ![job.table] = Result(job.cmd, @)]
<1>1. cfg \in Configuration /\ hits \in Nat /\ Shapely(tables) /\ pending # << >>
  BY DEF RulesInv, RulesHeld, Running
<1>2. ASSUME NEW up \in BOOLEAN, Progress(cfg, up, pending, tables, hits)
      PROVE  /\ job.must \in BOOLEAN /\ (job.must => up)
             /\ Possible(job.cmd, tables[job.table]) => Shapely(new) /\ Progress(cfg, up, Tail(pending), new, hits)
             /\ ~job.must => /\ ~Possible(job.cmd, tables[job.table]) => Progress(cfg, up, Tail(pending), tables, hits)
                             /\ Progress(cfg, up, Tail(pending), tables, hits + 1)
             /\ job.must /\ hits = 0 => Possible(job.cmd, tables[job.table])
  BY <1>1, <1>2, ProgressStep
<1>3. CASE phase = "setup"
  <2>1. Progress(cfg, TRUE, pending, tables, hits) /\ TRUE \in BOOLEAN /\ (phase = "setup") = TRUE
    BY <1>3 DEF RulesInv, ScriptHeld
  <2> QED
    BY <1>2, <2>1, Zenon DEF Cmd, Target
<1>4. CASE phase # "setup"
  <2>1. Progress(cfg, FALSE, pending, tables, hits) /\ FALSE \in BOOLEAN /\ (phase = "setup") = FALSE
    BY <1>4 DEF RulesInv, ScriptHeld, Running
  <2> QED
    BY <1>2, <2>1, Zenon DEF Cmd, Target
<1> QED
  BY <1>3, <1>4

(* A script begins, or goes on, over tables of the right shape.              *)
LEMMA HoldsWhile ==
  ASSUME works' \in NftWorks, cfg' \in Configuration, Shapely(tables'),
         failures' \in 0..MaxFailures, hits' \in Nat, hits' <= failures',
         \/ phase' = "setup" /\ Progress(cfg', TRUE, pending', tables', hits')
         \/ phase' \in {"rollback", "cleanup"} /\ Progress(cfg', FALSE, pending', tables', hits')
         \/ phase' = "off" /\ pending' = << >>
  PROVE  RulesInv'
  BY DEF RulesInv, RulesHeld, ScriptHeld

LEMMA RulesKept == RulesInv /\ [RulesNext]_firewall => RulesInv'
<1> SUFFICES ASSUME RulesInv, [RulesNext]_firewall PROVE RulesInv'
  OBVIOUS
<1>1. /\ works \in NftWorks /\ cfg \in Configuration /\ Shapely(tables)
      /\ failures \in 0..MaxFailures /\ failures \in Nat /\ hits \in Nat /\ hits <= failures /\ 0 <= failures
      /\ phase \in {"off", "setup", "up", "rollback", "cleanup"}
      /\ MaxFailures \in Nat
  BY FailuresAssumption DEF RulesInv, RulesHeld
<1>2. ScriptHeld
  BY DEF RulesInv
<1>3. ASSUME NEW c \in Configs[works], Start(c) PROVE RulesInv'
  <2>1. c \in Configuration /\ works \in BOOLEAN
    BY <1>1, ConfigsAssumption
  <2>2. cfg' \in Configuration
    <3>1. PICK ipt \in BOOLEAN : cfg' = [c EXCEPT !.use_iptables = ipt]
      BY <1>3, <2>1 DEF Start, Configuration
    <3> QED
      BY <2>1, <3>1 DEF Configuration
  <2>3. phase' = "setup" /\ pending' = Whole(cfg', TRUE) /\ hits' = 0 /\ UNCHANGED <<works, tables>>
    BY <1>3, WholeSays DEF Start
  <2>4. Progress(cfg', TRUE, pending', tables', hits')
    BY <2>2, <2>3, ProgressBegins
  <2>5. failures' \in 0..MaxFailures /\ 0 <= failures'
    BY <1>1, <1>3 DEF Start
  <2> QED
    BY <1>1, <2>2, <2>3, <2>4, <2>5, HoldsWhile
<1>4. ASSUME Running, NEW k \in Nat, Progress(cfg, phase = "setup", Tail(pending), tables', k), Shapely(tables'),
             pending' = Tail(pending), UNCHANGED <<cfg, phase, works>>, hits' = k,
             failures' \in 0..MaxFailures, k <= failures'
      PROVE  RulesInv'
  <2>1. CASE phase = "setup"
    <3>1. (phase = "setup") = TRUE
      BY <2>1
    <3>2. Progress(cfg, TRUE, pending', tables', hits')
      BY <1>4, <3>1, Zenon
    <3> QED
      BY <1>1, <1>4, <2>1, <3>2, HoldsWhile
  <2>2. CASE phase # "setup"
    <3>1. (phase = "setup") = FALSE /\ phase \in {"rollback", "cleanup"}
      BY <1>4, <2>2 DEF Running
    <3>2. Progress(cfg, FALSE, pending', tables', hits')
      BY <1>4, <3>1, Zenon
    <3> QED
      BY <1>1, <1>4, <3>1, <3>2, HoldsWhile
  <2> QED
    BY <2>1, <2>2
<1>5. ASSUME Rollback, hits' = 0, UNCHANGED works, Shapely(tables'), failures' \in 0..MaxFailures
      PROVE  RulesInv'
  <2>1. phase' = "rollback" /\ pending' = Whole(cfg, FALSE) /\ cfg' = cfg
    BY <1>5, WholeSays DEF Rollback
  <2>2. Progress(cfg, FALSE, pending', tables', 0)
    BY <1>1, <2>1, ProgressBegins
  <2>3. 0 \in Nat /\ 0 <= failures'
    BY <1>1, <1>5
  <2> QED
    BY <1>1, <1>5, <2>1, <2>2, <2>3, HoldsWhile
<1>6. ASSUME CommandSucceeds PROVE RulesInv'
  <2>1. /\ Running /\ Possible(Cmd, Target) /\ pending' = Tail(pending) /\ UNCHANGED <<works, cfg, phase, hits, failures>>
        /\ tables' = [tables EXCEPT ![Head(pending).table] = Result(Cmd, @)]
    BY <1>6 DEF CommandSucceeds, Take, Proceed
  <2>2. Shapely(tables') /\ Progress(cfg, phase = "setup", Tail(pending), tables', hits)
    BY <2>1, RunningStep
  <2> QED
    BY <1>1, <1>4, <2>1, <2>2
<1>7. ASSUME CommandRefused PROVE RulesInv'
  <2>1. /\ Running /\ ~Possible(Cmd, Target) /\ UNCHANGED <<works, tables, failures>>
        /\ IF Head(pending).must THEN Rollback /\ hits' = 0 ELSE Proceed /\ UNCHANGED hits
    BY <1>7 DEF CommandRefused
  <2>2. CASE Head(pending).must
    BY <1>1, <1>5, <2>1, <2>2
  <2>3. CASE ~Head(pending).must
    <3>1. Progress(cfg, phase = "setup", Tail(pending), tables, hits)
      BY <2>1, <2>3, RunningStep
    <3>2. pending' = Tail(pending) /\ UNCHANGED <<cfg, phase, hits>>
      BY <2>1, <2>3 DEF Proceed
    <3> QED
      BY <1>1, <1>4, <2>1, <3>1, <3>2
  <2> QED
    BY <2>2, <2>3
<1>8. ASSUME CommandFaults PROVE RulesInv'
  <2>1. /\ Running /\ failures < MaxFailures /\ failures' = failures + 1 /\ UNCHANGED works
        /\ \/ tables' = tables
           \/ /\ Possible(Cmd, Target)
              /\ tables' = [tables EXCEPT ![Head(pending).table] = Result(Cmd, @)]
        /\ IF Head(pending).must THEN Rollback /\ hits' = 0 ELSE Proceed /\ hits' = hits + 1
    BY <1>8 DEF CommandFaults, Take
  <2>2. failures' \in 0..MaxFailures /\ hits + 1 \in Nat /\ hits + 1 <= failures'
    BY <1>1, <2>1
  <2>3. Shapely(tables')
    BY <1>1, <2>1, RunningStep
  <2>4. CASE Head(pending).must
    BY <1>5, <2>1, <2>2, <2>3, <2>4
  <2>5. CASE ~Head(pending).must
    <3>1. Progress(cfg, phase = "setup", Tail(pending), tables', hits + 1)
      <4>1. CASE tables' = tables
        BY <2>1, <2>5, <4>1, RunningStep
      <4>2. CASE Possible(Cmd, Target) /\ tables' = [tables EXCEPT ![Head(pending).table] = Result(Cmd, @)]
        <5>1. Progress(cfg, phase = "setup", Tail(pending), tables', hits)
          BY <2>1, <4>2, RunningStep
        <5> QED
          BY <1>1, <5>1, ProgressMisses
      <4> QED
        BY <2>1, <4>1, <4>2
    <3>2. pending' = Tail(pending) /\ UNCHANGED <<cfg, phase>> /\ hits' = hits + 1
      BY <2>1, <2>5 DEF Proceed
    <3> QED
      BY <1>4, <2>1, <2>2, <2>3, <3>1, <3>2
  <2> QED
    BY <2>4, <2>5
<1>9. ASSUME ScriptEnds PROVE RulesInv'
  <2>1. /\ phase \in {"setup", "rollback", "cleanup"} /\ pending = << >>
        /\ phase' = IF phase = "setup" THEN "up" ELSE "off"
        /\ UNCHANGED <<works, tables, cfg, pending, hits, failures>>
    BY <1>9 DEF ScriptEnds
  <2>2. CASE phase = "setup"
    <3>1. RulesHeld'
      BY <1>1, <2>1, <2>2 DEF RulesHeld
    <3>2. \A t \in Own(cfg) : tables[t] = Installed(t, cfg) \/ (t[1] = "nft" /\ hits > 0)
      BY <2>1, <2>2, ExactAtEnd DEF RulesInv
    <3>3. ExactWhenUp'
      BY <2>1, <3>2 DEF ExactWhenUp
    <3>4. ScriptHeld'
      BY <2>1, <2>2, <3>3 DEF ScriptHeld
    <3> QED
      BY <3>1, <3>4 DEF RulesInv
  <2>3. CASE phase # "setup"
    BY <1>1, <2>1, <2>3, HoldsWhile
  <2> QED
    BY <2>2, <2>3
<1>10. ASSUME Stop PROVE RulesInv'
  <2>1. phase' = "cleanup" /\ pending' = Whole(cfg, FALSE) /\ hits' = 0 /\ UNCHANGED <<works, tables, cfg, failures>>
    BY <1>10, WholeSays DEF Stop
  <2>2. Progress(cfg, FALSE, pending', tables', 0)
    BY <1>1, <2>1, ProgressBegins
  <2> QED
    BY <1>1, <2>1, <2>2, HoldsWhile
<1>11. ASSUME DaemonDies PROVE RulesInv'
  <2>1. /\ phase' = "off" /\ pending' = << >> /\ UNCHANGED <<works, cfg, hits, failures>>
        /\ \/ tables' = tables
           \/ /\ Running /\ Possible(Cmd, Target)
              /\ tables' = [tables EXCEPT ![Head(pending).table] = Result(Cmd, @)]
    BY <1>11 DEF DaemonDies, Take
  <2>2. Shapely(tables')
    BY <1>1, <2>1, RunningStep
  <2> QED
    BY <1>1, <2>1, <2>2, HoldsWhile
<1>12. CASE UNCHANGED firewall
  BY <1>12 DEF firewall, RulesInv, RulesHeld, ScriptHeld, ExactWhenUp
<1> QED
  BY <1>3, <1>6, <1>7, <1>8, <1>9, <1>10, <1>11, <1>12 DEF RulesNext

LEMMA RulesAlways == RulesSpec => []RulesInv
<1>1. RulesInit => RulesInv
  BY RulesStart
<1>2. RulesInv /\ [RulesNext]_firewall => RulesInv'
  BY RulesKept
<1> QED
  BY <1>1, <1>2, PTL DEF RulesSpec

LEMMA RulesTyped == RulesInv => RulesTypeOK
<1> SUFFICES ASSUME RulesInv PROVE RulesTypeOK
  OBVIOUS
<1>1. ASSUME NEW t \in Table PROVE DOMAIN tables[t] \subseteq Chains
  BY DEF RulesInv, RulesHeld, Shapely, Shape, IptShape, NftShape, Chains
<1>2. MaxFailures \in Nat /\ cfg \in Configuration
  BY FailuresAssumption DEF RulesInv, RulesHeld
<1>3. hits \in 0..MaxFailures
  BY <1>2 DEF RulesInv, RulesHeld
<1>4. cfg.use_iptables \in BOOLEAN
  BY <1>2 DEF Configuration
<1> QED
  BY <1>1, <1>3, <1>4 DEF RulesTypeOK, RulesInv, RulesHeld, ScriptHeld

(* Whatever failed and whatever a killed daemon left behind, no packet of an *)
(* excluded network and no decoy is queued (ipv4ipt.c:161-249).              *)
THEOREM OnlyCandidatesQueued == RulesSpec => []QueuesOnlyCandidates
<1>1. RulesInv => QueuesOnlyCandidates
  <2> SUFFICES ASSUME RulesInv PROVE QueuesOnlyCandidates
    OBVIOUS
  <2>1. ASSUME NEW t \in Table, NEW p \in Packet(t[2]), NEW base \in {"PRE", "POST"}, Queues(t, base, p)
        PROVE  p.peer = Public /\ p.kind # "decoy"
    <3>1. Shape(t, tables[t])
      BY DEF RulesInv, RulesHeld, Shapely
    <3>2. p.peer = Public /\ p.kind = "udp"
      BY <2>1, <3>1, ShapeQueues DEF Queues
    <3> QED
      BY <3>2
  <2> QED
    BY <2>1, RulesTyped DEF QueuesOnlyCandidates
<1> QED
  BY <1>1, RulesAlways, PTL

(* A daemon that is up has exactly the rules of its configuration, but with  *)
(* nft after a failed cleanup (ipv4nft.c:180, :205-210).                     *)
THEOREM ExactlyConfigured == RulesSpec => []ExactWhenUp
<1>1. RulesInv => ExactWhenUp
  BY DEF RulesInv, ScriptHeld, ExactWhenUp
<1> QED
  BY <1>1, RulesAlways, PTL

(* A cleanup of which nothing failed leaves nothing (nfrules.c:99-122).      *)
THEOREM NothingLeft == RulesSpec => []CleanupLeavesNothing
<1>1. RulesInv => CleanupLeavesNothing
  <2> SUFFICES ASSUME RulesInv, phase \in {"rollback", "cleanup"}, pending = << >>, hits = 0, NEW t \in Own(cfg)
               PROVE  tables[t] = Empty(t[1])
    BY DEF CleanupLeavesNothing
  <2>1. cfg \in Configuration /\ Progress(cfg, FALSE, << >>, tables, hits) /\ Shapely(tables)
    BY DEF RulesInv, RulesHeld, ScriptHeld
  <2>2. t[2] \in Family /\ Uses(t[2], cfg) /\ t = Mine(t[2], cfg) /\ t \in Table
    BY <2>1, OwnIs
  <2>3. TableAt(t[2], cfg, FALSE, Len(Work(t[2], cfg, FALSE)), tables[t], hits)
    BY <2>1, <2>2, ProgressEnds
  <2>4. Shape(t, tables[t])
    BY <2>1, <2>2 DEF Shapely
  <2> QED
    BY <2>1, <2>2, <2>3, <2>4, CleanupEnd
<1> QED
  BY <1>1, RulesAlways, PTL

(* One command of an iptables cleanup may fail: nothing is queued after it.  *)
THEOREM OneFailureIsHarmless == RulesSpec => []OneFaultLeavesNoQueue
<1>1. RulesInv => OneFaultLeavesNoQueue
  <2> SUFFICES ASSUME RulesInv, phase \in {"rollback", "cleanup"}, pending = << >>, hits <= 1,
                      NEW t \in Own(cfg), t[1] = "ipt",
                      NEW p \in Packet(t[2]), NEW base \in {"PRE", "POST"}, Queues(t, base, p)
               PROVE  FALSE
    BY DEF OneFaultLeavesNoQueue
  <2>1. /\ cfg \in Configuration /\ Progress(cfg, FALSE, << >>, tables, hits) /\ Shapely(tables) /\ hits \in Nat
    BY DEF RulesInv, RulesHeld, ScriptHeld
  <2>2. t[2] \in Family /\ Uses(t[2], cfg) /\ t = Mine(t[2], cfg) /\ t \in Table
    BY <2>1, OwnIs
  <2>3. cfg.use_iptables
    BY <2>1, <2>2, MineIs
  <2>4. TableAt(t[2], cfg, FALSE, Len(Work(t[2], cfg, FALSE)), tables[t], hits)
    BY <2>1, <2>2, ProgressEnds
  <2>5. Shape(t, tables[t])
    BY <2>1, <2>2 DEF Shapely
  <2>6. Traverse(tables[t], base, p) # "queue"
    BY <2>1, <2>2, <2>3, <2>4, <2>5, CleanupEnd
  <2> QED
    BY <2>6 DEF Queues
<1> QED
  BY <1>1, RulesAlways, PTL

(* With nft, where packets are queued the errors their decoys provoke are    *)
(* already dropped (ipv4nft.c:37-121).                                       *)
THEOREM ErrorsDropped == RulesSpec => []ExpiredDroppedWhereQueued
<1>1. RulesInv => ExpiredDroppedWhereQueued
  <2> SUFFICES ASSUME RulesInv, NEW f \in Family, NEW i \in Iface, NEW base \in {"PRE", "POST"},
                      Queues(<<"nft", f>>, base, [iface |-> i, peer |-> Public, kind |-> "udp"])
               PROVE  Traverse(tables[<<"nft", f>>], "PRE", [iface |-> i, peer |-> Public, kind |-> "expired"]) = "drop"
    BY DEF ExpiredDroppedWhereQueued
  <2>1. <<"nft", f>> \in Table
    BY DEF Table, Backend
  <2>2. NftShape(f, tables[<<"nft", f>>])
    BY <2>1 DEF RulesInv, RulesHeld, Shapely, Shape
  <2> QED
    BY <2>2, ShapeDrops DEF Queues
<1> QED
  BY <1>1, RulesAlways, PTL

(* No leftover keeps the next daemon from starting: a setup is rolled back   *)
(* only after a failure of its own (ipv4ipt.c:229-255).                      *)
THEOREM LeftoversAreNoObstacle == RulesSpec => StartsFromAnyLeftover
<1>1. ASSUME RulesInv, RulesNext, phase = "setup", phase' = "rollback" PROVE hits > 0 \/ failures' > failures
  <2>1. hits \in Nat /\ failures \in Nat
    BY <1>1, FailuresAssumption DEF RulesInv, RulesHeld
  <2>2. CASE CommandRefused
    <3>1. Running /\ ~Possible(Cmd, Target) /\ Head(pending).must
      BY <1>1, <2>2 DEF CommandRefused, Proceed
    <3>2. hits # 0
      BY <1>1, <3>1, RunningStep
    <3> QED
      BY <2>1, <3>2
  <2>3. CASE CommandFaults
    BY <2>1, <2>3 DEF CommandFaults
  <2> QED
    BY <1>1, <2>2, <2>3 DEF RulesNext, Start, CommandSucceeds, Proceed, ScriptEnds, Stop, DaemonDies
<1>2. RulesInv /\ [RulesNext]_firewall =>
        [phase = "setup" /\ phase' = "rollback" => hits > 0 \/ failures' > failures]_firewall
  BY <1>1
<1> QED
  BY <1>2, RulesAlways, PTL DEF RulesSpec, StartsFromAnyLeftover

-----------------------------------------------------------------------------
Place == {"off", "setup", "rules", "rollback", "loop", "unrule", "undo"}
Commanding == {"rules", "rollback", "unrule"}

(* What a daemon at a place holds: the stages it has climbed.               *)
Climbed(place, n, stages) ==
  /\ place = "off" => stages = {}
  /\ place \in {"setup", "undo"} => n \in 0..6 /\ stages = Prefix(n)
  /\ place = "rules" => n = 6 /\ stages = Prefix(6)
  /\ place = "rollback" => n = 6 /\ stages \in {Prefix(6), Prefix(7)}
  /\ place \in {"loop", "unrule"} => n = 6 /\ stages = Prefix(7)

Ladder ==
  /\ DOMAIN pc = Proc /\ DOMAIN step = Proc /\ DOMAIN held = Proc /\ DOMAIN child = Proc
  /\ \A p \in Proc : pc[p] \in Place /\ Climbed(pc[p], step[p], held[p])

Listens(p) == "nfq" \in held[p]

(* One user of the queue: a daemon that listens, or what a killed one left.  *)
OneUser ==
  /\ \A p, q \in Proc : Listens(p) /\ Listens(q) => p = q
  /\ \A a, b \in orphans : a = b
  /\ orphans # {} => \A p \in Proc : ~Listens(p)

Commands == \A p \in Proc : child[p] # NoChild => pc[p] \in Commanding

Inv == Ladder /\ OneUser /\ Commands
-----------------------------------------------------------------------------
LEMMA Stages ==
  /\ Top = 7
  /\ Stage[1] = "logger" /\ Stage[2] = "signal" /\ Stage[3] = "payload" /\ Stage[4] = "srcinfo"
  /\ Stage[5] = "rawsend" /\ Stage[6] = "nfq" /\ Stage[7] = "nfrules"
  BY DEF Top, Stage

LEMMA StageByStage ==
  /\ Prefix(0) = {}
  /\ \A n \in 0..6 : Prefix(n + 1) = Prefix(n) \cup {Stage[n + 1]}
<1>1. Prefix(0) = {}
  BY DEF Prefix
<1>2. ASSUME NEW n \in 0..6 PROVE Prefix(n + 1) = Prefix(n) \cup {Stage[n + 1]}
  <2>1. 1..(n + 1) = (1..n) \cup {n + 1}
    OBVIOUS
  <2> QED BY <2>1 DEF Prefix
<1> QED BY <1>1, <1>2

(* A stage is in no prefix below it.                                        *)
LEMMA Fresh == \A n \in 0..6 : Stage[n + 1] \notin Prefix(n)
<1>1. ASSUME NEW n \in 0..6, NEW k \in 1..n PROVE Stage[k] # Stage[n + 1]
  BY Stages
<1> QED BY <1>1 DEF Prefix

LEMMA ListensFrom6 == \A n \in 0..7 : "nfq" \in Prefix(n) <=> n >= 6
<1>1. ASSUME NEW n \in 0..7, NEW k \in 1..n PROVE Stage[k] = "nfq" <=> k = 6
  BY Stages
<1>2. ASSUME NEW n \in 0..7 PROVE "nfq" \in Prefix(n) <=> \E k \in 1..n : Stage[k] = "nfq"
  BY DEF Prefix
<1> QED BY <1>1, <1>2

LEMMA Down == \A n \in 1..7 : Prefix(n) \ {Stage[n]} = Prefix(n - 1)
<1> TAKE n \in 1..7
<1> DEFINE m == n - 1
<1>1. m \in 0..6 /\ n = m + 1
  OBVIOUS
<1>2. Prefix(m + 1) = Prefix(m) \cup {Stage[m + 1]} /\ Stage[m + 1] \notin Prefix(m)
  BY <1>1, StageByStage, Fresh
<1> QED BY <1>1, <1>2

LEMMA InitInv == Init => Inv
  BY DEF Init, Inv, Ladder, Climbed, OneUser, Listens, Commands, Place, Prefix

(* While a command runs, its daemon is the one user of the queue.            *)
LEMMA CommandListens ==
  ASSUME Inv, NEW p \in Proc, pc[p] \in Commanding \cup {"loop"}
  PROVE  Listens(p)
  BY ListensFrom6 DEF Inv, Ladder, Climbed, Listens, Commanding
-----------------------------------------------------------------------------
(* Nothing changes for the other daemons.                                   *)
Alone(p) ==
  /\ DOMAIN pc' = Proc /\ DOMAIN step' = Proc /\ DOMAIN held' = Proc /\ DOMAIN child' = Proc
  /\ \A q \in Proc \ {p} :
       pc'[q] = pc[q] /\ step'[q] = step[q] /\ held'[q] = held[q] /\ child'[q] = child[q]

(* A step of one daemon that does not bind the queue.                        *)
LEMMA Private ==
  ASSUME Inv, NEW p \in Proc, Alone(p),
         pc'[p] \in Place, Climbed(pc'[p], step'[p], held'[p]),
         Listens(p)' => Listens(p),
         child'[p] # NoChild => pc'[p] \in Commanding,
         UNCHANGED orphans
  PROVE  Inv'
<1>1. Ladder'
  BY DEF Inv, Ladder, Alone
<1>2. \A q \in Proc : Listens(q)' => Listens(q)
  BY DEF Alone, Listens
<1>3. OneUser'
  BY <1>2 DEF Inv, OneUser
<1>4. Commands'
  BY DEF Inv, Alone, Commands
<1> QED BY <1>1, <1>3, <1>4 DEF Inv

LEMMA LaunchPreserves ==
  ASSUME Inv, NEW p \in Proc, Launch(p)
  PROVE  Inv'
<1> USE DEF Launch, Go, kernel
<1>1. Alone(p) /\ pc'[p] = "setup" /\ step'[p] = 0 /\ held'[p] = {} /\ child'[p] = child[p]
  BY DEF Inv, Ladder, Climbed, Alone
<1>2. child[p] = NoChild
  BY DEF Inv, Commands, Commanding
<1>3. Climbed(pc'[p], step'[p], held'[p])
  BY <1>1, StageByStage DEF Climbed
<1> QED BY <1>1, <1>2, <1>3, Private DEF Place, Listens

(* Binding the queue makes the daemon its user; every other stage is its own *)
(* business.                                                                *)
LEMMA StagePreserves ==
  ASSUME Inv, NEW p \in Proc, StageSucceeds(p)
  PROVE  Inv'
<1> DEFINE n == step[p]
<1>1. n \in 0..5 /\ pc[p] = "setup" /\ held[p] = Prefix(n)
  BY Stages DEF Inv, Ladder, Climbed, StageSucceeds
<1>2. Alone(p) /\ pc'[p] = "setup" /\ step'[p] = n + 1 /\ held'[p] = held[p] \cup {Stage[n + 1]}
      /\ child'[p] = child[p] /\ UNCHANGED orphans
  BY <1>1 DEF Inv, Ladder, Alone, StageSucceeds, kernel
<1>3. child[p] = NoChild
  BY <1>1 DEF Inv, Commands, Commanding
<1>4. Climbed(pc'[p], step'[p], held'[p])
  BY <1>1, <1>2, StageByStage DEF Climbed
<1>5. CASE n # 5
  <2>1. Stage[n + 1] # "nfq"
    BY <1>1, <1>5, Stages
  <2> QED BY <1>2, <1>3, <1>4, <2>1, Private DEF Place, Listens
<1>6. CASE n = 5
  <2>1. ~QueueBound
    BY <1>1, <1>6, Stages DEF StageSucceeds
  <2>2. Ladder' /\ Commands'
    BY <1>2, <1>3, <1>4 DEF Inv, Ladder, Alone, Commands, Place
  <2>3. orphans' = {} /\ \A q \in Proc \ {p} : ~Listens(q)'
    BY <1>2, <2>1 DEF QueueBound, Alone, Listens
  <2> QED BY <2>2, <2>3 DEF Inv, OneUser
<1> QED BY <1>5, <1>6

LEMMA StageFailsPreserves ==
  ASSUME Inv, NEW p \in Proc, StageFails(p)
  PROVE  Inv'
<1>1. /\ pc[p] = "setup" /\ Alone(p) /\ pc'[p] = "undo"
      /\ step'[p] = step[p] /\ held'[p] = held[p] /\ child'[p] = child[p] /\ UNCHANGED orphans
  BY DEF Inv, Ladder, Alone, StageFails, Go, kernel
<1>2. child[p] = NoChild /\ Climbed(pc'[p], step'[p], held'[p])
  BY <1>1 DEF Inv, Ladder, Climbed, Commands, Commanding
<1> QED BY <1>1, <1>2, Private DEF Place, Listens

LEMMA RulesBeginPreserves ==
  ASSUME Inv, NEW p \in Proc, RulesBegin(p)
  PROVE  Inv'
<1>1. /\ pc[p] = "setup" /\ step[p] = 6 /\ Alone(p) /\ pc'[p] = "rules"
      /\ step'[p] = step[p] /\ held'[p] = held[p] /\ child'[p] = child[p] /\ UNCHANGED orphans
  BY Stages DEF Inv, Ladder, Alone, RulesBegin, Go, kernel
<1>2. child[p] = NoChild /\ Climbed(pc'[p], step'[p], held'[p])
  BY <1>1 DEF Inv, Ladder, Climbed, Commands, Commanding
<1> QED BY <1>1, <1>2, Private DEF Place, Listens

LEMMA ForkPreserves ==
  ASSUME Inv, NEW p \in Proc, Fork(p)
  PROVE  Inv'
<1>1. /\ pc[p] \in Commanding /\ Alone(p) /\ pc'[p] = pc[p]
      /\ step'[p] = step[p] /\ held'[p] = held[p] /\ UNCHANGED orphans
  BY DEF Inv, Ladder, Alone, Fork, kernel, Commanding
<1>2. pc[p] \in Place /\ Climbed(pc'[p], step'[p], held'[p])
  BY <1>1 DEF Inv, Ladder
<1> QED BY <1>1, <1>2, Private DEF Listens

LEMMA ReapedPreserves ==
  ASSUME Inv, NEW p \in Proc, NEW ok, child[p] # NoChild, Reaped(p, ok)
  PROVE  Inv'
<1>1. pc[p] \in Commanding
  BY DEF Inv, Commands
<1>2. /\ Alone(p) /\ pc'[p] \in {pc[p], "rollback"} /\ child'[p] = NoChild
      /\ step'[p] = step[p] /\ held'[p] = held[p] /\ UNCHANGED orphans
  BY DEF Inv, Ladder, Alone, Reaped, Go
<1>3. Climbed(pc'[p], step'[p], held'[p]) /\ pc'[p] \in Place
  BY <1>1, <1>2 DEF Inv, Ladder, Climbed, Commanding, Place
<1> QED BY <1>2, <1>3, Private DEF Listens

LEMMA CommandPreserves ==
  ASSUME Inv, NEW p \in Proc, CommandEnds(p) \/ CommandKilled(p)
  PROVE  Inv'
<1>1. CASE CommandEnds(p)
  <2>1. child[p] # NoChild /\ Reaped(p, Works(child[p].job))
    BY <1>1 DEF CommandEnds
  <2> QED BY <2>1, ReapedPreserves
<1>2. CASE CommandKilled(p)
  BY <1>2, ReapedPreserves DEF CommandKilled
<1> QED BY <1>1, <1>2

LEMMA ScriptDonePreserves ==
  ASSUME Inv, NEW p \in Proc, ScriptDone(p)
  PROVE  Inv'
<1>1. Prefix(7) = Prefix(6) \cup {"nfrules"} /\ "nfrules" \notin Prefix(6)
  BY StageByStage, Stages, Fresh
<1>2. CASE pc[p] = "rules"
  <2>1. /\ Alone(p) /\ pc'[p] = "loop" /\ step'[p] = step[p] /\ held'[p] = held[p] \cup {"nfrules"}
        /\ child'[p] = NoChild /\ UNCHANGED orphans
    BY <1>2 DEF Inv, Ladder, Alone, ScriptDone, Go, kernel
  <2>2. Climbed(pc'[p], step'[p], held'[p])
    BY <1>1, <1>2, <2>1 DEF Inv, Ladder, Climbed
  <2> QED BY <2>1, <2>2, Private DEF Place, Listens
<1>3. CASE pc[p] \in {"rollback", "unrule"}
  <2>1. /\ Alone(p) /\ pc'[p] = "undo" /\ step'[p] = step[p] /\ held'[p] = held[p] \ {"nfrules"}
        /\ child'[p] = NoChild /\ UNCHANGED orphans
    BY <1>3 DEF Inv, Ladder, Alone, ScriptDone, Go, kernel
  <2>2. Climbed(pc'[p], step'[p], held'[p])
    BY <1>1, <1>3, <2>1 DEF Inv, Ladder, Climbed
  <2> QED BY <2>1, <2>2, Private DEF Place, Listens
<1> QED BY <1>2, <1>3 DEF ScriptDone

LEMMA LoopEndsPreserves ==
  ASSUME Inv, NEW p \in Proc, LoopEnds(p)
  PROVE  Inv'
<1>1. /\ pc[p] = "loop" /\ Alone(p) /\ pc'[p] = "unrule"
      /\ step'[p] = step[p] /\ held'[p] = held[p] /\ child'[p] = child[p] /\ UNCHANGED orphans
  BY DEF Inv, Ladder, Alone, LoopEnds, Go, kernel
<1>2. child[p] = NoChild /\ Climbed(pc'[p], step'[p], held'[p])
  BY <1>1 DEF Inv, Ladder, Climbed, Commands, Commanding
<1> QED BY <1>1, <1>2, Private DEF Place, Listens

LEMMA UndoPreserves ==
  ASSUME Inv, NEW p \in Proc, Undo(p)
  PROVE  Inv'
<1> DEFINE n == step[p]
<1>1. n \in 1..6 /\ pc[p] = "undo" /\ held[p] = Prefix(n)
  BY DEF Inv, Ladder, Climbed, Undo
<1>2. /\ Alone(p) /\ pc'[p] = "undo" /\ step'[p] = n - 1 /\ held'[p] = held[p] \ {Stage[n]}
      /\ child'[p] = child[p] /\ UNCHANGED orphans
  BY <1>1 DEF Inv, Ladder, Alone, Undo, kernel
<1>3. child[p] = NoChild
  BY <1>1 DEF Inv, Commands, Commanding
<1>4. Climbed(pc'[p], step'[p], held'[p])
  BY <1>1, <1>2, Down DEF Climbed
<1> QED BY <1>2, <1>3, <1>4, Private DEF Place, Listens

LEMMA ExitPreserves ==
  ASSUME Inv, NEW p \in Proc, Exit(p)
  PROVE  Inv'
<1>1. /\ pc[p] = "undo" /\ step[p] = 0 /\ Alone(p) /\ pc'[p] = "off"
      /\ step'[p] = step[p] /\ held'[p] = held[p] /\ child'[p] = child[p] /\ UNCHANGED orphans
  BY DEF Inv, Ladder, Alone, Exit, Go, kernel
<1>2. child[p] = NoChild /\ Climbed(pc'[p], step'[p], held'[p])
  BY <1>1, StageByStage DEF Inv, Ladder, Climbed, Commands, Commanding
<1> QED BY <1>1, <1>2, Private DEF Place, Listens

(* A command that outlives its daemon takes over its place at the queue.     *)
LEMMA DiesPreserves ==
  ASSUME Inv, NEW p \in Proc, Dies(p)
  PROVE  Inv'
<1>1. /\ Alone(p) /\ pc'[p] = "off" /\ step'[p] = 0 /\ held'[p] = {} /\ child'[p] = NoChild
      /\ orphans' = orphans \cup ({child[p]} \ {NoChild})
  BY DEF Inv, Ladder, Alone, Dies, Go
<1>2. Climbed(pc'[p], step'[p], held'[p])
  BY <1>1 DEF Climbed
<1>3. CASE child[p] = NoChild
  BY <1>1, <1>2, <1>3, Private DEF Place, Listens
<1>4. CASE child[p] # NoChild
  <2>1. Listens(p)
    BY <1>4, CommandListens DEF Inv, Commands
  <2>2. orphans' = {child[p]} /\ \A q \in Proc \ {p} : ~Listens(q)
    BY <1>1, <1>4, <2>1 DEF Inv, OneUser
  <2>3. \A q \in Proc : ~Listens(q)'
    BY <1>1, <2>2 DEF Alone, Listens
  <2>4. Ladder' /\ Commands'
    BY <1>1, <1>2 DEF Inv, Ladder, Alone, Commands, Place
  <2> QED BY <2>2, <2>3, <2>4 DEF Inv, OneUser
<1> QED BY <1>3, <1>4

LEMMA SignalPreserves ==
  ASSUME Inv, NEW p \in Proc, Crash(p) \/ Terminate(p)
  PROVE  Inv'
<1>1. CASE Dies(p)
  BY <1>1, DiesPreserves
<1>2. CASE UNCHANGED <<pc, step, held, child, orphans>>
  BY <1>2 DEF Inv, Ladder, OneUser, Commands, Listens
<1> QED BY <1>1, <1>2 DEF Crash, Terminate, kernel

LEMMA OrphanPreserves ==
  ASSUME Inv, NEW o \in orphans, OrphanEnds(o)
  PROVE  Inv'
<1>1. UNCHANGED <<pc, step, held, child>> /\ orphans' \subseteq orphans
  BY DEF OrphanEnds
<1>2. Ladder' /\ Commands'
  BY <1>1 DEF Inv, Ladder, Commands
<1>3. OneUser'
  BY <1>1 DEF Inv, OneUser, Listens
<1> QED BY <1>2, <1>3 DEF Inv
-----------------------------------------------------------------------------
LEMMA NextInv == Inv /\ [Next]_vars => Inv'
<1> SUFFICES ASSUME Inv, [Next]_vars PROVE Inv'
  OBVIOUS
<1>1. ASSUME NEW p \in Proc, Launch(p) PROVE Inv'
  BY <1>1, LaunchPreserves
<1>2. ASSUME NEW p \in Proc, Step(p) PROVE Inv'
  BY <1>2, StagePreserves, StageFailsPreserves, RulesBeginPreserves, ForkPreserves,
     CommandPreserves, ScriptDonePreserves, LoopEndsPreserves, UndoPreserves, ExitPreserves DEF Step
<1>3. ASSUME NEW p \in Proc, Crash(p) \/ Terminate(p) PROVE Inv'
  BY <1>3, SignalPreserves
<1>4. ASSUME NEW o \in orphans, OrphanEnds(o) PROVE Inv'
  BY <1>4, OrphanPreserves
<1>5. CASE UNCHANGED vars
  BY <1>5 DEF vars, Inv, Ladder, OneUser, Commands, Listens
<1> QED BY <1>1, <1>2, <1>3, <1>4, <1>5 DEF Next

LEMMA Invariance == Spec => []Inv
  BY InitInv, NextInv, PTL DEF Spec
-----------------------------------------------------------------------------
(* A set whose members are all the same has at most one.                     *)
LEMMA AtMostOne ==
  ASSUME NEW S, \A a, b \in S : a = b
  PROVE  IsFiniteSet(S) /\ Cardinality(S) \in 0..1 /\ (S = {} => Cardinality(S) = 0)
<1>1. CASE S = {}
  BY <1>1, FS_EmptySet
<1>2. CASE S # {}
  <2>1. PICK a \in S : TRUE
    BY <1>2
  <2>2. S = {a}
    BY <2>1
  <2>3. IsFiniteSet({a}) /\ Cardinality({a}) = 1
    BY FS_Singleton
  <2>4. IsFiniteSet(S) /\ Cardinality(S) = 1
    BY <2>2, <2>3
  <2> QED BY <1>2, <2>4
<1> QED BY <1>1, <1>2

(* For every number of daemons, kills and failed commands at most one        *)
(* command edits the rules at a time (mainfun.c:451-461, nfqueue.c:53-70).    *)
THEOREM CommandsExclude == Spec => []OneCommandAtATime
<1>1. Inv => OneCommandAtATime
  <2> SUFFICES ASSUME Inv PROVE OneCommandAtATime
    OBVIOUS
  <2>1. \A p \in Editors : p \in Proc /\ Listens(p)
    BY CommandListens DEF Editors, Inv, Commands
  <2>2. Cardinality(Editors) \in 0..1 /\ (Editors = {} => Cardinality(Editors) = 0)
    BY <2>1, AtMostOne DEF Inv, OneUser
  <2>3. Cardinality(orphans) \in 0..1 /\ (orphans = {} => Cardinality(orphans) = 0)
    BY AtMostOne DEF Inv, OneUser
  <2>4. Editors = {} \/ orphans = {}
    BY <2>1 DEF Inv, OneUser
  <2> QED BY <2>2, <2>3, <2>4 DEF OneCommandAtATime
<1> QED BY <1>1, Invariance, PTL

(* What a daemon holds is always a prefix of the ladder of stages, and       *)
(* nothing once it is off, however setup fails or is interrupted             *)
(* (mainfun.c:409-523).                                                      *)
THEOREM LadderIsKept == Spec => []HeldIsPrefix
<1>1. Inv => HeldIsPrefix
  <2> SUFFICES ASSUME Inv, NEW p \in Proc
               PROVE  (\E n \in 0..Top : held[p] = Prefix(n)) /\ (pc[p] = "off" => held[p] = {})
    BY DEF HeldIsPrefix
  <2>1. \E n \in 0..7 : held[p] = Prefix(n)
    BY StageByStage DEF Inv, Ladder, Climbed, Place
  <2> QED BY <2>1, Stages DEF Inv, Ladder, Climbed
<1> QED BY <1>1, Invariance, PTL

-----------------------------------------------------------------------------
(* The daemons and the firewall.  A daemon that runs a script or its packet  *)
(* loop is busy; then no other is.                                           *)
Busy == Commanding \cup {"loop"}

(* A script has come as far as the tables show, having missed nothing unless *)
(* a command it went on after failed.                                        *)
Reached(up, left, T, n) ==
  \E k \in Nat : (n = 0 => k = 0) /\ Progress(Config, up, left, T, k)

Stands(place, left, T, n) ==
  /\ place = "rules" => Reached(TRUE, left, T, n)
  /\ place \in {"rollback", "unrule"} => Reached(FALSE, left, T, n)
  /\ place = "loop" /\ n = 0 => \A t \in Own(Config) : T[t] = Installed(t, Config)

Counters ==
  /\ DOMAIN todo = Proc /\ DOMAIN exit = Proc
  /\ \A p \in Proc : step[p] \in 0..7 /\ exit[p] \in BOOLEAN
  /\ faults \in 0..MaxFaults /\ crashes \in 0..MaxCrashes /\ misses \in 0..faults

(* Only the tables of the shared configuration are ever touched.             *)
TablesHeld == Shapely(nf) /\ \A t \in Table \ Own(Config) : nf[t] = Empty(t[1])

Waits(c, left) == c # NoChild => left # << >> /\ c.job = Head(left)
Each == \A p \in Proc : Stands(pc[p], todo[p], nf, misses) /\ Waits(child[p], todo[p])

(* What a killed daemon left running fits the tables it will find.           *)
Harmless(job, T) ==
  /\ job.table \in Own(Config)
  /\ Possible(job.cmd, T[job.table]) => Shapely([T EXCEPT ![job.table] = Result(job.cmd, @)])
LeftBehind ==
  /\ crashes = 0 => orphans = {}
  /\ \A o \in orphans : Harmless(o.job, nf)

NoRules == \A t \in Table : nf[t] = Empty(t[1])
Quiet == misses = 0 /\ crashes = 0 /\ (\A p \in Proc : pc[p] \notin Busy) => NoRules

FirewallInv == Counters /\ TablesHeld /\ Each /\ LeftBehind /\ Quiet

LEMMA FirewallStart == Init => FirewallInv
<1> SUFFICES ASSUME Init PROVE FirewallInv
  OBVIOUS
<1>1. nf = [t \in Table |-> Empty(t[1])]
  BY DEF Init
<1>2. TablesHeld /\ NoRules
  BY <1>1, EmptyShape DEF TablesHeld, Shapely, NoRules
<1>3. Counters
  BY BoundsAssumption DEF Init, Counters
<1>4. Each
  BY DEF Init, Each, Stands, Waits
<1>5. LeftBehind
  BY DEF Init, LeftBehind
<1> QED
  BY <1>2, <1>3, <1>4, <1>5 DEF FirewallInv, Quiet

LEMMA Looser ==
  ASSUME NEW place, NEW left, NEW T, NEW n \in Nat, NEW m \in Nat, n <= m, Stands(place, left, T, n)
  PROVE  Stands(place, left, T, m)
<1>1. m = 0 => n = 0
  OBVIOUS
<1> QED
  BY <1>1, Zenon DEF Stands, Reached

(* While one daemon is busy there is no other, and no orphan.                *)
LEMMA Elsewhere ==
  ASSUME Inv, NEW p \in Proc, pc[p] \in Busy
  PROVE  orphans = {} /\ \A q \in Proc \ {p} : pc[q] \notin Busy
BY CommandListens DEF Busy, Inv, OneUser

LEMMA Idle == ASSUME NEW place \in Place \ Busy, NEW left, NEW T, NEW n PROVE Stands(place, left, T, n)
  BY DEF Busy, Commanding, Stands
-----------------------------------------------------------------------------
Others(p) ==
  /\ DOMAIN pc' = Proc /\ DOMAIN todo' = Proc /\ DOMAIN child' = Proc
  /\ \A q \in Proc \ {p} : pc'[q] = pc[q] /\ todo'[q] = todo[q] /\ child'[q] = child[q]

(* A step of one daemon that leaves the tables alone.                        *)
LEMMA TablesAlone ==
  ASSUME Inv, FirewallInv, NEW p \in Proc, Others(p), Counters',
         nf' = nf, orphans' = orphans, crashes' = crashes, misses' >= misses,
         Stands(pc'[p], todo'[p], nf, misses'), Waits(child'[p], todo'[p]),
         pc[p] \in Busy /\ pc'[p] \notin Busy /\ misses' = 0 => NoRules
  PROVE  FirewallInv'
<1>1. misses \in Nat /\ misses' \in Nat /\ misses <= misses'
  BY BoundsAssumption DEF FirewallInv, Counters
<1>2. TablesHeld' /\ LeftBehind'
  BY DEF FirewallInv, TablesHeld, LeftBehind
<1>3. ASSUME NEW q \in Proc PROVE Stands(pc'[q], todo'[q], nf, misses') /\ Waits(child'[q], todo'[q])
  <2>1. CASE q = p
    BY <2>1
  <2>2. CASE q # p
    <3>1. Stands(pc[q], todo[q], nf, misses) /\ Waits(child[q], todo[q])
      BY DEF FirewallInv, Each
    <3>2. Stands(pc[q], todo[q], nf, misses')
      BY <1>1, <3>1, Looser
    <3> QED
      BY <2>2, <3>1, <3>2 DEF Others
  <2> QED
    BY <2>1, <2>2
<1>4. Each'
  BY <1>3 DEF Each
<1>5. Quiet'
  <2> SUFFICES ASSUME misses' = 0, crashes' = 0, \A q \in Proc : pc'[q] \notin Busy PROVE NoRules
    BY DEF Quiet, NoRules
  <2>1. CASE pc[p] \in Busy
    BY <2>1
  <2>2. CASE pc[p] \notin Busy
    <3>1. \A q \in Proc : pc[q] \notin Busy
      BY <2>2 DEF Others
    <3> QED
      BY <1>1, <3>1 DEF FirewallInv, Quiet
  <2> QED
    BY <2>1, <2>2
<1> QED
  BY <1>2, <1>4, <1>5 DEF FirewallInv

(* A step of the busy daemon that may change the tables, and stays busy.     *)
LEMMA TablesEdited ==
  ASSUME Inv, FirewallInv, NEW p \in Proc, pc[p] \in Busy, Others(p), Counters', TablesHeld',
         orphans' = orphans, crashes' = crashes, pc'[p] \in Busy,
         Stands(pc'[p], todo'[p], nf', misses'), Waits(child'[p], todo'[p])
  PROVE  FirewallInv'
<1>1. orphans = {} /\ \A q \in Proc \ {p} : pc[q] \in Place \ Busy
  BY Elsewhere DEF Inv, Ladder
<1>2. LeftBehind' /\ Quiet'
  BY <1>1 DEF LeftBehind, Quiet
<1>3. ASSUME NEW q \in Proc PROVE Stands(pc'[q], todo'[q], nf', misses') /\ Waits(child'[q], todo'[q])
  <2>1. CASE q = p
    BY <2>1
  <2>2. CASE q # p
    <3>1. pc'[q] \in Place \ Busy /\ Waits(child'[q], todo'[q])
      BY <1>1, <2>2 DEF Others, FirewallInv, Each
    <3> QED
      BY <3>1, Idle
  <2> QED
    BY <2>1, <2>2
<1>4. Each'
  BY <1>3 DEF Each
<1> QED
  BY <1>2, <1>4 DEF FirewallInv

-----------------------------------------------------------------------------
LEMMA CountersKept ==
  ASSUME Inv, FirewallInv, Next
  PROVE  Counters'
<1>1. Counters
  BY DEF FirewallInv
<1>2. ASSUME faults' = faults \/ Fault
      PROVE  faults' \in 0..MaxFaults /\ (misses' = misses => misses' \in 0..faults')
  BY <1>1, <1>2, BoundsAssumption DEF Counters, Fault
<1>3. ASSUME NEW p \in Proc, Launch(p) PROVE Counters'
  <2>1. /\ step' = [step EXCEPT ![p] = 0] /\ exit' = [exit EXCEPT ![p] = FALSE]
        /\ UNCHANGED <<todo, faults, crashes, misses>>
    BY <1>3 DEF Launch, kernel
  <2>2. /\ DOMAIN todo = Proc /\ DOMAIN exit = Proc /\ DOMAIN step = Proc
        /\ \A q \in Proc : step[q] \in 0..7 /\ exit[q] \in BOOLEAN
    BY <1>1 DEF Counters, Inv, Ladder
  <2>3. \A q \in Proc : step'[q] \in 0..7
    BY <2>1, <2>2
  <2>4. DOMAIN exit' = Proc /\ \A q \in Proc : exit'[q] \in BOOLEAN
    BY <2>1, <2>2
  <2> QED
    BY <1>1, <2>1, <2>3, <2>4 DEF Counters
<1>4. ASSUME NEW p \in Proc, Step(p) PROVE Counters'
  <2>1. CASE StageSucceeds(p)
    BY <1>1, <2>1, Stages DEF Counters, StageSucceeds, kernel
  <2>2. CASE Undo(p)
    BY <1>1, <2>2 DEF Counters, Undo, kernel
  <2>3. CASE StageFails(p)
    <3>1. faults' = faults \/ Fault
      BY <2>3 DEF StageFails
    <3> QED
      BY <1>1, <1>2, <2>3, <3>1 DEF Counters, StageFails, kernel
  <2>4. CASE LoopEnds(p)
    <3>1. faults' = faults \/ Fault
      BY <2>4 DEF LoopEnds
    <3> QED
      BY <1>1, <1>2, <2>4, <3>1 DEF Counters, LoopEnds, kernel
  <2>5. CASE CommandEnds(p) \/ CommandKilled(p)
    <3>1. faults' = faults \/ Fault
      BY <2>5 DEF CommandEnds, CommandKilled
    <3>2. UNCHANGED <<step, exit, crashes>> /\ DOMAIN todo' = DOMAIN todo
      BY <2>5 DEF CommandEnds, CommandKilled, Reaped
    <3>3. misses' \in 0..faults'
      <4>1. faults \in Nat /\ misses \in 0..faults
        BY <1>1, BoundsAssumption DEF Counters
      <4>2. CASE misses' = misses
        BY <1>2, <3>1, <4>2
      <4>3. CASE misses' = misses + 1 /\ faults' = faults + 1
        BY <4>1, <4>3
      <4> QED
        BY <2>5, <4>2, <4>3 DEF CommandEnds, CommandKilled, Fault
    <3> QED
      BY <1>1, <1>2, <3>1, <3>2, <3>3 DEF Counters
  <2>6. CASE RulesBegin(p) \/ Fork(p) \/ ScriptDone(p) \/ Exit(p)
    BY <1>1, <2>6 DEF Counters, RulesBegin, Fork, ScriptDone, Exit, kernel
  <2> QED
    BY <1>4, <2>1, <2>2, <2>3, <2>4, <2>5, <2>6 DEF Step
<1>5. ASSUME NEW p \in Proc, Crash(p) \/ Terminate(p) PROVE Counters'
  <2>1. crashes' \in 0..MaxCrashes
    BY <1>1, <1>5, BoundsAssumption DEF Counters, Crash, Terminate, kernel
  <2>2. CASE Dies(p)
    BY <1>1, <2>1, <2>2 DEF Counters, Dies
  <2>3. CASE Terminate(p) /\ ~Dies(p)
    BY <1>1, <2>3 DEF Counters, Terminate, kernel
  <2> QED
    BY <1>5, <2>2, <2>3 DEF Crash
<1>6. ASSUME NEW o \in orphans, OrphanEnds(o) PROVE Counters'
  BY <1>1, <1>6 DEF Counters, OrphanEnds
<1> QED
  BY <1>3, <1>4, <1>5, <1>6 DEF Next

LEMMA ScriptBegins ==
  ASSUME NEW up \in BOOLEAN, NEW n, NEW T
  PROVE  Reached(up, Whole(Config, up), T, n)
BY ProgressBegins, ConfigAssumption DEF Reached

(* The steps of a daemon that runs no command.                              *)
LEMMA StepApart ==
  ASSUME Inv, FirewallInv, Next, NEW p \in Proc,
         \/ Launch(p) \/ StageSucceeds(p) \/ StageFails(p) \/ Undo(p) \/ Exit(p)
  PROVE  FirewallInv'
<1>1. Counters' /\ misses' >= misses
  <2>1. misses \in Nat
    BY BoundsAssumption DEF FirewallInv, Counters
  <2> QED
    BY <2>1, CountersKept DEF Launch, StageSucceeds, StageFails, Undo, Exit, kernel
<1>2. /\ pc[p] \in Place \ Busy /\ pc'[p] \in Place \ Busy
      /\ DOMAIN pc' = DOMAIN pc /\ \A q \in Proc \ {p} : pc'[q] = pc[q]
      /\ UNCHANGED <<todo, child, nf, orphans, crashes>>
  BY DEF Launch, StageSucceeds, StageFails, Undo, Exit, Go, kernel, Inv, Ladder, Place, Busy,
     Commanding
<1>3. Others(p) /\ Waits(child'[p], todo'[p])
  BY <1>2 DEF Others, Inv, Ladder, FirewallInv, Counters, Each
<1>4. Stands(pc'[p], todo'[p], nf, misses')
  BY <1>2, Idle
<1> QED
  BY <1>1, <1>2, <1>3, <1>4, TablesAlone

LEMMA ScriptSteps ==
  ASSUME Inv, FirewallInv, Next, NEW p \in Proc, RulesBegin(p) \/ LoopEnds(p)
  PROVE  FirewallInv'
<1>1. Counters' /\ misses' >= misses
  <2>1. misses \in Nat
    BY BoundsAssumption DEF FirewallInv, Counters
  <2> QED
    BY <2>1, CountersKept DEF RulesBegin, LoopEnds, kernel
<1>2. /\ \/ pc'[p] = "rules" /\ todo'[p] = Whole(Config, TRUE)
         \/ pc'[p] = "unrule" /\ todo'[p] = Whole(Config, FALSE)
      /\ Others(p) /\ child'[p] = child[p] /\ UNCHANGED <<nf, orphans, crashes>> /\ pc[p] \notin Commanding
  BY WholeSays DEF RulesBegin, LoopEnds, Go, kernel, Inv, Ladder, FirewallInv, Counters,
     Others, Commanding
<1>3. child[p] = NoChild
  BY <1>2 DEF Inv, Commands
<1>4. Stands(pc'[p], todo'[p], nf, misses')
  BY <1>2, ScriptBegins DEF Stands
<1>5. Waits(child'[p], todo'[p]) /\ pc'[p] \in Busy
  BY <1>2, <1>3 DEF Waits, Busy, Commanding
<1> QED
  BY <1>1, <1>2, <1>4, <1>5, TablesAlone

LEMMA ForkStep ==
  ASSUME Inv, FirewallInv, Next, NEW p \in Proc, Fork(p)
  PROVE  FirewallInv'
<1>1. Counters' /\ misses' = misses /\ misses \in Nat
  BY CountersKept, BoundsAssumption DEF Fork, kernel, FirewallInv, Counters
<1>2. /\ UNCHANGED <<pc, todo, nf, orphans, crashes>> /\ Others(p)
      /\ todo[p] # << >> /\ child'[p] = [pid |-> p, job |-> Head(todo[p])]
  BY DEF Fork, kernel, Inv, Ladder, FirewallInv, Counters, Others
<1>3. Stands(pc'[p], todo'[p], nf, misses') /\ Waits(child'[p], todo'[p])
  BY <1>1, <1>2 DEF FirewallInv, Each, Waits
<1> QED
  BY <1>1, <1>2, <1>3, TablesAlone

(* A script has ended: the loop begins over the complete rules, or nothing   *)
(* is left.                                                                  *)
LEMMA DoneStep ==
  ASSUME Inv, FirewallInv, Next, NEW p \in Proc, ScriptDone(p)
  PROVE  FirewallInv'
<1>1. Counters' /\ misses' = misses /\ misses \in Nat
  BY CountersKept, BoundsAssumption DEF ScriptDone, kernel, FirewallInv, Counters
<1>2. /\ pc[p] \in Commanding /\ todo[p] = << >> /\ child[p] = NoChild
      /\ pc'[p] = IF pc[p] = "rules" THEN "loop" ELSE "undo"
      /\ Others(p) /\ UNCHANGED <<todo, child, nf, orphans, crashes>>
  BY DEF ScriptDone, Go, kernel, Inv, Ladder, FirewallInv, Counters, Others, Commanding
<1>3. Waits(child'[p], todo'[p])
  BY <1>2 DEF Waits
<1>4. Stands(pc[p], << >>, nf, misses) /\ Config \in Configuration /\ TablesHeld
  BY <1>2, ConfigAssumption DEF FirewallInv, Each
<1>5. CASE pc[p] = "rules"
  <2>1. ASSUME misses = 0, NEW t \in Own(Config) PROVE nf[t] = Installed(t, Config)
    <3>1. Progress(Config, TRUE, << >>, nf, 0)
      BY <1>4, <1>5, <2>1 DEF Stands, Reached
    <3>2. t[2] \in Family /\ Uses(t[2], Config) /\ t = Mine(t[2], Config)
      BY <1>4, OwnIs
    <3>3. TableAt(t[2], Config, TRUE, Len(Work(t[2], Config, TRUE)), nf[Mine(t[2], Config)], 0)
      BY <1>4, <3>1, <3>2, ProgressEnds
    <3>4. ~(0 > 0) /\ 0 \in Nat
      OBVIOUS
    <3>5. nf[Mine(t[2], Config)] = Installed(Mine(t[2], Config), Config)
      BY <1>4, <3>2, <3>3, <3>4, SetupEnd
    <3> QED
      BY <3>2, <3>5, Zenon
  <2>2. Stands(pc'[p], todo'[p], nf, misses') /\ pc'[p] \in Busy
    BY <1>1, <1>2, <1>5, <2>1 DEF Stands, Busy
  <2> QED
    BY <1>1, <1>2, <1>3, <2>2, TablesAlone
<1>6. CASE pc[p] # "rules"
  <2>1. pc[p] \in {"rollback", "unrule"} /\ pc'[p] = "undo"
    BY <1>2, <1>6 DEF Commanding
  <2>2. ASSUME misses = 0, NEW t \in Own(Config) PROVE nf[t] = Empty(t[1])
    <3>1. Progress(Config, FALSE, << >>, nf, 0)
      BY <1>4, <2>1, <2>2 DEF Stands, Reached
    <3>2. t[2] \in Family /\ Uses(t[2], Config) /\ t = Mine(t[2], Config) /\ t \in Table
      BY <1>4, OwnIs
    <3>3. TableAt(t[2], Config, FALSE, Len(Work(t[2], Config, FALSE)), nf[Mine(t[2], Config)], 0)
      BY <1>4, <3>1, <3>2, ProgressEnds
    <3>4. Shape(Mine(t[2], Config), nf[t])
      BY <1>4, <3>2 DEF TablesHeld, Shapely
    <3> QED
      BY <1>4, <3>2, <3>3, <3>4, CleanupEnd
  <2>3. misses = 0 => NoRules
    BY <1>4, <2>2 DEF TablesHeld, NoRules
  <2>4. Stands(pc'[p], todo'[p], nf, misses')
    BY <2>1 DEF Stands
  <2> QED
    BY <1>1, <1>2, <1>3, <2>3, <2>4, TablesAlone
<1> QED
  BY <1>5, <1>6

-----------------------------------------------------------------------------
Steps(c, up, left, T, k) ==
  LET job == Head(left)
      new == [T EXCEPT ![job.table] = Result(job.cmd, @)]
  IN  /\ job.table \in Own(c) /\ job.must \in BOOLEAN
      /\ Possible(job.cmd, T[job.table]) => Shapely(new) /\ Progress(c, up, Tail(left), new, k)
      /\ ~job.must => /\ ~Possible(job.cmd, T[job.table]) => Progress(c, up, Tail(left), T, k)
                      /\ Progress(c, up, Tail(left), T, k + 1)

LEMMA ScriptStep ==
  ASSUME NEW c \in Configuration, NEW up \in BOOLEAN, NEW left, left # << >>, NEW T, Shapely(T),
         NEW k \in Nat, Progress(c, up, left, T, k)
  PROVE  Steps(c, up, left, T, k)
BY ProgressStep DEF Steps

(* The command a daemon waits for is the next one of its script.            *)
LEMMA ChildStep ==
  ASSUME Inv, FirewallInv, NEW p \in Proc, child[p] # NoChild,
         NEW job, job = child[p].job, NEW new, new = [nf EXCEPT ![job.table] = Result(job.cmd, @)]
  PROVE  /\ Harmless(job, nf) /\ pc[p] \in Commanding /\ job.must \in BOOLEAN
         /\ Possible(job.cmd, nf[job.table]) => Stands(pc[p], Tail(todo[p]), new, misses)
         /\ ~job.must => /\ ~Possible(job.cmd, nf[job.table]) => Stands(pc[p], Tail(todo[p]), nf, misses)
                         /\ Stands(pc[p], Tail(todo[p]), nf, misses + 1)
<1> DEFINE left == todo[p]
           possible == Possible(job.cmd, nf[job.table])
<1>1. pc[p] \in Commanding /\ left # << >> /\ job = Head(left) /\ Stands(pc[p], left, nf, misses)
  BY DEF Inv, Commands, FirewallInv, Each, Waits
<1>2. Shapely(nf) /\ Config \in Configuration /\ misses \in Nat
  BY ConfigAssumption, BoundsAssumption DEF FirewallInv, TablesHeld, Counters
<1> HIDE DEF left, possible
<1>3. ASSUME NEW up \in BOOLEAN, Reached(up, left, nf, misses)
      PROVE  /\ Harmless(job, nf) /\ job.must \in BOOLEAN
             /\ possible => Reached(up, Tail(left), new, misses)
             /\ ~job.must => /\ ~possible => Reached(up, Tail(left), nf, misses)
                             /\ Reached(up, Tail(left), nf, misses + 1)
  <2>1. PICK k \in Nat : (misses = 0 => k = 0) /\ Progress(Config, up, left, nf, k)
    BY <1>3 DEF Reached
  <2>2. Steps(Config, up, left, nf, k)
    BY <1>1, <1>2, <2>1, ScriptStep, Zenon
  <2> DEFINE forward == possible => Shapely(new) /\ Progress(Config, up, Tail(left), new, k)
             past    == ~possible => Progress(Config, up, Tail(left), nf, k)
             missed  == Progress(Config, up, Tail(left), nf, k + 1)
  <2>7. job.table \in Own(Config) /\ job.must \in BOOLEAN /\ forward /\ (~job.must => past /\ missed)
    BY <1>1, <2>2, Zenon DEF Steps, possible
  <2>3. Harmless(job, nf)
    BY <2>7 DEF Harmless, possible
  <2>4. k + 1 \in Nat /\ misses + 1 # 0
    BY <1>2
  <2>5. \A T : Progress(Config, up, Tail(left), T, k) => Reached(up, Tail(left), T, misses)
    BY <2>1 DEF Reached
  <2>6. Progress(Config, up, Tail(left), nf, k + 1) => Reached(up, Tail(left), nf, misses + 1)
    BY <2>4 DEF Reached
  <2> QED
    BY <2>7, <2>3, <2>5, <2>6
<1>4. CASE pc[p] = "rules"
  <2>1. Reached(TRUE, left, nf, misses) /\ TRUE \in BOOLEAN
    BY <1>1, <1>4 DEF Stands
  <2>2. \A T, n : Reached(TRUE, Tail(left), T, n) => Stands(pc[p], Tail(left), T, n)
    BY <1>4 DEF Stands
  <2> QED
    BY <1>1, <1>3, <2>1, <2>2 DEF left, possible
<1>5. CASE pc[p] \in {"rollback", "unrule"}
  <2>1. Reached(FALSE, left, nf, misses) /\ FALSE \in BOOLEAN
    BY <1>1, <1>5 DEF Stands
  <2>2. \A T, n : Reached(FALSE, Tail(left), T, n) => Stands(pc[p], Tail(left), T, n)
    BY <1>5 DEF Stands
  <2> QED
    BY <1>1, <1>3, <2>1, <2>2 DEF left, possible
<1> QED
  BY <1>1, <1>4, <1>5 DEF Commanding

(* A command applied to a table of the configuration touches no other.       *)
LEMMA HarmlessKeeps ==
  ASSUME TablesHeld, NEW job, Harmless(job, nf), Possible(job.cmd, nf[job.table]),
         nf' = [nf EXCEPT ![job.table] = Result(job.cmd, @)]
  PROVE  TablesHeld'
<1>1. Shapely(nf') /\ \A t \in Table \ Own(Config) : nf'[t] = nf[t]
  BY DEF Harmless, TablesHeld, Shapely
<1> QED
  BY <1>1 DEF TablesHeld

LEMMA CommandStep ==
  ASSUME Inv, FirewallInv, Next, NEW p \in Proc, CommandEnds(p) \/ CommandKilled(p)
  PROVE  FirewallInv'
<1> DEFINE job == child[p].job
           possible == Possible(job.cmd, nf[job.table])
           new == [nf EXCEPT ![job.table] = Result(job.cmd, @)]
<1>1. PICK ok \in BOOLEAN :
        /\ child[p] # NoChild /\ Reaped(p, ok)
        /\ \/ ok /\ possible /\ nf' = new /\ misses' = misses
           \/ ~ok /\ ~possible /\ nf' = nf /\ misses' = misses
           \/ ~ok /\ (nf' = nf \/ (possible /\ nf' = new))
              /\ misses' = IF job.must THEN misses ELSE misses + 1
  <2>1. CASE CommandEnds(p)
    <3>1. possible \/ ~possible
      OBVIOUS
    <3>2. CASE possible
      BY <2>1, <3>2 DEF CommandEnds, Works, Apply, Reaped
    <3>3. CASE ~possible
      BY <2>1, <3>3 DEF CommandEnds, Works, Apply, Reaped
    <3> QED
      BY <3>2, <3>3
  <2>2. CASE CommandKilled(p)
    <3>1. /\ child[p] # NoChild /\ Reaped(p, FALSE) /\ (nf' = nf \/ (possible /\ nf' = new))
          /\ misses' = IF job.must THEN misses ELSE misses + 1
      BY <2>2 DEF CommandKilled, Works, Apply
    <3> QED
      BY <3>1
  <2> QED
    BY <2>1, <2>2
<1>2. /\ Harmless(job, nf) /\ pc[p] \in Commanding /\ job.must \in BOOLEAN
      /\ possible => Stands(pc[p], Tail(todo[p]), new, misses)
      /\ ~job.must => /\ ~possible => Stands(pc[p], Tail(todo[p]), nf, misses)
                      /\ Stands(pc[p], Tail(todo[p]), nf, misses + 1)
  BY <1>1, ChildStep
<1>3. misses \in Nat /\ Counters' /\ TablesHeld
  BY CountersKept, BoundsAssumption DEF FirewallInv, Counters
<1>4. TablesHeld'
  <2>1. CASE nf' = nf
    BY <1>3, <2>1 DEF TablesHeld
  <2>2. CASE possible /\ nf' = new
    BY <1>2, <1>3, <2>2, HarmlessKeeps
  <2> QED
    BY <1>1, <2>1, <2>2
<1>5. /\ Others(p) /\ child'[p] = NoChild /\ UNCHANGED <<orphans, crashes>>
      /\ IF ~ok /\ job.must THEN pc'[p] = "rollback" /\ todo'[p] = Whole(Config, FALSE)
                            ELSE pc'[p] = pc[p] /\ todo'[p] = Tail(todo[p])
  <2>1. /\ DOMAIN pc = Proc /\ DOMAIN todo = Proc /\ DOMAIN child = Proc
        /\ NfrulesCleanup(Config) = Whole(Config, FALSE)
    BY WholeSays DEF Inv, Ladder, FirewallInv, Counters
  <2>2. /\ child' = [child EXCEPT ![p] = NoChild] /\ UNCHANGED <<orphans, crashes>>
        /\ IF ~ok /\ job.must
           THEN pc' = [pc EXCEPT ![p] = "rollback"] /\ todo' = [todo EXCEPT ![p] = NfrulesCleanup(Config)]
           ELSE pc' = pc /\ todo' = [todo EXCEPT ![p] = Tail(@)]
    BY <1>1 DEF Reaped, Go
  <2> HIDE DEF job
  <2> QED
    BY <2>1, <2>2 DEF Others
<1> HIDE DEF job, possible, new
<1>6. Stands(pc'[p], todo'[p], nf', misses') /\ pc'[p] \in Busy
  <2>1. CASE ~ok /\ job.must
    BY <1>5, <2>1, ScriptBegins DEF Stands, Busy, Commanding
  <2>2. CASE ok \/ ~job.must
    <3>1. pc'[p] = pc[p] /\ todo'[p] = Tail(todo[p]) /\ pc[p] \in Busy
      BY <1>2, <1>5, <2>2 DEF Busy
    <3>2. CASE misses' = misses
      <4>1. Stands(pc[p], Tail(todo[p]), nf', misses)
        BY <1>1, <1>2, <1>3, <2>2, <3>2
      <4> QED
        BY <3>1, <3>2, <4>1
    <3>3. CASE ~ok /\ misses' = misses + 1
      <4>1. misses + 1 \in Nat /\ misses <= misses + 1 /\ ~job.must
        BY <1>3, <2>2, <3>3
      <4>2. possible => Stands(pc[p], Tail(todo[p]), new, misses + 1)
        BY <1>2, <1>3, <4>1, Looser
      <4>3. nf' = nf \/ (possible /\ nf' = new)
        BY <1>1, <3>3
      <4>4. Stands(pc[p], Tail(todo[p]), nf', misses + 1)
        BY <1>2, <4>1, <4>2, <4>3
      <4> QED
        BY <3>1, <3>3, <4>4
    <3> QED
      BY <1>1, <2>2, <3>2, <3>3
  <2> QED
    BY <2>1, <2>2
<1>7. Waits(child'[p], todo'[p])
  BY <1>5 DEF Waits
<1>8. pc[p] \in Busy
  BY <1>2 DEF Busy
<1> QED
  BY <1>3, <1>4, <1>5, <1>6, <1>7, <1>8, TablesEdited

-----------------------------------------------------------------------------
(* A daemon dies; the command it waited for lives on.                       *)
LEMMA DeathStep ==
  ASSUME Inv, FirewallInv, Next, NEW p \in Proc, Dies(p), crashes' >= crashes,
         pc[p] \in Busy => crashes' > 0
  PROVE  FirewallInv'
<1>1. /\ Counters' /\ crashes \in Nat /\ crashes' \in Nat /\ nf' = nf /\ misses' = misses
      /\ TablesHeld' /\ misses \in Nat
  BY CountersKept, BoundsAssumption DEF Dies, FirewallInv, TablesHeld, Counters
<1>2. /\ pc'[p] = "off" /\ child'[p] = NoChild /\ Others(p)
      /\ orphans' = orphans \cup ({child[p]} \ {NoChild})
  BY DEF Dies, Go, Inv, Ladder, FirewallInv, Counters, Others
<1>3. Each'
  <2>1. ASSUME NEW q \in Proc PROVE Stands(pc'[q], todo'[q], nf, misses) /\ Waits(child'[q], todo'[q])
    <3>1. CASE q = p
      BY <1>2, <3>1 DEF Stands, Waits
    <3>2. CASE q # p
      BY <1>2, <3>2 DEF Others, FirewallInv, Each
    <3> QED
      BY <3>1, <3>2
  <2> QED
    BY <1>1, <2>1 DEF Each
<1>4. LeftBehind'
  <2>1. ASSUME NEW o \in orphans' PROVE Harmless(o.job, nf)
    <3>1. CASE o \in orphans
      BY <3>1 DEF FirewallInv, LeftBehind
    <3>2. CASE o = child[p] /\ child[p] # NoChild
      BY <3>2, ChildStep
    <3> QED
      BY <1>2, <3>1, <3>2
  <2>2. ASSUME crashes' = 0 PROVE orphans' = {}
    <3>1. crashes = 0 /\ pc[p] \notin Busy
      BY <1>1, <2>2
    <3>2. child[p] = NoChild /\ orphans = {}
      BY <3>1 DEF Inv, Commands, Busy, FirewallInv, LeftBehind
    <3> QED
      BY <1>2, <3>2
  <2> QED
    BY <1>1, <2>1, <2>2 DEF LeftBehind
<1>5. Quiet'
  <2> SUFFICES ASSUME misses = 0, crashes' = 0, \A q \in Proc : pc'[q] \notin Busy PROVE NoRules
    BY <1>1 DEF Quiet, NoRules
  <2>1. crashes = 0 /\ pc[p] \notin Busy
    BY <1>1
  <2>2. \A q \in Proc : pc[q] \notin Busy
    BY <1>2, <2>1 DEF Others
  <2> QED
    BY <2>1, <2>2 DEF FirewallInv, Quiet
<1> QED
  BY <1>1, <1>3, <1>4, <1>5 DEF FirewallInv

LEMMA SignalStep ==
  ASSUME Inv, FirewallInv, Next, NEW p \in Proc, Crash(p) \/ Terminate(p)
  PROVE  FirewallInv'
<1>1. crashes \in Nat /\ misses \in Nat
  BY BoundsAssumption DEF FirewallInv, Counters
<1>2. CASE Crash(p)
  <2>1. Dies(p) /\ crashes' >= crashes /\ crashes' > 0
    BY <1>1, <1>2 DEF Crash
  <2> QED
    BY <2>1, DeathStep
<1>3. CASE pc[p] = "setup" /\ Dies(p) /\ UNCHANGED crashes
  <2>1. pc[p] \notin Busy /\ crashes' >= crashes
    BY <1>1, <1>3 DEF Busy, Commanding
  <2> QED
    BY <1>3, <2>1, DeathStep
<1>4. CASE UNCHANGED <<pc, step, held, todo, child, misses, orphans, nf, crashes>>
  <2>1. Counters'
    BY CountersKept
  <2> QED
    BY <1>4, <2>1 DEF FirewallInv, TablesHeld, Each, LeftBehind, Quiet, NoRules
<1> QED
  BY <1>2, <1>3, <1>4 DEF Terminate, kernel

(* An orphan ends: nobody is busy, and it was the only one.                  *)
LEMMA OrphanStep ==
  ASSUME Inv, FirewallInv, Next, NEW o \in orphans, OrphanEnds(o)
  PROVE  FirewallInv'
<1>1. /\ UNCHANGED <<pc, todo, child, misses, crashes>> /\ Counters'
      /\ TablesHeld /\ Harmless(o.job, nf) /\ crashes # 0
  BY CountersKept DEF OrphanEnds, FirewallInv, LeftBehind
<1>2. orphans' = {}
  BY DEF OrphanEnds, Inv, OneUser
<1>3. TablesHeld'
  <2>1. CASE nf' = nf
    BY <1>1, <2>1 DEF TablesHeld
  <2>2. CASE Works(o.job) /\ Apply(o.job)
    BY <1>1, <2>2, HarmlessKeeps DEF Works, Apply
  <2> QED
    BY <2>1, <2>2 DEF OrphanEnds
<1>4. \A q \in Proc : pc[q] \in Place \ Busy
  BY CommandListens DEF Inv, Ladder, OneUser, Busy
<1>5. Each'
  <2>1. ASSUME NEW q \in Proc PROVE Stands(pc[q], todo[q], nf', misses) /\ Waits(child[q], todo[q])
    BY <1>4, Idle DEF FirewallInv, Each
  <2> QED
    BY <1>1, <2>1 DEF Each
<1>6. LeftBehind' /\ Quiet'
  BY <1>1, <1>2 DEF LeftBehind, Quiet
<1> QED
  BY <1>1, <1>3, <1>5, <1>6 DEF FirewallInv

LEMMA FirewallKept == Inv /\ FirewallInv /\ [Next]_vars => FirewallInv'
<1> SUFFICES ASSUME Inv, FirewallInv, [Next]_vars PROVE FirewallInv'
  OBVIOUS
<1>1. ASSUME NEW p \in Proc, Next, Step(p) PROVE FirewallInv'
  BY <1>1, StepApart, ScriptSteps, ForkStep, DoneStep, CommandStep DEF Step
<1>2. ASSUME NEW p \in Proc, Next, Launch(p) \/ Crash(p) \/ Terminate(p) PROVE FirewallInv'
  BY <1>2, StepApart, SignalStep
<1>3. ASSUME NEW o \in orphans, Next, OrphanEnds(o) PROVE FirewallInv'
  BY <1>3, OrphanStep
<1>4. CASE UNCHANGED vars
  BY <1>4 DEF vars, FirewallInv, Counters, TablesHeld, Each, LeftBehind, Quiet, NoRules
<1> QED
  BY <1>1, <1>2, <1>3, <1>4 DEF Next

LEMMA FirewallAlways == Spec => [](Inv /\ FirewallInv)
<1>1. Init => Inv /\ FirewallInv
  BY InitInv, FirewallStart
<1>2. Inv /\ FirewallInv /\ [Next]_vars => Inv' /\ FirewallInv'
  BY NextInv, FirewallKept
<1> QED
  BY <1>1, <1>2, PTL DEF Spec

(* However many daemons start, fail, are killed and are started again, one   *)
(* that is in its packet loop has the complete rules of its configuration,   *)
(* unless a command failed whose failure is not looked at                    *)
(* (mainfun.c:451-461).                                                      *)
THEOREM LoopIsProtected == Spec => []LoopHasRules
<1>1. Inv /\ FirewallInv => LoopHasRules
  <2> SUFFICES ASSUME Inv, FirewallInv PROVE LoopHasRules
    OBVIOUS
  <2>1. ASSUME NEW p \in Proc
        PROVE  /\ pc[p] \in Place /\ step[p] \in 0..Top /\ held[p] \subseteq Prefix(Top) /\ exit[p] \in BOOLEAN
    <3>1. \A n \in 0..7 : Prefix(n) \subseteq Prefix(Top)
      BY Stages DEF Prefix
    <3> QED
      BY <3>1, Stages DEF Inv, Ladder, Climbed, Place, FirewallInv, Counters
  <2>2. TypeOK
    BY <2>1 DEF TypeOK, Place, FirewallInv, Counters
  <2> QED
    BY <2>2 DEF LoopHasRules, FirewallInv, Each, Stands
<1> QED
  BY <1>1, FirewallAlways, PTL

(* Rules are never left in the kernel without a daemon that listens,         *)
(* whichever stage, rule or loop fails, unless a daemon was killed or a      *)
(* command of a cleanup failed (mainfun.c:409-511).                          *)
THEOREM RulesNeedListener == Spec => []NoRulesWithoutListener
<1>1. Inv /\ FirewallInv => NoRulesWithoutListener
  <2> SUFFICES ASSUME Inv, FirewallInv, misses = 0, crashes = 0, \A p \in Proc : "nfq" \notin held[p]
               PROVE  NoRules
    BY DEF NoRulesWithoutListener, NoRules
  <2>1. \A p \in Proc : pc[p] \notin Busy
    BY CommandListens DEF Listens, Busy
  <2> QED
    BY <2>1 DEF FirewallInv, Quiet
<1> QED
  BY <1>1, FirewallAlways, PTL
=============================================================================
