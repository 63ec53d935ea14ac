------------------------------- MODULE Daemon -------------------------------
(***************************************************************************)
(* Daemons starting, running and ending on one host (mainfun.c:398-534,    *)
(* signals.c, nfqueue.c:186-301, process.c): each climbs a ladder of setup  *)
(* stages and goes down it again, the netfilter queue admits one of them,   *)
(* and each command on the firewall rules is a child process, which a       *)
(* killed daemon leaves behind.  The children inherit the daemon's netlink  *)
(* socket, which has no close-on-exec flag, and so keep its queue bound.    *)
(***************************************************************************)
EXTENDS Ruleset

CONSTANTS Proc,       \* daemons, each started again and again
          Config,     \* the configuration they share
          MaxFaults,  \* bound: failed stages, loops and commands
          MaxCrashes  \* bound: daemons killed

ASSUME BoundsAssumption == MaxFaults \in Nat /\ MaxCrashes \in Nat
ASSUME ConfigAssumption == Config \in Configuration

Stage == <<"logger", "signal", "payload", "srcinfo", "rawsend", "nfq", "nfrules">>
Top   == Len(Stage)
NoChild == [pid |-> "none"]

VARIABLES pc,       \* "off" "setup" "rules" "rollback" "loop" "unrule" "undo"
          step,     \* setup: stages done; undo: stages still to release
          held,     \* the stages whose resources the daemon holds
          exit,     \* g_ctx.exit
          todo,     \* the rest of the script it is running
          child,    \* the command it waits for
          orphans,  \* commands whose daemon was killed
          nf, faults, crashes,
          misses    \* ghost: failed commands that the script goes on after

vars == <<pc, step, held, exit, todo, child, orphans, nf, faults, crashes, misses>>

Init ==
  /\ pc = [p \in Proc |-> "off"]
  /\ step = [p \in Proc |-> 0]
  /\ held = [p \in Proc |-> {}]
  /\ exit = [p \in Proc |-> FALSE]
  /\ todo = [p \in Proc |-> << >>]
  /\ child = [p \in Proc |-> NoChild]
  /\ orphans = {}
  /\ nf = [t \in Table |-> Empty(t[1])]
  /\ faults = 0 /\ crashes = 0 /\ misses = 0

(* Mutant: the socket is closed on exec. *)
QueueBoundByDaemon == \E p \in Proc : "nfq" \in held[p]
(* The queue stays bound while any process has the socket: its daemon, or a *)
(* command the daemon forked.                                               *)
QueueBound == orphans # {} \/ \E p \in Proc : "nfq" \in held[p]

Go(p, to)   == pc' = [pc EXCEPT ![p] = to]
Fault       == faults < MaxFaults /\ faults' = faults + 1
kernel      == <<orphans, nf, crashes, misses>>

Launch(p) ==
  /\ pc[p] = "off"
  /\ Go(p, "setup")
  /\ step' = [step EXCEPT ![p] = 0]
  /\ exit' = [exit EXCEPT ![p] = FALSE]
  /\ UNCHANGED <<held, todo, child, faults, kernel>>

(* The next stage of main; binding a queue that is bound fails with EPERM.  *)
StageSucceeds(p) ==
  /\ pc[p] = "setup" /\ step[p] < Top - 1
  /\ LET s == Stage[step[p] + 1] IN
       /\ s = "nfq" => ~QueueBound
       /\ held' = [held EXCEPT ![p] = @ \cup {s}]
  /\ step' = [step EXCEPT ![p] = @ + 1]
  /\ UNCHANGED <<pc, exit, todo, child, faults, kernel>>

StageFails(p) ==
  /\ pc[p] = "setup" /\ step[p] < Top - 1
  /\ \/ Stage[step[p] + 1] = "nfq" /\ QueueBound /\ UNCHANGED faults
     \/ Fault
  /\ Go(p, "undo")
  /\ UNCHANGED <<step, held, exit, todo, child, kernel>>

RulesBegin(p) ==
  /\ pc[p] = "setup" /\ step[p] = Top - 1
  /\ Go(p, "rules")
  /\ todo' = [todo EXCEPT ![p] = NfrulesSetup(Config)]
  /\ UNCHANGED <<step, held, exit, child, faults, kernel>>

Fork(p) ==
  /\ pc[p] \in {"rules", "rollback", "unrule"}
  /\ todo[p] # << >> /\ child[p] = NoChild
  /\ child' = [child EXCEPT ![p] = [pid |-> p, job |-> Head(todo[p])]]
  /\ UNCHANGED <<pc, step, held, exit, todo, faults, kernel>>

Apply(job) == nf' = [nf EXCEPT ![job.table] = Result(job.cmd, @)]
Works(job) == Possible(job.cmd, nf[job.table])

(* waitpid returns, with the command's success or failure.                  *)
Reaped(p, ok) ==
  /\ child' = [child EXCEPT ![p] = NoChild]
  /\ IF ~ok /\ child[p].job.must
     THEN Go(p, "rollback") /\ todo' = [todo EXCEPT ![p] = NfrulesCleanup(Config)]
     ELSE UNCHANGED pc /\ todo' = [todo EXCEPT ![p] = Tail(@)]
  /\ UNCHANGED <<step, held, exit, orphans, crashes>>

CommandEnds(p) ==
  /\ child[p] # NoChild
  /\ IF Works(child[p].job) THEN Apply(child[p].job) ELSE UNCHANGED nf
  /\ Reaped(p, Works(child[p].job))
  /\ UNCHANGED <<faults, misses>>

(* A Ctrl-C kills the command as well, before or after the kernel acted.    *)
CommandKilled(p) ==
  /\ child[p] # NoChild
  /\ UNCHANGED nf \/ (Works(child[p].job) /\ Apply(child[p].job))
  /\ Fault
  /\ misses' = IF child[p].job.must THEN misses ELSE misses + 1
  /\ Reaped(p, FALSE)

ScriptDone(p) ==
  /\ pc[p] \in {"rules", "rollback", "unrule"}
  /\ todo[p] = << >> /\ child[p] = NoChild
  /\ IF pc[p] = "rules"
     THEN /\ Go(p, "loop")
          /\ held' = [held EXCEPT ![p] = @ \cup {"nfrules"}]
     ELSE /\ Go(p, "undo")
          /\ held' = [held EXCEPT ![p] = @ \ {"nfrules"}]
  /\ UNCHANGED <<step, exit, todo, child, faults, kernel>>

(* Mutants: main leaves by a label too low; the loop does not look at exit. *)
LoopEndsTooLow(p) ==
  /\ pc[p] = "loop"
  /\ (exit[p] /\ UNCHANGED faults) \/ Fault
  /\ Go(p, "undo")
  /\ UNCHANGED <<step, held, exit, todo, child, kernel>>
LoopEndsOnError(p) ==
  /\ pc[p] = "loop" /\ Fault
  /\ Go(p, "unrule")
  /\ todo' = [todo EXCEPT ![p] = NfrulesCleanup(Config)]
  /\ UNCHANGED <<step, held, exit, child, kernel>>
(* fs_nfq_loop returns on g_ctx.exit, or on a fatal error.                  *)
LoopEnds(p) ==
  /\ pc[p] = "loop"
  /\ (exit[p] /\ UNCHANGED faults) \/ Fault
  /\ Go(p, "unrule")
  /\ todo' = [todo EXCEPT ![p] = NfrulesCleanup(Config)]
  /\ UNCHANGED <<step, held, exit, child, kernel>>

(* The labels of main, from the stage reached downwards.                    *)
Undo(p) ==
  /\ pc[p] = "undo" /\ step[p] > 0
  /\ held' = [held EXCEPT ![p] = @ \ {Stage[step[p]]}]
  /\ step' = [step EXCEPT ![p] = @ - 1]
  /\ UNCHANGED <<pc, exit, todo, child, faults, kernel>>

Exit(p) ==
  /\ pc[p] = "undo" /\ step[p] = 0
  /\ Go(p, "off")
  /\ UNCHANGED <<step, held, exit, todo, child, faults, kernel>>

(* The process is gone and the kernel closes its descriptors, but not those *)
(* of a command that is still running.                                      *)
Dies(p) ==
  /\ Go(p, "off")
  /\ step' = [step EXCEPT ![p] = 0]
  /\ held' = [held EXCEPT ![p] = {}]
  /\ todo' = [todo EXCEPT ![p] = << >>]
  /\ child' = [child EXCEPT ![p] = NoChild]
  /\ orphans' = orphans \cup ({child[p]} \ {NoChild})
  /\ UNCHANGED <<exit, nf, faults, misses>>

Crash(p) == pc[p] # "off" /\ crashes < MaxCrashes /\ crashes' = crashes + 1 /\ Dies(p)

(* SIGINT or SIGTERM: the default action until the handler is installed.  On *)
(* the last labels of main a signal changes nothing that is still to do.    *)
Terminate(p) ==
  /\ pc[p] # "off"
  /\ \/ /\ "signal" \in held[p]
        /\ exit' = [exit EXCEPT ![p] = TRUE]
        /\ UNCHANGED <<pc, step, held, todo, child, faults, kernel>>
     \/ pc[p] = "setup" /\ "signal" \notin held[p] /\ Dies(p) /\ UNCHANGED crashes

OrphanEnds(o) ==
  /\ o \in orphans
  /\ orphans' = orphans \ {o}
  /\ IF Works(o.job) THEN Apply(o.job) ELSE UNCHANGED nf
  /\ UNCHANGED <<pc, step, held, exit, todo, child, faults, crashes, misses>>

Step(p) ==
  \/ StageSucceeds(p) \/ StageFails(p) \/ RulesBegin(p)
  \/ Fork(p) \/ CommandEnds(p) \/ CommandKilled(p) \/ ScriptDone(p)
  \/ LoopEnds(p) \/ Undo(p) \/ Exit(p)

Next ==
  \/ \E p \in Proc : Launch(p) \/ Step(p) \/ Crash(p) \/ Terminate(p)
  \/ \E o \in orphans : OrphanEnds(o)

Spec == Init /\ [][Next]_vars

(* Every process is scheduled and every command ends.                       *)
FairSpec == Spec /\ \A p \in Proc : WF_vars(Step(p))
-----------------------------------------------------------------------------
Prefix(n) == {Stage[k] : k \in 1..n}

TypeOK ==
  /\ \A p \in Proc :
       /\ pc[p] \in {"off", "setup", "rules", "rollback", "loop", "unrule", "undo"}
       /\ step[p] \in 0..Top
       /\ held[p] \subseteq Prefix(Top)
       /\ exit[p] \in BOOLEAN
  /\ faults \in 0..MaxFaults /\ crashes \in 0..MaxCrashes /\ misses \in 0..faults

Editors == {p \in Proc : child[p] # NoChild}

(* However daemons start, die and are respawned, at most one command edits  *)
(* the rules at a time: the queue is bound before the first one is forked   *)
(* and released after the last one is reaped (mainfun.c:451-461, :507-511), *)
(* and an orphaned command keeps it bound (nfqueue.c:53-70).                *)
OneCommandAtATime == Cardinality(Editors) + Cardinality(orphans) <= 1

(* So a daemon in its packet loop has the complete rules of its             *)
(* configuration, even if it started right after a predecessor was killed   *)
(* in the middle of its own setup, and whatever stages, loops and commands  *)
(* failed before.  Excepted are commands a script goes on after, when they  *)
(* fail though there was something to do: what such a cleanup should have   *)
(* removed, nft then adds to (ipv4nft.c:180, mainfun.c:457-461).            *)
LoopHasRules ==
  /\ TypeOK
  /\ misses = 0 => \A p \in Proc : pc[p] = "loop" => \A t \in Own(Config) : nf[t] = Installed(t, Config)

(* A stage is released only after all later ones (the labels of main fall   *)
(* through in reverse order), so what a daemon holds is always a prefix of  *)
(* the ladder, and after its last label nothing is left.                    *)
HeldIsPrefix ==
  \A p \in Proc : /\ \E n \in 0..Top : held[p] = Prefix(n)
                  /\ pc[p] = "off" => held[p] = {}

(* Packets are sent to the queue only while a daemon listens on it: every   *)
(* way out of main, from a failed stage, a rule that could not be set, an   *)
(* error of the loop or a signal, removes the rules before it closes the    *)
(* queue (mainfun.c:409-511).  Excepted are a daemon that was killed and a  *)
(* command of a cleanup that failed.                                        *)
NoRulesWithoutListener ==
  misses = 0 /\ crashes = 0 /\ (\A p \in Proc : "nfq" \notin held[p]) =>
    \A t \in Table : nf[t] = Empty(t[1])

(* A daemon told to terminate ends, from any stage (signals.c:34-44): the   *)
(* flag it sets is not looked at before the loop, so setup is completed and *)
(* undone first.                                                            *)
TerminateEnds == \A p \in Proc : exit[p] ~> pc[p] = "off"
=============================================================================
