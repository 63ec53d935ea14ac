---------------------------- MODULE KillRunning ----------------------------
(***************************************************************************)
(* fakesip -k: fs_kill_running of src/src/signals.c walks over /proc and   *)
(* sends SIGTERM to every process whose executable is its own, while       *)
(* processes fork, execute other programs, end and give their pid to       *)
(* others, and while the executable may be replaced by an upgrade.         *)
(***************************************************************************)
EXTENDS Integers, FiniteSetsExt

CONSTANTS MaxPid,  \* bound
          Self     \* the process that walks

Pid == 1..MaxPid
ASSUME SelfAssumption == MaxPid \in Nat /\ Self \in Pid \ {1}

VARIABLES exe,       \* where /proc/<pid>/exe leads: "fakesip", "deleted", "other", "none"
          upgraded,  \* bound: the executable is replaced at most once
          at,        \* "start" "next" "look" "kill" "done"
          read,      \* the last pid readdir() was given by the kernel
          buffer,    \* entries given and not yet looked at
          pid,
          matched, err, result,
          steady,    \* ghost: have been FakeSIP since the walk began
          swapped,   \* ghost: pid has changed since its link was read
          unread,    \* ghost: whose link could not be read
          signalled  \* ghost: who got the signal

world == <<exe, upgraded, steady, swapped>>
walk  == <<at, read, buffer, pid, matched, err, result, unread>>
system  == <<world, walk, signalled>>

Running == {p \in Pid : exe[p] # "none"}

WalkInit ==
  /\ exe \in [Pid -> {"none", "fakesip", "deleted", "other"}]
  /\ exe[Self] = "fakesip" /\ exe[1] # "none"
  /\ upgraded = FALSE
  /\ at = "start" /\ read = 0 /\ buffer = {} /\ pid = 0
  /\ matched = FALSE /\ err = FALSE /\ result = 0
  /\ steady = {p \in Pid : exe[p] = "fakesip"} /\ swapped = FALSE
  /\ unread = {} /\ signalled = {}
-----------------------------------------------------------------------------
Becomes(p, what) ==
  /\ exe' = [exe EXCEPT ![p] = what]
  /\ steady' = IF what = "fakesip" /\ at = "start" THEN steady \cup {p} ELSE steady \ {p}
  /\ swapped' = (swapped \/ p = pid)
  /\ UNCHANGED <<upgraded, walk, signalled>>

(* A fork is a copy of its parent, as the children of fs_execute_command    *)
(* are until they execute nft.                                              *)
ProcessForks(p)   == exe[p] = "none" /\ \E q \in Running : Becomes(p, exe[q])
ProcessExecs(p)   == p # Self /\ exe[p] # "none" /\ \E what \in {"fakesip", "other"} : Becomes(p, what)
ProcessEnds(p)    == p \notin {1, Self} /\ exe[p] # "none" /\ Becomes(p, "none")

(* The link of a process whose executable was replaced reads differently.   *)
Upgrade ==
  /\ ~upgraded /\ upgraded' = TRUE
  /\ exe' = [p \in Pid |-> IF exe[p] = "fakesip" THEN "deleted" ELSE exe[p]]
  /\ at # "start"
  /\ steady' = {}
  /\ swapped' = TRUE
  /\ UNCHANGED <<walk, signalled>>
-----------------------------------------------------------------------------
Goto(where) == at' = where /\ UNCHANGED <<read, buffer, pid, matched, err, result, unread>>
Finish(rc)  == at' = "done" /\ result' = rc

Begin == at = "start" /\ Goto("next") /\ UNCHANGED <<world, signalled>>
BeginFails ==
  /\ at = "start"
  /\ Finish(-1) /\ err' = TRUE
  /\ UNCHANGED <<world, read, buffer, pid, matched, unread, signalled>>

(* The kernel gives the next few pids in order, as many as fit.             *)
Beyond == {p \in Running : p > read}
Fill ==
  /\ at = "next" /\ buffer = {} /\ Beyond # {}
  /\ \E last \in Beyond :
       /\ buffer' = {p \in Beyond : p <= last}
       /\ read' = last
  /\ UNCHANGED <<world, at, pid, matched, err, result, unread, signalled>>

Skip(p) == p <= 1 \/ p = Self

Entry ==
  /\ at = "next" /\ buffer # {}
  /\ LET p == Min(buffer) IN
     /\ buffer' = buffer \ {p}
     /\ IF Skip(p) THEN UNCHANGED <<at, pid>> ELSE at' = "look" /\ pid' = p
  /\ UNCHANGED <<world, read, matched, err, result, unread, signalled>>

(* Mutant: a recent name is good enough. *)
LookByPrefix ==
  /\ at = "look"
  /\ matched' = (matched \/ exe[pid] \in {"fakesip", "deleted"})
  /\ at' = IF exe[pid] \in {"fakesip", "deleted"} THEN "kill" ELSE "next"
  /\ swapped' = FALSE
  /\ UNCHANGED <<exe, upgraded, steady, read, buffer, pid, err, result, unread, signalled>>
(* readlink and the comparison.                                             *)
Look ==
  /\ at = "look"
  /\ matched' = (matched \/ exe[pid] = "fakesip")
  /\ at' = IF exe[pid] = "fakesip" THEN "kill" ELSE "next"
  /\ swapped' = FALSE
  /\ UNCHANGED <<exe, upgraded, steady, read, buffer, pid, err, result, unread, signalled>>

(* The link cannot be read, or not in full: the process is gone or somebody  *)
(* else's, or memory is short.  It is passed over as if it were no FakeSIP.  *)
LookFails ==
  /\ at = "look"
  /\ unread' = unread \cup {pid}
  /\ at' = "next" /\ swapped' = FALSE
  /\ UNCHANGED <<exe, upgraded, steady, read, buffer, pid, matched, err, result, signalled>>

(* Mutant: one is enough. *)
KillFirst ==
  /\ at = "kill" /\ exe[pid] # "none"
  /\ signalled' = signalled \cup {pid}
  /\ at' = "next" /\ read' = MaxPid /\ buffer' = {}
  /\ UNCHANGED <<world, pid, matched, err, result, unread>>
Kill ==
  /\ at = "kill" /\ exe[pid] # "none"
  /\ signalled' = signalled \cup {pid}
  /\ Goto("next")
  /\ UNCHANGED world

(* Nobody has the pid any more, or the kernel does not allow it.            *)
KillFails ==
  /\ at = "kill"
  /\ err' = TRUE /\ at' = "next"
  /\ UNCHANGED <<world, read, buffer, pid, matched, result, unread, signalled>>

End(close_fails) ==
  /\ at = "next" /\ buffer = {} /\ Beyond = {}
  /\ err' = (err \/ close_fails)
  /\ Finish(IF matched /\ ~err' THEN 0 ELSE -1)
  /\ UNCHANGED <<world, read, buffer, pid, matched, unread, signalled>>

Walker ==
  \/ Begin \/ BeginFails \/ Fill \/ Entry \/ Look \/ LookFails \/ Kill \/ KillFails
  \/ \E close_fails \in BOOLEAN : End(close_fails)
Others == Upgrade \/ \E p \in Pid : ProcessForks(p) \/ ProcessExecs(p) \/ ProcessEnds(p)

WalkNext == Walker \/ (at # "done" /\ Others)
WalkSpec == WalkInit /\ [][WalkNext]_system
-----------------------------------------------------------------------------
WalkTypeOK ==
  /\ exe \in [Pid -> {"none", "fakesip", "deleted", "other"}]
  /\ at \in {"start", "next", "look", "kill", "done"}
  /\ read \in {0} \cup Pid /\ buffer \subseteq 1..read
  /\ pid \in {0} \cup (Pid \ {1, Self})
  /\ matched \in BOOLEAN /\ err \in BOOLEAN /\ result \in {0, -1}
  /\ unread \subseteq Pid /\ signalled \subseteq Pid

(* The signal goes to FakeSIP, never to the process that sends it, unless   *)
(* the pid changed hands or the process became another program between      *)
(* reading its link and kill() (signals.c:122-142).                         *)
OnlyFakesipSignalled ==
  [][at = "kill" /\ signalled' # signalled =>
       pid # Self /\ (exe[pid] = "fakesip" \/ swapped)]_system

(* What -k returns is what happened.  On success somebody has been told to   *)
(* end, and so has every FakeSIP that ran when it began and still runs,      *)
(* though other processes came and went while the directory was read; left   *)
(* out are only a FakeSIP that is init and one whose link could not be read, *)
(* which -k passes over in silence.  On failure there was an error, or       *)
(* nobody has the signal and there was no such FakeSIP (signals.c:112-162).  *)
ReportsTruly ==
  /\ WalkTypeOK
  /\ at = "done" =>
       IF result = 0 THEN signalled # {} /\ steady \ {1, Self} \subseteq signalled \cup unread
       ELSE err \/ (signalled = {} /\ steady \subseteq {1, Self} \cup unread)
=============================================================================
