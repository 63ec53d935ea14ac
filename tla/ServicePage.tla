---------------------------- MODULE ServicePage ----------------------------
(***************************************************************************)
(* The service panel of the LuCI page (fakesip.js): a poll and the buttons *)
(* ask the router through requests whose answers may overtake one another. *)
(* A handler runs to its end before the next one.                          *)
(***************************************************************************)
EXTENDS Integers, FiniteSets

CONSTANTS Click,     \* presses of a button
          Attempts,  \* how often a command looks for its effect: 8
          MaxFaults, \* bound of the model: requests lost, crashes of the daemon
          None

ASSUME AttemptsAssumption == Attempts \in Nat /\ Attempts >= 1

Settled == {"running", "stopped"}
State == Settled \cup {"unknown"}
Action == {"start", "stop", "restart"}

ASSUME NoneAssumption == None \notin State \cup {"sent", "ok", "failed", "success", "failure"}
ASSUME ClickAssumption == "poll" \notin Click

VARIABLES truth, goal,   \* the daemon, and what procd was last told
          serviceBusy, serviceStatus,
          label, enabled, \* the status node; the buttons that may be pressed
          refresh, \* per poll or click, a status request of refreshServiceStatus
          at, action, left, answer, \* per click, the chain of serviceCommand
          notified,
          reached, \* ghost: the target was true since the command was carried out
          faults

service == <<truth, goal>>
page  == <<serviceBusy, serviceStatus, label, enabled>>
chain == <<at, action, left, answer, notified>>
panel  == <<service, page, refresh, chain, reached, faults>>

Refresher == Click \cup {"poll"}
-----------------------------------------------------------------------------
Buttons(state) ==
  (IF state # "running" THEN {"start"} ELSE {}) \cup (IF state # "stopped" THEN {"stop"} ELSE {})
    \cup (IF state = "running" THEN {"restart"} ELSE {})

(* Mutant: an answer unlocks the buttons. *)
updateServiceStatusUnlocking(state, busy) ==
  /\ serviceStatus' = state
  /\ label' = IF busy THEN "working" ELSE state
  /\ enabled' = Buttons(state)
(* Mutant: only what is new is shown. *)
updateServiceStatusOnChange(state, busy) ==
  /\ serviceStatus' = state
  /\ IF state = serviceStatus /\ ~busy THEN UNCHANGED <<label, enabled>>
     ELSE label' = (IF busy THEN "working" ELSE state) /\ enabled' = (IF busy THEN {} ELSE Buttons(state))
updateServiceStatus(state, busy) ==
  /\ serviceStatus' = state
  /\ label' = IF busy THEN "working" ELSE state
  /\ enabled' = IF busy THEN {} ELSE Buttons(state)

TargetOf(a) == IF a = "stop" THEN "stopped" ELSE "running"
Target(c) == TargetOf(action[c])

(* The daemon changes: a chain that waits for this has its target.           *)
Becomes(s) ==
  /\ truth' = s
  /\ reached' = [c \in Click |-> reached[c] \/ (at[c] \in {"status", "sleep"} /\ s = Target(c))]
-----------------------------------------------------------------------------
PageInit ==
  /\ truth \in Settled /\ goal = truth
  /\ serviceBusy = FALSE /\ serviceStatus \in State
  /\ label = serviceStatus /\ enabled = Buttons(serviceStatus)
  /\ refresh = [r \in Refresher |-> None]
  /\ at = [c \in Click |-> "none"] /\ action = [c \in Click |-> "start"]
  /\ left = [c \in Click |-> 0] /\ answer = [c \in Click |-> None]
  /\ notified = [c \in Click |-> None]
  /\ reached = [c \in Click |-> FALSE] /\ faults = 0

Fault == faults < MaxFaults /\ faults' = faults + 1

(* The daemon follows procd, or does not, or ends by itself.                 *)
Settle == truth # goal /\ Becomes(goal) /\ UNCHANGED <<goal, page, refresh, chain, faults>>
Fall == Fault /\ truth = "running" /\ Becomes("stopped") /\ UNCHANGED <<goal, page, refresh, chain>>

(* A status request is carried out, or fails.                                *)
Look(r) ==
  /\ refresh[r] = "sent"
  /\ \/ refresh' = [refresh EXCEPT ![r] = truth] /\ UNCHANGED faults
     \/ Fault /\ refresh' = [refresh EXCEPT ![r] = "unknown"]
  /\ UNCHANGED <<service, page, chain, reached>>

(* The poll waits for its last answer, and asks nothing during a command.    *)
Poll ==
  /\ refresh["poll"] = None /\ ~serviceBusy
  /\ refresh' = [refresh EXCEPT !["poll"] = "sent"]
  /\ UNCHANGED <<service, page, chain, reached, faults>>

refreshServiceStatus(r) ==
  /\ refresh[r] \in State
  /\ updateServiceStatus(refresh[r], serviceBusy)
  /\ refresh' = [refresh EXCEPT ![r] = None]
  /\ UNCHANGED <<service, serviceBusy, chain, reached, faults>>
-----------------------------------------------------------------------------
serviceCommand(c, a) ==
  /\ at[c] = "none" /\ a \in enabled /\ ~serviceBusy
  /\ serviceBusy' = TRUE /\ updateServiceStatus(serviceStatus, TRUE)
  /\ at' = [at EXCEPT ![c] = "exec"] /\ action' = [action EXCEPT ![c] = a]
  /\ answer' = [answer EXCEPT ![c] = "sent"]
  /\ UNCHANGED <<service, refresh, left, notified, reached, faults>>

(* The init script tells procd; it fails, or its answer is lost.             *)
Execute(c) ==
  /\ at[c] = "exec" /\ answer[c] = "sent"
  /\ \/ /\ goal' = Target(c) /\ answer' = [answer EXCEPT ![c] = "ok"] /\ UNCHANGED faults
        /\ truth' \in IF action[c] = "restart" THEN {truth, "stopped"} ELSE {truth}
     \/ /\ Fault /\ goal' \in {goal, Target(c)} /\ answer' = [answer EXCEPT ![c] = "failed"]
        /\ UNCHANGED truth
  /\ UNCHANGED <<page, refresh, at, action, left, notified, reached>>

(* The last handlers of the chain: a notice, the lock, a refresh.            *)
Finish(c, how) ==
  /\ notified' = [notified EXCEPT ![c] = how] /\ at' = [at EXCEPT ![c] = "over"]
  /\ serviceBusy' = FALSE /\ refresh' = [refresh EXCEPT ![c] = "sent"]

Executed(c) ==
  /\ at[c] = "exec" /\ answer[c] \in {"ok", "failed"}
  /\ IF answer[c] = "failed" THEN Finish(c, "failure") /\ UNCHANGED <<answer, left, reached>>
     ELSE /\ at' = [at EXCEPT ![c] = "status"] /\ left' = [left EXCEPT ![c] = Attempts]
          /\ answer' = [answer EXCEPT ![c] = "sent"]
          /\ reached' = [reached EXCEPT ![c] = truth = Target(c)]
          /\ UNCHANGED <<notified, serviceBusy, refresh>>
  /\ UNCHANGED <<service, serviceStatus, label, enabled, action, faults>>

LookFor(c) ==
  /\ at[c] = "status" /\ answer[c] = "sent"
  /\ \/ answer' = [answer EXCEPT ![c] = truth] /\ UNCHANGED faults
     \/ Fault /\ answer' = [answer EXCEPT ![c] = "unknown"]
  /\ UNCHANGED <<service, page, refresh, at, action, left, notified, reached>>

(* Mutant: what the page last saw, from whichever request. *)
SawLast(c) == serviceStatus
(* The status the chain goes by.                                             *)
Saw(c) == answer[c]

waitForServiceState(c) ==
  /\ at[c] = "status" /\ answer[c] \in State
  /\ serviceStatus' = answer[c]
  /\ IF Saw(c) = Target(c) THEN Finish(c, "success")
     ELSE IF left[c] <= 1 THEN Finish(c, "failure")
     ELSE at' = [at EXCEPT ![c] = "sleep"] /\ UNCHANGED <<notified, serviceBusy, refresh>>
  /\ UNCHANGED <<service, label, enabled, action, left, answer, reached, faults>>

Awake(c) ==
  /\ at[c] = "sleep" /\ at' = [at EXCEPT ![c] = "status"]
  /\ left' = [left EXCEPT ![c] = @ - 1] /\ answer' = [answer EXCEPT ![c] = "sent"]
  /\ UNCHANGED <<service, page, refresh, action, notified, reached, faults>>

Chain(c) == Execute(c) \/ Executed(c) \/ LookFor(c) \/ waitForServiceState(c) \/ Awake(c)
Refreshing(r) == Look(r) \/ refreshServiceStatus(r)

PageNext ==
  \/ Settle \/ Fall \/ Poll
  \/ \E r \in Refresher : Refreshing(r)
  \/ \E c \in Click : Chain(c) \/ \E a \in Action : serviceCommand(c, a)

PageSpec == PageInit /\ [][PageNext]_panel

(* Every request is answered, be it with a failure; the page keeps polling.  *)
FairPageSpec ==
  /\ PageSpec /\ WF_panel(Poll)
  /\ \A r \in Refresher : WF_panel(Refreshing(r))
  /\ \A c \in Click : WF_panel(Chain(c))
-----------------------------------------------------------------------------
(* While a command is under way no button can be pressed, whichever answers  *)
(* of older polls arrive (fakesip.js:303-325, :349-356).                     *)
LockedWhileBusy == serviceBusy => enabled = {} /\ label = "working"

(* A success is reported only if the daemon was in that state at some moment *)
(* after the command was answered: an answer from before does not count      *)
(* (fakesip.js:337-347, :358-375).                                           *)
SuccessWasTrue == \A c \in Click : notified[c] = "success" => reached[c]

(* Every command ends with a notice, whatever fails (fakesip.js:376-383).    *)
ChainsEnd == \A c \in Click : at[c] = "exec" ~> notified[c] # None

(* A daemon that has settled is eventually shown as it is, with the buttons   *)
(* that go with it, however the answers were ordered before                  *)
(* (fakesip.js:327-335, :380-383, :612-613).                                 *)
PageCatchesUp ==
  \A s \in Settled : <>[](truth = s) => <>[](label = s /\ enabled = Buttons(s))

(* Whatever was clicked, lost or late, the panel gets over it.               *)
PanelRecovers == ChainsEnd /\ PageCatchesUp
=============================================================================
