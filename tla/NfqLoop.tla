------------------------------ MODULE NfqLoop ------------------------------
(***************************************************************************)
(* The packet loop of src/src/nfqueue.c: it waits for the netfilter queue, *)
(* receives one message and hands it to the callback, which goes through   *)
(* the parts of the message and gives the packet a verdict, while errors   *)
(* of several kinds occur and a signal may arrive between any two steps.   *)
(***************************************************************************)
EXTENDS Integers, SequencesExt

CONSTANTS MaxPacketErrors,  \* NFQ_MAX_PACKET_ERRORS
          BackoffMax,       \* NFQ_BACKOFF_MAX_MS
          MaxTransient      \* bound: errors of recv() without a message between

ASSUME LimitsAssumption ==
  /\ MaxPacketErrors \in Nat \ {0} /\ MaxTransient \in Nat
  /\ BackoffMax \in Nat /\ BackoffMax >= 20  \* at least the first pause

VARIABLES exit,         \* g_ctx.exit, set by the signal handler
          woken,        \* the signal came while the loop was blocked
          pc,           \* "start" "test" "poll" "polling" "recv", one of Callback,
                        \* "backoff" "sleeping" "done"
          res,          \* what nfq_handle_packet returned
          transient_err_cnt, packet_err_cnt,
          delay,        \* the last delay error_backoff() chose, in ms
          returned,          \* what fs_nfq_loop returns
          fatal,        \* ghost: an error that no retry can cure occurred
          results,      \* ghost: of the last MaxPacketErrors messages
          unanswered,   \* ghost: packets received since the last verdict
          helpless,     \* ghost: there is no packet to name in a verdict, or the
                        \* kernel did not take it
          grace,        \* ghost: exit was set after poll() reported a message
          late          \* ghost: messages received since exit was set

counters == <<transient_err_cnt, packet_err_cnt, delay>>
packet   == <<res, unanswered, helpless>>
ghosts   == <<fatal, results, grace, late>>
loop == <<exit, woken, pc, counters, packet, returned, ghosts>>

LoopInit ==
  /\ exit = FALSE /\ woken = FALSE
  /\ pc = "start"
  /\ transient_err_cnt = 0 /\ packet_err_cnt = 0 /\ delay = 0
  /\ res = 0 /\ unanswered = 0 /\ helpless = FALSE
  /\ returned = 0
  /\ fatal = FALSE /\ results = << >>
  /\ grace = FALSE /\ late = 0

(* SIGINT or SIGTERM at any moment.  It interrupts poll() and nanosleep()   *)
(* only if it comes after they were entered.                                *)
Signal ==
  /\ pc # "done"
  /\ exit' = TRUE
  /\ woken' = (woken \/ pc \in {"polling", "sleeping"})
  /\ grace' = IF exit THEN grace ELSE pc = "recv"
  /\ UNCHANGED <<pc, counters, packet, returned, fatal, results, late>>

Go(to) == pc' = to /\ woken' = FALSE

Return(rc) == Go("done") /\ returned' = rc

Fatal == Return(-1) /\ fatal' = TRUE /\ UNCHANGED <<exit, counters, packet, results, grace, late>>

(* A step that changes nothing but the place.                               *)
Passes(from, to) ==
  pc = from /\ Go(to) /\ UNCHANGED <<exit, counters, packet, returned, ghosts>>
-----------------------------------------------------------------------------
BufferAllocated == Passes("start", "test")

BufferFails == pc = "start" /\ Fatal

Test ==
  /\ pc = "test"
  /\ IF exit THEN Return(0) ELSE Go("poll") /\ UNCHANGED returned
  /\ UNCHANGED <<exit, counters, packet, ghosts>>

EnterPoll == Passes("poll", "polling")

PollInterrupted == woken /\ Passes("polling", "test")

(* Mutant: poll() without a timeout. *)
PollTimesOutNever == woken /\ Passes("polling", "test")
PollTimesOut == Passes("polling", "test")

PollFails == pc = "polling" /\ Fatal

(* The flag is looked at again before the events are.                       *)
PollReports(revents) ==
  \/ exit /\ Passes("polling", "test")
  \/ ~exit /\ revents = "POLLNVAL" /\ pc = "polling" /\ Fatal
  \/ ~exit /\ revents = "POLLIN" /\ Passes("polling", "recv")
  \/ ~exit /\ revents = "nothing to read" /\ Passes("polling", "test")
-----------------------------------------------------------------------------
Least(a, b) == IF a < b THEN a ELSE b

(* Mutant: the shift wraps. *)
DelayWraps(error_count) == Least(10 * 2^(error_count % 8), BackoffMax)
(* error_backoff *)
Delay(error_count) == Least(10 * 2^Least(error_count, 7), BackoffMax)

RecvInterrupted == Passes("recv", "test")

(* Mutant: a receive error ends a series of failed messages. *)
RecvTransientForgives ==
  /\ pc = "recv" /\ transient_err_cnt < MaxTransient
  /\ transient_err_cnt' = transient_err_cnt + 1
  /\ packet_err_cnt' = 0
  /\ delay' = Delay(transient_err_cnt')
  /\ Go("backoff")
  /\ UNCHANGED <<exit, packet, returned, ghosts>>
(* EAGAIN, EWOULDBLOCK, ETIMEDOUT, ENOBUFS *)
RecvTransient ==
  /\ pc = "recv" /\ transient_err_cnt < MaxTransient
  /\ transient_err_cnt' = transient_err_cnt + 1
  /\ delay' = Delay(transient_err_cnt')
  /\ Go("backoff")
  /\ UNCHANGED <<exit, packet_err_cnt, packet, returned, ghosts>>

(* Any other error, or the socket was closed.                               *)
RecvFatal == pc = "recv" /\ Fatal

RecvMessage ==
  /\ pc = "recv"
  /\ transient_err_cnt' = 0
  /\ Go("parse")
  /\ unanswered' = unanswered + 1 /\ helpless' = FALSE
  /\ late' = IF exit THEN late + 1 ELSE late
  /\ UNCHANGED <<exit, packet_err_cnt, delay, res, returned, fatal, results, grace>>
-----------------------------------------------------------------------------
(* Where nfq_handle_packet and the callback are, up to the result.          *)
Callback == {"parse", "header", "payload", "interface", "hwaddr", "handler", "verdict", "count"}

(* They are left with an error, at a place where no packet can be named.    *)
LeavesAt(place) ==
  /\ pc = place /\ Go("count")
  /\ res' = -1 /\ helpless' = TRUE
  /\ UNCHANGED <<exit, counters, unanswered, returned, ghosts>>

MessageMalformed == LeavesAt("parse")
MessageParsed    == Passes("parse", "header")

HeaderMissing == LeavesAt("header")
HeaderFound   == Passes("header", "payload")

PayloadFails  == Passes("payload", "verdict")
PayloadFound  == Passes("payload", "interface")

InterfaceMissing == Passes("interface", "verdict")
InterfaceFound   == Passes("interface", "hwaddr")

(* Mutant: the callback returns 0 where it should accept. *)
HwaddrForgets ==
  /\ pc = "hwaddr" /\ Go("count") /\ res' = 0
  /\ UNCHANGED <<exit, counters, unanswered, helpless, returned, ghosts>>
(* copy_packet_hwaddr: the address is longer than there is room for.        *)
HwaddrTooLong == Passes("hwaddr", "verdict")
HwaddrCopied  == Passes("hwaddr", "handler")

(* Whether fs_rawsend_handle fails or not, the packet is let go.            *)
HandlerReturns == Passes("handler", "verdict")

(* nfq_set_verdict is sent, or not; its result is the callback's.           *)
SetVerdict(sent) ==
  /\ pc = "verdict" /\ Go("count")
  /\ res' = (IF sent THEN 0 ELSE -1)
  /\ unanswered' = (IF sent THEN 0 ELSE unanswered)
  /\ helpless' = ~sent
  /\ UNCHANGED <<exit, counters, returned, ghosts>>

(* The loop with the result of nfq_handle_packet.                           *)
Count ==
  LET ok == res = 0 IN
  /\ pc = "count"
  /\ packet_err_cnt' = IF ok THEN 0 ELSE packet_err_cnt + 1
  /\ \/ ok /\ Go("test") /\ UNCHANGED <<returned, delay>>
     \/ ~ok /\ packet_err_cnt' >= MaxPacketErrors /\ Return(-1) /\ UNCHANGED delay
     \/ /\ ~ok /\ packet_err_cnt' < MaxPacketErrors
        /\ delay' = Delay(packet_err_cnt')
        /\ Go("backoff") /\ UNCHANGED returned
  /\ results' = Append(IF Len(results) < MaxPacketErrors THEN results ELSE Tail(results),
                       IF unanswered = 0 THEN "ok" ELSE "failed")
  /\ UNCHANGED <<exit, transient_err_cnt, packet, fatal, grace, late>>

EnterSleep == Passes("backoff", "sleeping")

(* nanosleep runs its time, or is interrupted and not resumed as exit is    *)
(* set; no other signal has a handler.                                      *)
SleepEnds == Passes("sleeping", "test")

HandlesPacket ==
  \/ MessageMalformed \/ MessageParsed
  \/ HeaderMissing \/ HeaderFound
  \/ PayloadFails \/ PayloadFound
  \/ InterfaceMissing \/ InterfaceFound
  \/ HwaddrTooLong \/ HwaddrCopied
  \/ HandlerReturns
  \/ \E sent \in BOOLEAN : SetVerdict(sent)

(* What becomes of the socket is the kernel's doing, ...                    *)
Report ==
  \/ PollFails
  \/ \E revents \in {"POLLNVAL", "POLLIN", "nothing to read"} : PollReports(revents)

(* ... the rest the daemon does, or time does for it.                       *)
Step ==
  \/ BufferAllocated \/ BufferFails
  \/ Test
  \/ EnterPoll
  \/ PollInterrupted
  \/ PollTimesOut
  \/ RecvInterrupted
  \/ RecvTransient
  \/ RecvFatal
  \/ RecvMessage
  \/ HandlesPacket
  \/ Count
  \/ EnterSleep
  \/ SleepEnds

LoopNext == Signal \/ Report \/ Step

LoopSpec == LoopInit /\ [][LoopNext]_loop

(* The daemon is scheduled, and its poll() and nanosleep() time out; that a *)
(* packet ever arrives is not assumed.                                      *)
FairLoopSpec == LoopSpec /\ WF_loop(Step)
-----------------------------------------------------------------------------
Hopeless == Len(results) = MaxPacketErrors /\ \A k \in 1..MaxPacketErrors : results[k] = "failed"

(* The loop gives up exactly when an error is beyond retrying or none of    *)
(* the last MaxPacketErrors messages led to a verdict.  Receive errors in   *)
(* between, however many, neither end it nor hide a series of failures, and *)
(* one message that goes well ends the series (nfqueue.c:352-396).          *)
GivesUpOnlyWhenHopeless == returned = -1 <=> fatal \/ Hopeless

(* Once the exit flag is set no further message is received, however busy   *)
(* the queue is, but the one poll() had already reported may be             *)
(* (nfqueue.c:325-346).                                                     *)
NoMessageAfterExit == late <= IF grace THEN 1 ELSE 0

(* No path of the callback forgets a packet.  Whenever the loop is through  *)
(* with a message, the error counter is the number of packets it has left   *)
(* in the kernel since the last verdict, so a series of them ends the loop; *)
(* and the last packet was left only because its message did not name it or *)
(* the kernel did not take the verdict: data, interface or address that     *)
(* cannot be used and a handler that fails still let it go                  *)
(* (nfqueue.c:133-182, :383-396).                                           *)
NoPacketForgotten ==
  pc \notin Callback => unanswered = packet_err_cnt /\ (unanswered > 0 => helpless)

(* In a series of receive errors the pauses never shrink, and each is at    *)
(* least 20 ms and at most BackoffMax, so errors neither make the loop spin *)
(* nor keep it from a queue that recovered (nfqueue.c:72-89).               *)
BackoffGrows ==
  [][pc' = "backoff" =>
       /\ delay' \in 20..BackoffMax
       /\ transient_err_cnt' > 1 => delay' >= delay]_loop

(* After a signal the loop returns, also when the signal came just before   *)
(* poll() or nanosleep() was entered and no packet ever arrives: that is    *)
(* what the poll timeout is for (nfqueue.c:51, :325-337).                   *)
ExitEndsLoop == exit ~> pc = "done"
=============================================================================
