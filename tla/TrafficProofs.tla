--------------------------- MODULE TrafficProofs ---------------------------
(***************************************************************************)
(* Theorems about the packet loop (module NfqLoop), for every limit on      *)
(* failures, and about the cache of what its packets show of their senders  *)
(* (module Srcinfo), for every capacity, hosts, interfaces and TTLs.        *)
(***************************************************************************)
EXTENDS NfqLoop, Srcinfo, SequenceTheorems, TLAPS


Result == {"ok", "failed"}

(* The counter is the length of the series of failures that the results end  *)
(* in.                                                                       *)
SeriesOf(s, n) ==
  /\ s \in Seq(Result) /\ Len(s) <= MaxPacketErrors /\ n \in 0..Len(s)
  /\ \A k \in 1..Len(s) : k > Len(s) - n => s[k] = "failed"
  /\ n < Len(s) => s[Len(s) - n] = "ok"

Series == SeriesOf(results, packet_err_cnt)

(* While the loop goes on nothing has happened that would end it.            *)
Hope ==
  /\ pc # "done" => returned = 0 /\ ~fatal /\ packet_err_cnt < MaxPacketErrors
  /\ returned = -1 <=> fatal \/ packet_err_cnt = MaxPacketErrors
  /\ fatal \in BOOLEAN

(* Of messages only the one reported before the flag was set is under way.   *)
Grace ==
  /\ exit \in BOOLEAN /\ late \in 0..1
  /\ ~exit => late = 0
  /\ exit /\ pc = "recv" => grace /\ late = 0
  /\ late = 1 => grace

(* Inside the callback one packet more waits than was counted, until the     *)
(* verdict is sent.                                                          *)
Answered ==
  /\ pc \in Callback \ {"count"} => unanswered = packet_err_cnt + 1
  /\ pc = "count" => IF res = 0 THEN unanswered = 0
                     ELSE unanswered = packet_err_cnt + 1 /\ helpless
  /\ NoPacketForgotten

Inv == Series /\ Hope /\ Grace /\ Answered
-----------------------------------------------------------------------------
LEMMA SeriesIsHopeless ==
  ASSUME Series
  PROVE  Hopeless <=> packet_err_cnt = MaxPacketErrors
<1>1. MaxPacketErrors \in Nat \ {0} /\ Len(results) \in Nat
  BY LimitsAssumption DEF Series, SeriesOf
<1>2. CASE packet_err_cnt = Len(results)
  BY <1>1, <1>2 DEF Series, SeriesOf, Hopeless
<1>3. CASE packet_err_cnt < Len(results)
  <2>1. Len(results) - packet_err_cnt \in 1..Len(results)
    BY <1>1, <1>3 DEF Series, SeriesOf
  <2>2. results[Len(results) - packet_err_cnt] # "failed"
    BY <1>3 DEF Series, SeriesOf
  <2> QED BY <1>1, <1>3, <2>1, <2>2 DEF Series, SeriesOf, Hopeless
<1> QED BY <1>1, <1>2, <1>3 DEF Series, SeriesOf

LEMMA InitInv == LoopInit => Inv
<1> SUFFICES ASSUME LoopInit PROVE Inv
  OBVIOUS
<1>1. Series
  BY LimitsAssumption DEF LoopInit, Series, SeriesOf
<1>2. packet_err_cnt = 0 /\ returned = 0 /\ late = 0 /\ MaxPacketErrors > 0 /\ pc = "start"
  BY LimitsAssumption DEF LoopInit
<1>3. exit = FALSE /\ fatal = FALSE /\ unanswered = 0
  BY DEF LoopInit
<1>4. Hope
  <2>1. returned # -1 /\ packet_err_cnt < MaxPacketErrors /\ packet_err_cnt # MaxPacketErrors
    BY <1>2
  <2> QED BY <1>2, <1>3, <2>1, Zenon DEF Hope
<1>5. Grace
  <2>1. late \in 0..1 /\ late # 1
    BY <1>2
  <2> QED BY <1>2, <1>3, <2>1, Zenon DEF Grace
<1>6. Answered
  BY <1>2, <1>3 DEF Answered, NoPacketForgotten, Callback
<1> QED BY <1>1, <1>4, <1>5, <1>6 DEF Inv

(* The results kept when one more comes: all, or all but the oldest.         *)
Kept(s) == IF Len(s) < MaxPacketErrors THEN s ELSE Tail(s)

LEMMA KeptIsSuffix ==
  ASSUME NEW s \in Seq(Result), Len(s) <= MaxPacketErrors
  PROVE  \E shift \in 0..1 :
           /\ Kept(s) \in Seq(Result) /\ Len(Kept(s)) = Len(s) - shift
           /\ Len(Kept(s)) < MaxPacketErrors
           /\ shift = 1 => Len(s) = MaxPacketErrors
           /\ \A k \in 1..Len(Kept(s)) : Kept(s)[k] = s[k + shift]
<1>1. MaxPacketErrors \in Nat \ {0} /\ Len(s) \in Nat
  BY LimitsAssumption
<1>2. CASE Len(s) < MaxPacketErrors
  <2>1. Kept(s) = s
    BY <1>2 DEF Kept
  <2>2. \A k \in 1..Len(s) : s[k] = s[k + 0]
    BY <1>1
  <2> WITNESS 0 \in 0..1
  <2> QED BY <1>1, <1>2, <2>1, <2>2
<1>3. CASE Len(s) = MaxPacketErrors
  <2>1. Kept(s) = Tail(s) /\ s # <<>>
    BY <1>1, <1>3 DEF Kept
  <2>2. /\ Tail(s) \in Seq(Result) /\ Len(Tail(s)) = Len(s) - 1
        /\ \A k \in 1..(Len(s) - 1) : Tail(s)[k] = s[k + 1]
    BY <2>1
  <2> WITNESS 1 \in 0..1
  <2> QED BY <1>1, <1>3, <2>1, <2>2
<1> QED BY <1>1, <1>2, <1>3

(* One more failure lengthens the series, ...                                *)
LEMMA OneMore ==
  ASSUME NEW s, NEW n, SeriesOf(s, n), n < MaxPacketErrors
  PROVE  SeriesOf(Append(Kept(s), "failed"), n + 1)
<1>1. MaxPacketErrors \in Nat \ {0} /\ Len(s) \in Nat /\ n \in Nat /\ n <= Len(s) /\ s \in Seq(Result)
  BY LimitsAssumption DEF SeriesOf
<1>2. PICK shift \in 0..1 :
           /\ Kept(s) \in Seq(Result) /\ Len(Kept(s)) = Len(s) - shift
           /\ Len(Kept(s)) < MaxPacketErrors
           /\ shift = 1 => Len(s) = MaxPacketErrors
           /\ \A k \in 1..Len(Kept(s)) : Kept(s)[k] = s[k + shift]
  BY KeptIsSuffix DEF SeriesOf
<1> DEFINE t == Append(Kept(s), "failed")
           l == Len(Kept(s))
<1>3. l \in Nat /\ l = Len(s) - shift /\ l < MaxPacketErrors /\ n <= l
  BY <1>1, <1>2
<1>4. /\ t \in Seq(Result) /\ Len(t) = l + 1 /\ t[l + 1] = "failed"
      /\ \A k \in 1..l : t[k] = s[k + shift]
  BY <1>2 DEF Result
<1> HIDE DEF t, l
<1>5. ASSUME NEW k \in 1..(l + 1), k > l - n PROVE t[k] = "failed"
  <2>1. CASE k = l + 1
    BY <1>4, <2>1
  <2>2. CASE k \in 1..l
    <3>1. k + shift \in 1..Len(s) /\ k + shift > Len(s) - n
      BY <1>1, <1>3, <1>5, <2>2
    <3>2. s[k + shift] = "failed"
      BY <3>1 DEF SeriesOf
    <3> QED BY <1>4, <2>2, <3>2
  <2> QED BY <1>3, <2>1, <2>2
<1>6. ASSUME n < l PROVE t[l - n] = "ok"
  <2>1. l - n \in 1..l /\ l - n + shift = Len(s) - n /\ n < Len(s)
    BY <1>1, <1>3, <1>6
  <2>2. s[Len(s) - n] = "ok"
    BY <2>1 DEF SeriesOf
  <2> QED BY <1>4, <2>1, <2>2
<1>7. /\ Len(t) <= MaxPacketErrors /\ n + 1 \in 0..Len(t)
      /\ Len(t) - (n + 1) = l - n /\ (n + 1 < Len(t) => n < l)
  BY <1>1, <1>3, <1>4
<1>8. SeriesOf(t, n + 1)
  BY <1>4, <1>5, <1>6, <1>7 DEF SeriesOf
<1> QED BY <1>8 DEF t

(* ... and a message that goes well ends it.                                 *)
LEMMA Ended ==
  ASSUME NEW s \in Seq(Result), Len(s) <= MaxPacketErrors
  PROVE  SeriesOf(Append(Kept(s), "ok"), 0)
<1>1. Kept(s) \in Seq(Result) /\ Len(Kept(s)) \in Nat /\ Len(Kept(s)) < MaxPacketErrors
  BY KeptIsSuffix
<1> DEFINE t == Append(Kept(s), "ok")
<1>2. t \in Seq(Result) /\ Len(t) = Len(Kept(s)) + 1 /\ t[Len(t)] = "ok"
  BY <1>1 DEF Result
<1> HIDE DEF t
<1>3. SeriesOf(t, 0)
  BY <1>1, <1>2, LimitsAssumption DEF SeriesOf
<1> QED BY <1>3 DEF t
-----------------------------------------------------------------------------
LEMMA CountPreserves ==
  ASSUME Inv, Count
  PROVE  Inv'
<1> DEFINE ok == res = 0
<1>1. /\ pc = "count" /\ packet_err_cnt' = (IF ok THEN 0 ELSE packet_err_cnt + 1)
      /\ results' = Append(Kept(results), IF unanswered = 0 THEN "ok" ELSE "failed")
      /\ UNCHANGED <<exit, packet, fatal, grace, late>>
  BY DEF Count, Kept
<1>2. /\ results \in Seq(Result) /\ Len(results) <= MaxPacketErrors
      /\ packet_err_cnt \in Nat /\ packet_err_cnt < MaxPacketErrors /\ ~fatal /\ returned = 0
  BY <1>1 DEF Inv, Series, SeriesOf, Hope
<1>3. IF ok THEN unanswered = 0 ELSE unanswered = packet_err_cnt + 1 /\ helpless
  BY <1>1 DEF Inv, Answered
<1>4. Series'
  <2>1. CASE ok
    BY <1>1, <1>2, <1>3, <2>1, Ended DEF Series
  <2>2. CASE ~ok
    <3>1. unanswered # 0
      BY <1>2, <1>3, <2>2
    <3> QED
      BY <1>1, <1>2, <2>2, <3>1, OneMore DEF Inv, Series
  <2> QED BY <2>1, <2>2
<1>5. Hope'
  <2>1. fatal' = fatal /\ fatal \in BOOLEAN
    BY <1>1 DEF Inv, Hope
  <2>2. ~fatal'
    BY <1>2, <2>1, Zenon
  <2>3. CASE ok
    <3>1. returned' = returned /\ pc' = "test"
      BY <2>3 DEF Count, Go
    <3>2. packet_err_cnt' = 0
      BY <1>1, <2>3, Zenon
    <3>3. /\ packet_err_cnt' < MaxPacketErrors /\ packet_err_cnt' # MaxPacketErrors
          /\ returned' = 0 /\ returned' # -1
      BY <1>2, <3>1, <3>2, LimitsAssumption
    <3> QED BY <3>3, <2>1, <2>2, Zenon DEF Hope
  <2>4. CASE ~ok /\ packet_err_cnt' >= MaxPacketErrors
    <3>1. returned' = -1 /\ pc' = "done"
      BY <2>4, <1>1, <1>2, LimitsAssumption DEF Count, Go, Return
    <3>2. packet_err_cnt' = packet_err_cnt + 1
      BY <1>1, <2>4, Zenon
    <3>3. packet_err_cnt' = MaxPacketErrors
      BY <1>2, <2>4, <3>2, LimitsAssumption
    <3> QED BY <3>1, <3>3, <2>1, Zenon DEF Hope
  <2>5. CASE ~ok /\ packet_err_cnt' < MaxPacketErrors
    <3>1. returned' = returned /\ pc' = "backoff"
      BY <2>5, <1>1, <1>2, LimitsAssumption DEF Count, Go, Return
    <3>2. packet_err_cnt' = packet_err_cnt + 1
      BY <1>1, <2>5, Zenon
    <3>3. /\ packet_err_cnt' < MaxPacketErrors /\ packet_err_cnt' # MaxPacketErrors
          /\ returned' = 0 /\ returned' # -1
      BY <1>2, <2>5, <3>1, <3>2, LimitsAssumption
    <3> QED BY <3>3, <2>1, <2>2, Zenon DEF Hope
  <2> QED BY <1>1, <1>2, <2>3, <2>4, <2>5, LimitsAssumption
<1>6. pc' \in {"test", "done", "backoff"}
  BY DEF Count, Go, Return
<1>7. Grace'
  BY <1>1, <1>6 DEF Inv, Grace
<1>8. Answered'
  <2>1. pc' \notin Callback
    BY <1>6 DEF Callback
  <2>2. unanswered' = packet_err_cnt' /\ (unanswered' > 0 => helpless')
    BY <1>1, <1>3 DEF packet
  <2> QED
    BY <2>1, <2>2 DEF Answered, NoPacketForgotten, Callback
<1> QED BY <1>4, <1>5, <1>7, <1>8 DEF Inv

(* A step that leaves the counting alone, and the loop running.              *)
LEMMA Quiet ==
  ASSUME Inv, pc # "done", pc' # "done", Grace', Answered',
         UNCHANGED <<results, packet_err_cnt, returned, fatal>>
  PROVE  Inv'
<1>1. Series'
  BY DEF Inv, Series, SeriesOf
<1>2. Hope'
  BY DEF Inv, Hope
<1> QED BY <1>1, <1>2 DEF Inv

(* A step outside the callback that only moves on.                           *)
LEMMA MovesOn ==
  ASSUME Inv, pc # "done", pc \notin Callback, pc' \notin Callback \cup {"done"}, Grace',
         UNCHANGED <<results, packet_err_cnt, packet, returned, fatal>>
  PROVE  Inv'
<1>1. Answered'
  BY DEF Inv, Answered, NoPacketForgotten, Callback, packet
<1> QED BY <1>1, Quiet

(* An error that no retry can cure.                                          *)
LEMMA FatalPreserves ==
  ASSUME Inv, pc # "done", pc \notin Callback, Fatal
  PROVE  Inv'
<1>1. Series' /\ Answered'
  BY DEF Inv, Series, SeriesOf, Answered, NoPacketForgotten, Callback, Fatal, Return, Go, counters, packet
<1>2. Hope'
  BY DEF Inv, Hope, Fatal, Return, Go, counters
<1>3. Grace'
  BY DEF Inv, Grace, Fatal, Return, Go
<1> QED BY <1>1, <1>2, <1>3 DEF Inv

LEMMA SignalPreserves == Inv /\ Signal => Inv'
<1> SUFFICES ASSUME Inv, Signal PROVE Inv'
  OBVIOUS
<1>1. Grace'
  <2>1. exit' = TRUE /\ pc' = pc /\ late' = late /\ late \in 0..1
    BY DEF Inv, Grace, Signal
  <2>2. CASE exit
    <3>1. grace' = grace
      BY <2>2 DEF Signal
    <3> QED BY <2>1, <2>2, <3>1, Zenon DEF Inv, Grace
  <2>3. CASE ~exit
    <3>1. late = 0 /\ late # 1
      BY <2>3 DEF Inv, Grace
    <3>2. grace' = (pc = "recv")
      BY <2>3, Zenon DEF Signal
    <3> QED BY <2>1, <3>1, <3>2, Zenon DEF Grace
  <2> QED BY <2>2, <2>3
<1>2. Answered'
  BY DEF Inv, Answered, NoPacketForgotten, Signal, counters, packet
<1> QED BY <1>1, <1>2, Quiet DEF Signal, counters

LEMMA StartPreserves ==
  ASSUME Inv, BufferAllocated \/ BufferFails
  PROVE  Inv'
<1>1. CASE BufferFails
  BY <1>1, FatalPreserves DEF BufferFails, Callback
<1>2. CASE BufferAllocated
  <2>1. Grace'
    BY <1>2 DEF BufferAllocated, Passes, Go, Inv, Grace, ghosts
  <2> QED BY <1>2, <2>1, MovesOn DEF BufferAllocated, Passes, Go, Callback, counters, ghosts
<1> QED BY <1>1, <1>2

LEMMA TestPreserves == Inv /\ Test => Inv'
<1> SUFFICES ASSUME Inv, Test PROVE Inv'
  OBVIOUS
<1>1. Grace' /\ pc = "test"
  BY DEF Inv, Grace, Test, Return, Go, ghosts
<1>2. CASE exit
  <2>1. pc' = "done" /\ returned' = 0 /\ UNCHANGED <<results, packet_err_cnt, packet, fatal>>
    BY <1>2 DEF Test, Return, Go, counters, ghosts
  <2>2. Series' /\ Answered' /\ Hope'
    BY <1>1, <2>1 DEF Inv, Series, SeriesOf, Answered, NoPacketForgotten, Callback, packet, Hope
  <2> QED BY <1>1, <2>2 DEF Inv
<1>3. CASE ~exit
  BY <1>1, <1>3, MovesOn DEF Test, Go, Callback, counters, ghosts
<1> QED BY <1>2, <1>3

(* A step of the loop that changes only the place.                           *)
LEMMA PassPreserves ==
  ASSUME Inv, NEW from \in {"poll", "polling", "recv", "backoff", "sleeping"},
         NEW to \in {"test", "polling", "sleeping", "recv"}, Passes(from, to),
         to = "recv" => ~exit
  PROVE  Inv'
<1>1. /\ pc = from /\ pc' = to
      /\ UNCHANGED <<exit, packet_err_cnt, packet, returned, results, fatal, grace, late>>
  BY DEF Passes, Go, counters, ghosts
<1>2. Grace'
  BY <1>1 DEF Inv, Grace
<1> QED BY <1>1, <1>2, MovesOn DEF Callback

LEMMA PollPreserves ==
  ASSUME Inv, EnterPoll \/ PollInterrupted \/ PollTimesOut \/ Report
  PROVE  Inv'
<1>1. CASE Fatal /\ pc = "polling"
  BY <1>1, FatalPreserves DEF Callback
<1> QED BY <1>1, PassPreserves
        DEF EnterPoll, PollInterrupted, PollTimesOut, Report, PollFails, PollReports

LEMMA RecvPreserves ==
  ASSUME Inv, RecvInterrupted \/ RecvTransient \/ RecvFatal \/ RecvMessage
  PROVE  Inv'
<1>1. CASE RecvFatal
  BY <1>1, FatalPreserves DEF RecvFatal, Callback
<1>2. CASE RecvInterrupted
  BY <1>2, PassPreserves DEF RecvInterrupted
<1>3. CASE RecvTransient
  <2>1. /\ pc = "recv" /\ pc' = "backoff"
        /\ UNCHANGED <<exit, packet_err_cnt, packet, returned, ghosts>>
    BY <1>3 DEF RecvTransient, Go
  <2>2. Grace'
    BY <2>1 DEF Inv, Grace, ghosts
  <2> QED BY <2>1, <2>2, MovesOn DEF Callback, ghosts
<1>4. CASE RecvMessage
  <2>1. /\ pc = "recv" /\ pc' = "parse" /\ unanswered' = unanswered + 1
        /\ late' = (IF exit THEN late + 1 ELSE late)
        /\ UNCHANGED <<exit, packet_err_cnt, returned, results, fatal, grace>>
    BY <1>4 DEF RecvMessage, Go
  <2>2. Grace'
    BY <2>1 DEF Inv, Grace
  <2>3. Answered'
    BY <2>1 DEF Inv, Answered, NoPacketForgotten, Callback
  <2> QED BY <2>1, <2>2, <2>3, Quiet
<1> QED BY <1>1, <1>2, <1>3, <1>4

LEMMA CallbackPreserves ==
  ASSUME Inv, HandlesPacket
  PROVE  Inv'
<1>1. /\ pc \in Callback \ {"count"} /\ pc' \in Callback
      /\ UNCHANGED <<exit, packet_err_cnt, returned, ghosts>>
      /\ \/ pc' # "count" /\ UNCHANGED packet
         \/ pc' = "count" /\ res' # 0 /\ helpless' /\ UNCHANGED unanswered
         \/ pc' = "count" /\ res' = 0 /\ unanswered' = 0
  <2>1. CASE \E sent \in BOOLEAN : SetVerdict(sent)
    <3>1. PICK sent \in BOOLEAN : SetVerdict(sent)
      BY <2>1
    <3>2. CASE sent
      BY <3>1, <3>2 DEF SetVerdict, Go, Callback, counters
    <3>3. CASE ~sent
      <4>1. helpless'
        BY <3>1, <3>3, Zenon DEF SetVerdict
      <4> QED
        BY <3>1, <3>3, <4>1 DEF SetVerdict, Go, Callback, counters
    <3> QED
      BY <3>2, <3>3
  <2>2. CASE MessageMalformed \/ HeaderMissing
    BY <2>2 DEF MessageMalformed, HeaderMissing, LeavesAt, Go, Callback, counters
  <2>3. CASE /\ HandlesPacket
             /\ ~(\E sent \in BOOLEAN : SetVerdict(sent)) /\ ~(MessageMalformed \/ HeaderMissing)
    BY <2>3 DEF HandlesPacket, MessageParsed, HeaderFound, PayloadFails, PayloadFound,
       InterfaceMissing, InterfaceFound, HwaddrTooLong, HwaddrCopied, HandlerReturns, Passes, Go,
       Callback, counters
  <2> QED
    BY <2>1, <2>2, <2>3
<1>2. Grace'
  BY <1>1 DEF Inv, Grace, Callback, ghosts
<1>3. Answered'
  BY <1>1 DEF Inv, Answered, NoPacketForgotten, packet
<1> QED BY <1>1, <1>2, <1>3, Quiet DEF Callback, ghosts

LEMMA SleepPreserves ==
  ASSUME Inv, EnterSleep \/ SleepEnds
  PROVE  Inv'
BY PassPreserves DEF EnterSleep, SleepEnds
-----------------------------------------------------------------------------
LEMMA NextInv == Inv /\ [LoopNext]_loop => Inv'
<1> SUFFICES ASSUME Inv, [LoopNext]_loop PROVE Inv'
  OBVIOUS
<1>1. CASE UNCHANGED loop
  BY <1>1 DEF Inv, Series, SeriesOf, Hope, Grace, Answered, NoPacketForgotten, loop, counters,
     packet, ghosts
<1>2. CASE Step
  BY <1>2, StartPreserves, TestPreserves, PollPreserves, RecvPreserves, CallbackPreserves,
     CountPreserves, SleepPreserves DEF Step
<1> QED BY <1>1, <1>2, SignalPreserves, PollPreserves DEF LoopNext

LEMMA Invariance == LoopSpec => []Inv
  BY InitInv, NextInv, PTL DEF LoopSpec

(* The loop gives up exactly after a fatal error or the last of that many    *)
(* failures in a row, for every limit (nfqueue.c:352-396).                   *)
THEOREM GivesUpExactly == LoopSpec => []GivesUpOnlyWhenHopeless
<1>1. Inv => GivesUpOnlyWhenHopeless
  BY SeriesIsHopeless DEF Inv, Hope, GivesUpOnlyWhenHopeless
<1> QED BY <1>1, Invariance, PTL

(* After the signal at most the message poll() had reported is received      *)
(* (nfqueue.c:325-346).                                                      *)
THEOREM ExitStopsMessages == LoopSpec => []NoMessageAfterExit
<1>1. Inv => NoMessageAfterExit
  BY DEF Inv, Grace, NoMessageAfterExit
<1> QED BY <1>1, Invariance, PTL

(* For every limit: the error counter is the number of packets left in the   *)
(* kernel since the last verdict, and none is left that could have been let  *)
(* go (nfqueue.c:133-182, :383-396).                                         *)
THEOREM PacketsAreAccountedFor == LoopSpec => []NoPacketForgotten
<1>1. Inv => NoPacketForgotten
  BY DEF Inv, Answered
<1> QED BY <1>1, Invariance, PTL
-----------------------------------------------------------------------------
PowerOfTwo(m, x) ==
  /\ m = 1 => x = 2
  /\ m = 2 => x = 4
  /\ m = 3 => x = 8
  /\ m = 4 => x = 16
  /\ m = 5 => x = 32
  /\ m = 6 => x = 64
  /\ m = 7 => x = 128

LEMMA Powers == ASSUME NEW m PROVE PowerOfTwo(m, 2^m)
<1>1. /\ m = 1 => 2^m = 2^1
      /\ m = 2 => 2^m = 2^2
      /\ m = 3 => 2^m = 2^3
      /\ m = 4 => 2^m = 2^4
      /\ m = 5 => 2^m = 2^5
      /\ m = 6 => 2^m = 2^6
      /\ m = 7 => 2^m = 2^7
  BY Zenon
<1> DEFINE x == 2^m
<1>2. /\ m = 1 => x = 2
      /\ m = 2 => x = 4
      /\ m = 3 => x = 8
      /\ m = 4 => x = 16
      /\ m = 5 => x = 32
      /\ m = 6 => x = 64
      /\ m = 7 => x = 128
  BY <1>1
<1> QED
  BY <1>2, Zenon DEF PowerOfTwo

(* A pause is twice the one before, from 20 ms to the maximum.               *)
LEMMA Pauses ==
  ASSUME NEW n \in Nat, n > 0
  PROVE  Delay(n) \in 20..BackoffMax /\ Delay(n + 1) >= Delay(n)
<1>1. BackoffMax \in Nat /\ BackoffMax >= 20
  BY LimitsAssumption
<1>2. 2^7 = 128
  OBVIOUS
<1>3. CASE n >= 7
  <2>1. Least(n, 7) = 7 /\ Least(n + 1, 7) = 7
    BY <1>3 DEF Least
  <2> QED
    BY <1>1, <1>2, <2>1 DEF Delay, Least
<1>4. CASE n < 7
  <2>1. Least(n, 7) = n /\ Least(n + 1, 7) = n + 1
    BY <1>4 DEF Least
  <2>2. n \in 1..6
    BY <1>4
  <2>3. \E k \in 2..64 : 2^n = k /\ 2^(n + 1) = 2 * k
    <3> DEFINE a == 2^n
               b == 2^(n + 1)
    <3>1. PowerOfTwo(n, a) /\ PowerOfTwo(n + 1, b)
      BY Powers, Zenon
    <3> HIDE DEF a, b
    <3>2. \E k \in 2..64 : a = k /\ b = 2 * k
      BY <2>2, <3>1 DEF PowerOfTwo
    <3> QED
      BY <3>2 DEF a, b
  <2>4. PICK k \in 2..64 : 2^n = k /\ 2^(n + 1) = 2 * k
    BY <2>3
  <2>5. Delay(n) = Least(10 * k, BackoffMax) /\ Delay(n + 1) = Least(10 * (2 * k), BackoffMax)
    BY <2>1, <2>4, Zenon DEF Delay
  <2> QED
    BY <1>1, <2>5 DEF Least
<1> QED
  BY <1>3, <1>4

(* The last pause belongs to the series of receive errors that is going on.  *)
Pausing ==
  /\ transient_err_cnt \in Nat /\ packet_err_cnt \in Nat
  /\ transient_err_cnt > 0 => delay = Delay(transient_err_cnt)
  /\ pc \in Callback => transient_err_cnt = 0
  /\ pc = "backoff" => delay \in 20..BackoffMax

Slower ==
  pc' = "backoff" => delay' \in 20..BackoffMax /\ (transient_err_cnt' > 1 => delay' >= delay)

LEMMA PauseStep == Pausing /\ [LoopNext]_loop => Pausing' /\ (LoopNext => Slower)
<1> SUFFICES ASSUME Pausing, [LoopNext]_loop PROVE Pausing' /\ (LoopNext => Slower)
  OBVIOUS
<1>1. CASE RecvTransient
  <2>1. /\ transient_err_cnt' = transient_err_cnt + 1 /\ transient_err_cnt \in Nat
        /\ delay' = Delay(transient_err_cnt + 1) /\ pc' = "backoff" /\ packet_err_cnt' = packet_err_cnt
    BY <1>1 DEF RecvTransient, Go, Pausing
  <2>2. delay' \in 20..BackoffMax
    BY <2>1, Pauses
  <2>3. transient_err_cnt' > 1 => delay' >= delay
    BY <2>1, Pauses DEF Pausing
  <2> QED
    BY <2>1, <2>2, <2>3 DEF Pausing, Slower, Callback
<1>2. CASE Count
  <2>1. /\ pc = "count" /\ transient_err_cnt' = 0 /\ packet_err_cnt \in Nat
        /\ packet_err_cnt' \in {0, packet_err_cnt + 1}
        /\ \/ pc' \in {"test", "done"}
           \/ pc' = "backoff" /\ delay' = Delay(packet_err_cnt') /\ packet_err_cnt' = packet_err_cnt + 1
    BY <1>2 DEF Count, Pausing, Callback, Go, Return
  <2>2. pc' = "backoff" => delay' \in 20..BackoffMax
    BY <2>1, Pauses
  <2> QED
    BY <2>1, <2>2 DEF Pausing, Slower
<1>3. CASE RecvMessage
  BY <1>3 DEF RecvMessage, Go, Pausing, Slower
<1>4. CASE /\ UNCHANGED <<counters, pc>>
  BY <1>4, Pauses DEF counters, Pausing, Slower
<1>5. CASE UNCHANGED counters /\ pc' # "backoff" /\ (pc' \in Callback => pc \in Callback)
  BY <1>5 DEF counters, Pausing, Slower
<1>6. CASE HandlesPacket
  <2>1. UNCHANGED counters /\ pc' # "backoff" /\ pc \in Callback
    BY <1>6 DEF HandlesPacket, MessageMalformed, MessageParsed, HeaderMissing, HeaderFound,
       PayloadFails, PayloadFound, InterfaceMissing, InterfaceFound, HwaddrTooLong, HwaddrCopied,
       HandlerReturns, SetVerdict, LeavesAt, Passes, Go, Callback
  <2> QED
    BY <1>5, <2>1
<1>7. CASE EnterSleep \/ SleepEnds \/ RecvInterrupted \/ RecvFatal \/ Test \/ EnterPoll \/ PollInterrupted
           \/ PollTimesOut \/ Report \/ BufferAllocated \/ BufferFails
  <2>1. UNCHANGED counters /\ pc' \notin Callback \cup {"backoff"}
    BY <1>7 DEF EnterSleep, SleepEnds, RecvInterrupted, RecvFatal, Test, EnterPoll, PollInterrupted,
       PollTimesOut, Report, PollFails, PollReports, BufferAllocated, BufferFails, Passes, Go, Return,
       Fatal, Callback
  <2> QED
    BY <1>5, <2>1
<1>8. CASE Step
  BY <1>1, <1>2, <1>3, <1>6, <1>7, <1>8 DEF Step
<1>9. CASE Signal \/ UNCHANGED loop
  BY <1>4, <1>9 DEF Signal, loop
<1> QED
  BY <1>7, <1>8, <1>9 DEF LoopNext

(* In a series of receive errors the pauses never shrink, whatever the limit *)
(* is (nfqueue.c:72-89).                                                    *)
THEOREM PausesGrow == LoopSpec => BackoffGrows
<1>1. LoopInit => Pausing
  BY DEF LoopInit, Pausing, Callback
<1>2. Pausing /\ [LoopNext]_loop => Pausing'
  BY PauseStep
<1>3. Pausing /\ [LoopNext]_loop =>
        [pc' = "backoff" =>
           /\ delay' \in 20..BackoffMax
           /\ transient_err_cnt' > 1 => delay' >= delay]_loop
  BY PauseStep DEF Slower
<1> QED
  BY <1>1, <1>2, <1>3, PTL DEF LoopSpec, BackoffGrows
-----------------------------------------------------------------------------

(* The remainder of a number below twice the modulus: the only remainders  *)
(* the ring takes.                                                          *)
LEMMA ModSmall ==
  ASSUME NEW n \in Nat \ {0}, NEW x \in 0..n-1
  PROVE  x % n = x
OBVIOUS

LEMMA ModWrap ==
  ASSUME NEW n \in Nat \ {0}, NEW x \in n..(2*n-1)
  PROVE  x % n = x - n
<1>1. x = n * 1 + (x - n)
  OBVIOUS
<1>2. x - n \in 0..n-1
  OBVIOUS
<1> QED BY <1>1, <1>2, Z3

(* The slot before the end of the ring without the remainder: count back   *)
(* from the end, and go on from the top of the array below slot 0.          *)
LEMMA BeforeCases ==
  ASSUME NEW end \in Index, NEW i \in Index
  PROVE  /\ Before(end, i) \in Index
         /\ i < end  => Before(end, i) = end - i - 1
         /\ i >= end => Before(end, i) = end + Capacity - i - 1
<1> DEFINE x == end + Capacity - i - 1
<1> USE CapacityAssumption DEF Index
<1>1. CASE i < end
  <2>1. x \in Capacity..(2*Capacity-1) BY <1>1
  <2>2. x % Capacity = x - Capacity    BY <2>1, ModWrap
  <2> QED BY <1>1, <2>2 DEF Before
<1>2. CASE i >= end
  <2>1. x \in 0..Capacity-1  BY <1>2
  <2>2. x % Capacity = x     BY <2>1, ModSmall
  <2> QED BY <1>2, <2>1, <2>2 DEF Before
<1> QED BY <1>1, <1>2

(* The next end of the ring. *)
LEMMA EndCases ==
  ASSUME NEW end \in Index
  PROVE  /\ end + 1 < Capacity => (end + 1) % Capacity = end + 1
         /\ end + 1 = Capacity => (end + 1) % Capacity = 0
<1> USE CapacityAssumption DEF Index
<1>1. CASE end + 1 < Capacity
  BY <1>1, ModSmall
<1>2. CASE end + 1 = Capacity
  <2>1. end + 1 \in Capacity..(2*Capacity-1) BY <1>2
  <2> QED BY <1>2, <2>1, ModWrap
<1> QED BY <1>1, <1>2
-----------------------------------------------------------------------------
(* Type correctness: whatever sequence of calls is made, the cursors stay  *)
(* inside the array (srcinfo.c:132-135).                                    *)
LEMMA TypeStep == TypeOK /\ [Next]_vars => TypeOK'
<1> SUFFICES ASSUME TypeOK, [Next]_vars PROVE TypeOK'
  OBVIOUS
<1> USE CapacityAssumption DEF TypeOK
<1>1. CASE SetupAgain
  BY <1>1 DEF SetupAgain
<1>2. CASE SetupNoMem
  BY <1>2 DEF SetupNoMem
<1>3. CASE SetupDone
  BY <1>3 DEF SetupDone, Index, Slot
<1>4. CASE Cleanup
  BY <1>4 DEF Cleanup, Index
<1>5. ASSUME NEW addr \in Sockaddr \cup Foreign, NEW ifindex \in Ifindex,
             NEW ttl \in Ttl, NEW hwaddr \in Hwaddr, Put(addr, ifindex, ttl, hwaddr)
      PROVE  TypeOK'
  <2>1. CASE PutRefused(ifindex)
    BY <2>1 DEF PutRefused
  <2>2. CASE PutUnknownFamily
    BY <2>2 DEF PutUnknownFamily, Slot
  <2>3. ASSUME ifindex # 0, addr \in Sockaddr, NEW info, 
               info = [addr |-> addr, ifindex |-> ifindex, ttl |-> ttl, hwaddr |-> hwaddr],
               PutStore(info)
        PROVE  TypeOK'
    <3>1. info \in Slot           BY <2>3 DEF Slot, Info
    <3>2. srci \in [Index -> Slot] BY <2>3 DEF PutStore, Advance, Grow
    <3>3. srci' \in [Index -> Slot] BY <2>3, <3>1, <3>2 DEF PutStore, Advance, Grow
    <3>4. srci_end' \in Index     BY <2>3, EndCases DEF PutStore, Advance, Grow, Index
    <3>5. srci_count' \in 0..Capacity BY <2>3 DEF PutStore, Advance, Grow
    <3> QED BY <3>3, <3>4, <3>5
  <2> QED BY <1>5, <2>1, <2>2, <2>3 DEF Put
<1>6. ASSUME NEW addr, NEW ifindex, Get(addr, ifindex) PROVE TypeOK'
  BY <1>6 DEF Get, GetRefused, GetFound, GetMissing
<1>7. CASE UNCHANGED vars
  BY <1>7 DEF vars
<1> QED BY <1>1, <1>2, <1>3, <1>4, <1>5, <1>6, <1>7 DEF Next

(* The cache is well-formed after any sequence of calls (srcinfo.c:39-46).   *)
THEOREM TypeCorrect == Spec => []TypeOK
<1>1. Init => TypeOK
  BY CapacityAssumption DEF Init, TypeOK, Index
<1> QED BY <1>1, TypeStep, PTL DEF Spec
-----------------------------------------------------------------------------
(* The searched slots are the first srci_count ones until the ring wraps,  *)
(* and all of them afterwards.                                              *)
LEMMA SearchedSlots ==
  ASSUME NEW end \in Index, NEW count \in 0..Capacity,
         count < Capacity => end = count, NEW s \in Index
  PROVE  (\E i \in 0..count-1 : s = Before(end, i)) <=> s < count
<1> USE CapacityAssumption DEF Index
<1>1. ASSUME NEW i \in 0..count-1, s = Before(end, i) PROVE s < count
  BY <1>1, BeforeCases
<1>2. ASSUME s < count, s < end PROVE \E i \in 0..count-1 : s = Before(end, i)
  <2>1. end - s - 1 \in 0..count-1       BY <1>2
  <2>2. s = Before(end, end - s - 1)     BY <1>2, <2>1, BeforeCases
  <2> QED BY <2>1, <2>2
<1>3. ASSUME s < count, s >= end PROVE \E i \in 0..count-1 : s = Before(end, i)
  <2>1. count = Capacity                          BY <1>3
  <2>2. end + Capacity - s - 1 \in 0..count-1     BY <1>3, <2>1
  <2>3. s = Before(end, end + Capacity - s - 1)   BY <1>3, <2>1, <2>2, BeforeCases
  <2> QED BY <2>2, <2>3
<1> QED BY <1>1, <1>2, <1>3

(* get never misses a stored observation: no slot outside the ones it       *)
(* searches holds one, at any capacity (srcinfo.c:158).                     *)
LEMMA WindowStep ==
  TypeOK /\ NothingOutsideWindow /\ [Next]_vars => NothingOutsideWindow'
<1> SUFFICES ASSUME TypeOK, NothingOutsideWindow, [Next]_vars
             PROVE  NothingOutsideWindow'
  OBVIOUS
<1> DEFINE Agree == srci_count < Capacity => srci_end = srci_count
           Clear == srci # Null => \A s \in Index : s >= srci_count => srci[s] = Blank
<1>1. TypeOK'
  BY TypeStep
<1>2. Agree /\ Clear
  <2>1. \A s \in Index : s >= srci_count => ~ \E i \in 0..srci_count-1 : s = Newest(i)
    BY SearchedSlots, CapacityAssumption DEF NothingOutsideWindow, Newest, TypeOK, Index
  <2> QED BY <2>1 DEF NothingOutsideWindow
<1>3. ASSUME Agree', Clear' PROVE NothingOutsideWindow'
  <2>1. \A s \in Index : s < srci_count' => \E i \in 0..srci_count'-1 :
                                                s = Before(srci_end', i)
    BY <1>1, <1>3, SearchedSlots DEF TypeOK
  <2>2. srci' # Null => \A s \in Index : srci'[s] # Blank => s < srci_count'
    BY <1>1, <1>3, CapacityAssumption DEF TypeOK, Index
  <2> QED BY <1>3, <2>1, <2>2 DEF NothingOutsideWindow, Newest
<1> USE CapacityAssumption DEF TypeOK
<1>4. Agree' /\ Clear'
  <2>1. CASE SetupAgain \/ SetupNoMem
    BY <1>2, <2>1 DEF SetupAgain, SetupNoMem
  <2>2. CASE SetupDone
    BY <2>2 DEF SetupDone, Index
  <2>3. CASE Cleanup
    BY <2>3 DEF Cleanup
  <2>4. ASSUME NEW info, PutStore(info) PROVE Agree' /\ Clear'
    BY <1>2, <2>4, EndCases, NullAssumption DEF PutStore, Advance, Grow, Index
  <2>5. CASE PutUnknownFamily
    BY <1>2, <2>5 DEF PutUnknownFamily, Index
  <2>6. ASSUME NEW ifindex, PutRefused(ifindex) PROVE Agree' /\ Clear'
    BY <1>2, <2>6 DEF PutRefused
  <2>7. ASSUME NEW addr, NEW ifindex, Get(addr, ifindex) PROVE Agree' /\ Clear'
    BY <1>2, <2>7 DEF Get, GetRefused, GetFound, GetMissing
  <2>8. CASE UNCHANGED vars
    BY <1>2, <2>8 DEF vars
  <2> QED BY <2>1, <2>2, <2>3, <2>4, <2>5, <2>6, <2>7, <2>8 DEF Next, Put
<1> QED BY <1>3, <1>4

(* A lookup that stops at the first hole or after Capacity steps has seen    *)
(* every entry there is (srcinfo.c:152-163).                                 *)
THEOREM NothingMissed == Spec => []NothingOutsideWindow
<1>1. Init => TypeOK /\ NothingOutsideWindow
  BY CapacityAssumption DEF Init, TypeOK, NothingOutsideWindow, Index
<1>2. TypeOK /\ NothingOutsideWindow /\ [Next]_vars => (TypeOK /\ NothingOutsideWindow)'
  BY TypeStep, WindowStep
<1> QED BY <1>1, <1>2, PTL DEF Spec
-----------------------------------------------------------------------------
(* After a put everything remembered is one place further back, and the     *)
(* place written is never one of them.                                      *)
LEMMA EndMoves ==
  ASSUME NEW end \in Index, NEW e, e = (end + 1) % Capacity
  PROVE  /\ Before(e, 0) = end
         /\ \A i \in 0..Capacity-2 : /\ Before(e, i + 1) = Before(end, i)
                                     /\ Before(end, i) # end
         /\ Before(end, Capacity - 1) = end
<1> USE CapacityAssumption DEF Index
<1>1. e = IF end + 1 = Capacity THEN 0 ELSE end + 1
  <2>1. CASE end + 1 = Capacity
    BY <2>1, ModWrap
  <2>2. CASE end + 1 # Capacity
    BY <2>2, ModSmall
  <2> QED BY <2>1, <2>2
<1>2. e \in Index
  BY <1>1
<1>3. Before(e, 0) = end /\ Before(end, Capacity - 1) = end
  <2>1. 0 \in Index /\ Capacity - 1 \in Index
    OBVIOUS
  <2>2. /\ 0 < e  => Before(e, 0) = e - 0 - 1
        /\ 0 >= e => Before(e, 0) = e + Capacity - 0 - 1
    BY <1>2, <2>1, BeforeCases
  <2>3. /\ Capacity - 1 < end  => Before(end, Capacity - 1) = end - (Capacity - 1) - 1
        /\ Capacity - 1 >= end => Before(end, Capacity - 1) = end + Capacity - (Capacity - 1) - 1
    BY <2>1, BeforeCases
  <2> QED BY <1>1, <2>2, <2>3
<1>4. ASSUME NEW i \in 0..Capacity-2
      PROVE  Before(e, i + 1) = Before(end, i) /\ Before(end, i) # end
  <2>1. i \in Index /\ i + 1 \in Index
    OBVIOUS
  <2>2. /\ i < end  => Before(end, i) = end - i - 1
        /\ i >= end => Before(end, i) = end + Capacity - i - 1
        /\ i + 1 < e  => Before(e, i + 1) = e - (i + 1) - 1
        /\ i + 1 >= e => Before(e, i + 1) = e + Capacity - (i + 1) - 1
    BY <1>2, <2>1, BeforeCases
  <2> QED BY <1>1, <2>1, <2>2
<1> QED BY <1>3, <1>4

(* The sequence of observations a ring holds, oldest first.                 *)
LEMMA RingSeq ==
  ASSUME NEW ring \in [Index -> Slot], NEW end \in Index, NEW count \in 0..Capacity
  PROVE  LET seq == Held(ring, end, count)
         IN  /\ seq \in Seq(Slot)
             /\ Len(seq) = count
             /\ \A k \in 1..count : seq[k] = ring[Before(end, count - k)]
<1> DEFINE seq == Held(ring, end, count)
<1> USE CapacityAssumption
<1>1. ASSUME NEW k \in 1..count PROVE Before(end, count - k) \in Index
  <2>1. count - k \in Index
    BY DEF Index
  <2> QED BY <2>1, BeforeCases
<1>2. seq \in [1..count -> Slot] /\ \A k \in 1..count : seq[k] = ring[Before(end, count - k)]
  BY <1>1 DEF Held
<1> HIDE DEF seq
<1>3. seq \in Seq(Slot)
  BY <1>2, SeqDef
<1>4. DOMAIN seq = 1..count /\ Len(seq) \in Nat /\ DOMAIN seq = 1..Len(seq)
  BY <1>2, <1>3, LenProperties
<1> QED BY <1>2, <1>3, <1>4 DEF seq

(* Storing an observation appends it to the sequence, and drops the oldest  *)
(* one when the ring is full (srcinfo.c:132-135).                           *)
LEMMA StoreAppends ==
  ASSUME NEW ring \in [Index -> Slot], NEW end \in Index, NEW count \in 0..Capacity,
         NEW info \in Slot
  PROVE  Held([ring EXCEPT ![end] = info], Advance(end), Grow(count))
           = Append(IF Len(Held(ring, end, count)) < Capacity THEN Held(ring, end, count)
                    ELSE Tail(Held(ring, end, count)), info)
<1> DEFINE e    == Advance(end)
           n    == Grow(count)
           old  == Held(ring, end, count)
           new  == Held([ring EXCEPT ![end] = info], e, n)
           kept == IF Len(old) < Capacity THEN old ELSE Tail(old)
<1>0. /\ e = (end + 1) % Capacity /\ e \in Index
      /\ n = IF count < Capacity THEN count + 1 ELSE count
      /\ n \in 0..Capacity
  BY CapacityAssumption, EndCases DEF Advance, Grow, Index
<1> HIDE DEF e, n
<1> USE CapacityAssumption
<1>1. /\ old \in Seq(Slot) /\ Len(old) = count
      /\ \A k \in 1..count : old[k] = ring[Before(end, count - k)]
  BY RingSeq
<1>2. /\ new \in Seq(Slot) /\ Len(new) = n
      /\ \A k \in 1..n : new[k] = [ring EXCEPT ![end] = info][Before(e, n - k)]
  <2> DEFINE stored == [ring EXCEPT ![end] = info]
  <2>1. stored \in [Index -> Slot]
    OBVIOUS
  <2> HIDE DEF stored
  <2>2. /\ Held(stored, e, n) \in Seq(Slot) /\ Len(Held(stored, e, n)) = n
        /\ \A k \in 1..n : Held(stored, e, n)[k] = stored[Before(e, n - k)]
    BY <2>1, <1>0, RingSeq
  <2> QED BY <2>2 DEF stored
<1>3. /\ kept \in Seq(Slot) /\ Len(kept) = n - 1
      /\ \A k \in 1..n-1 : kept[k] = ring[Before(end, n - 1 - k)]
  <2>1. CASE count < Capacity
    <3>1. kept = old /\ n - 1 = count
      BY <1>0, <1>1, <2>1
    <3> QED BY <1>1, <3>1
  <2>2. CASE count = Capacity
    <3>1. old # << >>
      BY <1>1, <2>2, EmptySeq
    <3>2. /\ Tail(old) \in Seq(Slot) /\ Len(Tail(old)) = Capacity - 1
          /\ \A k \in 1..Capacity-1 : Tail(old)[k] = old[k+1]
      BY <1>1, <2>2, <3>1, HeadTailProperties
    <3>3. kept = Tail(old) /\ n = Capacity
      BY <1>0, <1>1, <2>2
    <3>4. ASSUME NEW k \in 1..Capacity-1 PROVE Tail(old)[k] = ring[Before(end, Capacity - 1 - k)]
      <4>1. k + 1 \in 1..count /\ count - (k + 1) = Capacity - 1 - k
        BY <2>2
      <4> QED BY <1>1, <3>2, <4>1
    <3> QED BY <3>2, <3>3, <3>4
  <2> QED BY <2>1, <2>2
<1>4. /\ Append(kept, info) \in Seq(Slot) /\ Len(Append(kept, info)) = n
      /\ \A k \in 1..n : Append(kept, info)[k] = IF k = n THEN info ELSE kept[k]
  BY <1>0, <1>3
<1>5. ASSUME NEW k \in 1..n PROVE new[k] = Append(kept, info)[k]
  <2>1. CASE k = n
    <3>1. Before(e, n - k) = end
      <4>1. n - k = 0
        BY <1>0, <2>1
      <4> QED BY <4>1, <1>0, EndMoves
    <3> QED BY <1>2, <1>4, <2>1, <3>1
  <2>2. CASE k # n
    <3> DEFINE i == n - 1 - k
    <3>1. i \in 0..Capacity-2 /\ i \in Index /\ i + 1 = n - k /\ k \in 1..n-1
      BY <1>0, <2>2 DEF Index
    <3>2. Before(e, n - k) = Before(end, i) /\ Before(end, i) # end
      BY <3>1, <1>0, EndMoves
    <3>3. Before(end, i) \in Index
      BY <3>1, BeforeCases
    <3>4. new[k] = ring[Before(end, i)]
      BY <1>2, <3>2, <3>3
    <3>5. Append(kept, info)[k] = ring[Before(end, i)]
      BY <1>3, <1>4, <2>2, <3>1
    <3> QED BY <3>4, <3>5
  <2> QED BY <2>1, <2>2
<1> HIDE DEF old, new, kept
<1>6. new = Append(kept, info)
  BY <1>2, <1>4, <1>5, SeqEqual
<1> QED BY <1>6 DEF old, new, kept, e, n
-----------------------------------------------------------------------------
(* Every step of the ring is a step of the window, or leaves it as it is.   *)
LEMMA WindowInit == Init => Window!Init
BY SeqDef, EmptySeq DEF Init, Window!Init, Held

LEMMA StoreRemembers ==
  ASSUME TypeOK, TypeOK', NEW info \in Info, PutStore(info)
  PROVE  Window!Remember(info)
<1>1. srci # Null /\ srci \in [Index -> Slot] /\ srci_end \in Index /\ srci_count \in 0..Capacity
  BY DEF PutStore, Advance, Grow, TypeOK
<1>2. /\ srci' = [srci EXCEPT ![srci_end] = info]
      /\ srci_end' = Advance(srci_end)
      /\ srci_count' = Grow(srci_count)
      /\ ret' = [rc |-> 0]
  BY DEF PutStore
<1>3. srci' # Null /\ info \in Slot
  <2>1. srci' \in [Index -> Slot]
    BY <1>1, <1>2 DEF Slot
  <2> QED BY <2>1, NullAssumption DEF Slot
<1>4. Held(srci, srci_end, srci_count)'
        = Held([srci EXCEPT ![srci_end] = info], Advance(srci_end), Grow(srci_count))
  BY <1>2 DEF Held
<1>5. Held([srci EXCEPT ![srci_end] = info], Advance(srci_end), Grow(srci_count))
        = Append(IF Len(Held(srci, srci_end, srci_count)) < Capacity
                 THEN Held(srci, srci_end, srci_count)
                 ELSE Tail(Held(srci, srci_end, srci_count)), info)
  BY <1>1, <1>3, StoreAppends
<1> QED BY <1>1, <1>2, <1>3, <1>4, <1>5 DEF Window!Remember

(* Wiping a slot for an unknown family costs at most the oldest observation *)
(* (srcinfo.c:114-137).                                                     *)
LEMMA WipeRefuses ==
  ASSUME TypeOK, NothingOutsideWindow, PutUnknownFamily
  PROVE  Window!Refuse
<1> DEFINE old == Held(srci, srci_end, srci_count)
           new == Held(srci', srci_end, srci_count)
<1> USE CapacityAssumption
<1>1. srci # Null /\ srci \in [Index -> Slot] /\ srci_end \in Index /\ srci_count \in 0..Capacity
  BY DEF PutUnknownFamily, TypeOK
<1>2. srci' = [srci EXCEPT ![srci_end] = Blank] /\ srci' \in [Index -> Slot]
  BY <1>1 DEF PutUnknownFamily, Slot
<1>3. /\ old \in Seq(Slot) /\ Len(old) = srci_count
      /\ \A k \in 1..srci_count : old[k] = srci[Before(srci_end, srci_count - k)]
  BY <1>1, RingSeq
<1>4. /\ new \in Seq(Slot) /\ Len(new) = srci_count
      /\ \A k \in 1..srci_count : new[k] = srci'[Before(srci_end, srci_count - k)]
  BY <1>1, <1>2, RingSeq
<1>5. Held(srci, srci_end, srci_count)' = new
  BY DEF Held, PutUnknownFamily
<1>6. ASSUME NEW k \in 1..srci_count, Before(srci_end, srci_count - k) # srci_end
      PROVE  new[k] = old[k]
  <2>1. srci_count - k \in Index
    BY <1>1 DEF Index
  <2>2. Before(srci_end, srci_count - k) \in Index
    BY <1>1, <2>1, BeforeCases
  <2> QED BY <1>1, <1>2, <1>3, <1>4, <1>6, <2>2
<1>7. CASE srci_count < Capacity
  <2>1. srci_end = srci_count
    BY <1>7 DEF NothingOutsideWindow
  <2>2. ASSUME NEW k \in 1..srci_count PROVE Before(srci_end, srci_count - k) # srci_end
    <3>1. srci_count - k \in Index /\ srci_count - k < srci_end
      BY <1>7, <2>1, <1>1 DEF Index
    <3> QED BY <1>1, <2>1, <3>1, BeforeCases DEF Index
  <2>3. \A k \in 1..Len(new) : new[k] = old[k]
    BY <1>4, <1>6, <2>2
  <2> HIDE DEF old, new
  <2>4. new = old
    BY <1>3, <1>4, <2>3, SeqEqual
  <2> USE DEF old, new
  <2> QED BY <1>1, <1>2, <1>5, <2>4, NullAssumption DEF Window!Refuse, PutUnknownFamily
<1>8. CASE srci_count = Capacity
  <2>1. Before(srci_end, srci_count - 1) = srci_end
    BY <1>1, <1>8, EndMoves DEF Index
  <2>2. ASSUME NEW k \in 2..srci_count PROVE new[k] = old[k]
    <3>1. srci_count - k \in 0..Capacity-2 /\ k \in 1..srci_count
      BY <1>8
    <3>2. Before(srci_end, srci_count - k) # srci_end
      BY <1>1, <3>1, EndMoves
    <3> QED BY <1>6, <3>1, <3>2
  <2>3. new[1] = Blank
    <3>1. 1 \in 1..srci_count
      BY <1>8
    <3> QED BY <1>1, <1>2, <1>4, <2>1, <3>1
  <2>4. /\ [old EXCEPT ![1] = Blank] \in Seq(Slot)
        /\ Len([old EXCEPT ![1] = Blank]) = srci_count
        /\ \A k \in 1..srci_count : [old EXCEPT ![1] = Blank][k] = IF k = 1 THEN Blank ELSE old[k]
    <3>1. 1 \in 1..Len(old) /\ Blank \in Slot
      BY <1>3, <1>8 DEF Slot
    <3> HIDE DEF old
    <3> QED BY <1>3, <3>1, ExceptSeq
  <2>5. \A k \in 1..Len(new) : new[k] = [old EXCEPT ![1] = Blank][k]
    <3> SUFFICES ASSUME NEW k \in 1..srci_count PROVE new[k] = [old EXCEPT ![1] = Blank][k]
      BY <1>4
    <3>1. k = 1 \/ k \in 2..srci_count
      OBVIOUS
    <3> QED BY <2>2, <2>3, <2>4, <3>1
  <2> HIDE DEF old, new
  <2>6. new = [old EXCEPT ![1] = Blank]
    BY <1>4, <2>4, <2>5, SeqEqual
  <2> USE DEF old, new
  <2> QED BY <1>1, <1>2, <1>3, <1>5, <1>8, <2>6, NullAssumption DEF Window!Refuse, PutUnknownFamily
<1> QED BY <1>1, <1>7, <1>8

(* The scan from srci_end backwards finds what the window's newest-first    *)
(* search finds (srcinfo.c:158-168).                                        *)
LEMMA GetLooksUp ==
  ASSUME TypeOK, NEW addr \in Sockaddr \cup Foreign, NEW ifindex \in Ifindex,
         Get(addr, ifindex)
  PROVE  Window!Lookup(addr, ifindex)
<1> DEFINE held == Held(srci, srci_end, srci_count)
<1> USE CapacityAssumption
<1>1. UNCHANGED <<srci, srci_end, srci_count>>
  BY DEF Get, GetRefused, GetFound, GetMissing
<1>2. UNCHANGED <<srci # Null, held>>
  BY <1>1 DEF Held
<1>3. CASE GetRefused(addr, ifindex)
  BY <1>2, <1>3 DEF GetRefused, Window!Lookup, Window!Foreign, Foreign
<1>4. ASSUME srci # Null
      PROVE  /\ Len(held) = srci_count
             /\ \A k \in 1..srci_count : held[k] = srci[Newest(srci_count - k)]
  BY <1>4, RingSeq DEF TypeOK, Newest
<1>5. CASE GetFound(addr, ifindex)
  <2>1. PICK i \in 0..srci_count-1 :
          /\ Matches(srci[Newest(i)], addr, ifindex)
          /\ \A j \in 0..i-1 : ~Matches(srci[Newest(j)], addr, ifindex)
          /\ ret' = [rc |-> 0, addr |-> addr, ifindex |-> ifindex,
                      ttl |-> srci[Newest(i)].ttl, hwaddr |-> srci[Newest(i)].hwaddr]
    BY <1>5 DEF GetFound
  <2> DEFINE k == srci_count - i
  <2>2. k \in 1..srci_count /\ srci_count - k = i
    BY DEF TypeOK
  <2>3. held[k] = srci[Newest(i)] /\ Len(held) = srci_count
    BY <1>4, <1>5, <2>2 DEF GetFound
  <2>4. ASSUME NEW m \in k+1..srci_count PROVE ~Matches(held[m], addr, ifindex)
    <3>1. m \in 1..srci_count /\ srci_count - m \in 0..i-1
      BY <2>2 DEF TypeOK
    <3> QED BY <1>4, <1>5, <2>1, <3>1 DEF GetFound
  <2>5. /\ k \in 1..Len(held)
        /\ Window!Is(held[k], addr, ifindex)
        /\ \A m \in k+1..Len(held) : ~Window!Is(held[m], addr, ifindex)
        /\ ret' = [rc |-> 0, addr |-> addr, ifindex |-> ifindex,
                    ttl |-> held[k].ttl, hwaddr |-> held[k].hwaddr]
    BY <2>1, <2>2, <2>3, <2>4 DEF Matches, Window!Is
  <2> HIDE DEF held, k
  <2>6. srci # Null /\ ifindex # 0
    BY <1>5 DEF GetFound
  <2> QED BY <1>2, <2>5, <2>6 DEF Window!Lookup, held
<1>6. CASE GetMissing(addr, ifindex)
  <2>1. ASSUME NEW k \in 1..srci_count PROVE ~Window!Is(held[k], addr, ifindex)
    <3>1. srci_count - k \in 0..srci_count-1
      BY DEF TypeOK
    <3> QED BY <1>4, <1>6, <3>1 DEF GetMissing, Matches, Window!Is
  <2>2. Len(held) = srci_count
    BY <1>4, <1>6 DEF GetMissing
  <2> HIDE DEF held
  <2> QED BY <1>2, <1>6, <2>1, <2>2 DEF Window!Lookup, GetMissing, held, Window!Sockaddr, Sockaddr
<1> QED BY <1>3, <1>5, <1>6 DEF Get

LEMMA EveryStepMaps ==
  ASSUME TypeOK, TypeOK', NothingOutsideWindow, [Next]_vars
  PROVE  [Window!Next]_(Window!vars)
<1> DEFINE same == UNCHANGED <<srci, srci_end, srci_count>>
<1>1. ASSUME same PROVE UNCHANGED <<srci # Null, Held(srci, srci_end, srci_count)>>
  BY <1>1 DEF Held
<1>2. CASE SetupAgain \/ SetupNoMem
  BY <1>1, <1>2 DEF SetupAgain, SetupNoMem, Window!Next, Window!Setup
<1>3. CASE SetupDone
  <2>1. srci' # Null
    BY <1>3, NullAssumption DEF SetupDone, Slot
  <2>2. Held(srci, srci_end, srci_count)' = << >>
    BY <1>3, SeqDef, EmptySeq DEF SetupDone, Held
  <2> QED BY <1>3, <2>1, <2>2 DEF SetupDone, Window!Next, Window!Setup
<1>4. CASE Cleanup
  <2>1. Held(srci, srci_end, srci_count)' = << >>
    BY <1>4, SeqDef, EmptySeq DEF Cleanup, Held
  <2> QED BY <1>4, <2>1 DEF Cleanup, Window!Next, Window!Cleanup
<1>5. ASSUME NEW addr \in Sockaddr \cup Foreign, NEW ifindex \in Ifindex,
             NEW ttl \in Ttl, NEW hwaddr \in Hwaddr, Put(addr, ifindex, ttl, hwaddr)
      PROVE  Window!Next
  <2>1. CASE PutRefused(ifindex)
    BY <1>1, <2>1 DEF PutRefused, Window!Next, Window!Refuse
  <2>2. CASE PutUnknownFamily
    BY <2>2, WipeRefuses DEF Window!Next
  <2>3. ASSUME ifindex # 0, addr \in Sockaddr,
               PutStore([addr |-> addr, ifindex |-> ifindex, ttl |-> ttl, hwaddr |-> hwaddr])
        PROVE  Window!Next
    <3> DEFINE info == [addr |-> addr, ifindex |-> ifindex, ttl |-> ttl, hwaddr |-> hwaddr]
    <3>1. info \in Info /\ info \in Window!Info
      BY <2>3 DEF Info, Window!Info, Sockaddr, Window!Sockaddr
    <3>2. PutStore(info)
      BY <2>3
    <3> HIDE DEF info
    <3> QED BY <3>1, <3>2, StoreRemembers DEF Window!Next
  <2> QED BY <1>5, <2>1, <2>2, <2>3 DEF Put
<1>6. ASSUME NEW addr \in Sockaddr \cup Foreign, NEW ifindex \in Ifindex, Get(addr, ifindex)
      PROVE  Window!Next
  BY <1>6, GetLooksUp DEF Window!Next, Window!Sockaddr, Window!Foreign, Sockaddr, Foreign
<1>7. CASE UNCHANGED vars
  <2>1. same /\ ret' = ret
    BY <1>7 DEF vars
  <2> QED BY <1>1, <2>1 DEF Window!vars
<1> QED BY <1>2, <1>3, <1>4, <1>5, <1>6, <1>7 DEF Next

(* The ring of srcinfo.c implements the window of the last Capacity         *)
(* observations, for every capacity: a lookup answers with the newest       *)
(* remembered observation of that host on that interface, or with none.     *)
THEOREM RingImplementsWindow == Spec => RingIsWindow
<1>1. Init => TypeOK /\ NothingOutsideWindow
  BY CapacityAssumption DEF Init, TypeOK, NothingOutsideWindow, Index
<1>2. TypeOK /\ NothingOutsideWindow /\ [Next]_vars
        => (TypeOK /\ NothingOutsideWindow)' /\ [Window!Next]_(Window!vars)
  BY TypeStep, WindowStep, EveryStepMaps
<1> QED BY <1>1, <1>2, WindowInit, PTL DEF Spec, RingIsWindow, Window!Spec
=============================================================================
