----------------------------- MODULE MCTraffic -----------------------------
(* The cache: a ring of three slots, enough to wrap and to lap itself, two  *)
(* hosts seen on two interfaces, and two TTLs, so that two observations of  *)
(* one host can differ; the two families make two hosts of one address.     *)
(* Beside it the packet loop: three failures in a row end it, where the     *)
(* code has twenty, enough for a series to be begun, broken and completed;  *)
(* ten receive errors in a row take the pause past its maximum.  The loop   *)
(* reaches the cache through the handler only, which is module Rawsend:     *)
(* here they share no state, so one rests at its beginning while the other  *)
(* moves.                                                                   *)
EXTENDS Srcinfo, NfqLoop

MCIfindex == 0..2

MCInit == Init /\ LoopInit
MCNext ==
  \/ Next /\ LoopInit /\ UNCHANGED loop
  \/ LoopNext /\ Init /\ UNCHANGED vars
MCSpec == MCInit /\ [][MCNext]_<<vars, loop>> /\ WF_loop(Step)
=============================================================================
