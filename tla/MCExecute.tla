----------------------------- MODULE MCExecute -----------------------------
(* Seven descriptors: the three standard ones, a log, a socket and a pipe.  *)
(* Inputs shorter than, as long as, and longer than what a pipe holds.      *)
EXTENDS Execute
=============================================================================
