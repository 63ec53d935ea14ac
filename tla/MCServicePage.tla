--------------------------- MODULE MCServicePage ---------------------------
(* Two commands, two looks each, and one fault: a poll may be older than    *)
(* either command.                                                           *)
EXTENDS ServicePage
=============================================================================
