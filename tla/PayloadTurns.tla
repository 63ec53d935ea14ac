---------------------------- MODULE PayloadTurns ----------------------------
(* What payload.c promises: the payloads of the command line take turns, in *)
(* the order they were given, beginning with the first.                     *)
EXTENDS Sequences

CONSTANT None

VARIABLES list,   \* the payloads asked for, fixed
          turns,  \* empty, or the payloads with the next one at the head
          out     \* what the last th_payload_get returned

Init == turns = << >> /\ out = None

Ready == turns = << >> /\ turns' = list /\ UNCHANGED <<list, out>>

Get ==
  /\ turns # << >>
  /\ out' = Head(turns)
  /\ turns' = Append(Tail(turns), Head(turns))
  /\ UNCHANGED list

Cleanup == turns' = << >> /\ UNCHANGED <<list, out>>

Next == Ready \/ Get \/ Cleanup

Spec == Init /\ [][Next]_<<list, turns, out>>
=============================================================================
