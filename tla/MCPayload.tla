----------------------------- MODULE MCPayload -----------------------------
(* Up to four payloads of two contents, so that lists with repetitions and  *)
(* every position of a failure and of the cursor occur.  Beside the list,   *)
(* every URI of five pieces, of which two long ones come close to the       *)
(* limit, with the widest and the narrowest random numbers.  What a URI     *)
(* means to the list is whether it is refused, and the list provides for    *)
(* both at every node: the two share no state, so one rests at its beginning *)
(* while the other moves.                                                    *)
EXTENDS Payload, SipUri, SequencesExt

CONSTANTS sip, custom

MCPlinfos == BoundedSeq(Content, 4) \ {<< >>}

MCDraws == {[local |-> 10, session |-> 2, dialog |-> 3], [local |-> 15, session |-> 20, dialog |-> 48]}

MCInit == Init /\ NoUri
MCNext ==
  \/ Next /\ text = <<>> /\ UNCHANGED uvars
  \/ Typed /\ Init /\ plinfo = <<sip>> /\ UNCHANGED vars
MCSpec == MCInit /\ [][MCNext]_<<vars, uvars>>
=============================================================================
