------------------------------ MODULE Payload ------------------------------
(***************************************************************************)
(* The payloads of src/src/payload.c: setup builds a circular list of heap *)
(* nodes, one for each payload asked for, of which any may be refused; the *)
(* handler takes them in turn; cleanup walks the circle and frees it.      *)
(***************************************************************************)
EXTENDS Integers, Sequences

CONSTANTS Node,     \* addresses malloc() may return
          Content,  \* what payloads may contain
          Null, None,
          Plinfos   \* the lists main() may leave in g_ctx.plinfo

ASSUME NullAssumption    == Null \notin Node
ASSUME NoneAssumption    == None \notin [payload : Content \cup {None}, next : Node]
ASSUME PlinfosAssumption == Plinfos \subseteq Seq(Content)

VARIABLES plinfo,        \* the payloads asked for
          heap,          \* what is allocated at each address
          current_node,
          pc, pinfo,     \* where setup is; how many payloads it has taken
          node,          \* the next node cleanup frees
          corrupt,       \* ghost: memory was used or freed after its release
          out            \* what the last th_payload_get returned

vars == <<plinfo, heap, current_node, pc, pinfo, node, corrupt, out>>

Allocated == {a \in Node : heap[a] # None}

(* main() asks for a SIP payload when the options ask for none.             *)
Init ==
  /\ plinfo \in Plinfos
  /\ heap = [a \in Node |-> None]
  /\ current_node = Null
  /\ pc = "alloc" /\ pinfo = 0 /\ node = Null
  /\ corrupt = FALSE /\ out = None
-----------------------------------------------------------------------------
(* goto cleanup *)
StartCleanup == pc' = "free" /\ node' = current_node

(* A new node goes behind the newest one, which it then is.                 *)
Link(a) ==
  heap' = IF current_node = Null THEN [heap EXCEPT ![a] = [payload |-> None, next |-> a]]
          ELSE [heap EXCEPT ![a] = [payload |-> None, next |-> heap[current_node].next],
                            ![current_node].next = a]

Alloc ==
  /\ pc = "alloc" /\ pinfo < Len(plinfo)
  /\ \E a \in Node \ Allocated : Link(a) /\ current_node' = a
  /\ pc' = "fill"
  /\ UNCHANGED <<plinfo, pinfo, node, corrupt, out>>

AllocFails ==
  /\ pc = "alloc" /\ pinfo < Len(plinfo)
  /\ StartCleanup
  /\ UNCHANGED <<plinfo, heap, current_node, pinfo, corrupt, out>>

(* make_custom or make_sip_invite *)
Fill ==
  /\ pc = "fill"
  /\ heap' = [heap EXCEPT ![current_node].payload = plinfo[pinfo + 1]]
  /\ pinfo' = pinfo + 1
  /\ pc' = "alloc"
  /\ UNCHANGED <<plinfo, current_node, node, corrupt, out>>

(* The file cannot be read, or what would be sent is too long.              *)
FillFails ==
  /\ pc = "fill"
  /\ StartCleanup
  /\ UNCHANGED <<plinfo, heap, current_node, pinfo, corrupt, out>>

(* Mutant: the cursor stays on the newest node. *)
SetupDoneOnLast ==
  /\ pc = "alloc" /\ pinfo = Len(plinfo)
  /\ IF current_node = Null THEN StartCleanup /\ UNCHANGED current_node
     ELSE pc' = "ready" /\ UNCHANGED <<current_node, node>>
  /\ UNCHANGED <<plinfo, heap, pinfo, corrupt, out>>
SetupDone ==
  /\ pc = "alloc" /\ pinfo = Len(plinfo)
  /\ IF current_node = Null THEN StartCleanup /\ UNCHANGED current_node
     ELSE pc' = "ready" /\ current_node' = heap[current_node].next /\ UNCHANGED node
  /\ UNCHANGED <<plinfo, heap, pinfo, corrupt, out>>
-----------------------------------------------------------------------------
(* th_payload_get *)
Get ==
  /\ pc = "ready"
  /\ out' = heap[current_node].payload
  /\ current_node' = heap[current_node].next
  /\ UNCHANGED <<plinfo, heap, pc, pinfo, node, corrupt>>

(* fs_payload_cleanup, from any node of the circle                          *)
Cleanup == pc = "ready" /\ StartCleanup
           /\ UNCHANGED <<plinfo, heap, current_node, pinfo, corrupt, out>>

Next_node == IF node \in Allocated THEN heap[node].next ELSE Null

(* Mutant: the walk does not stop where it began. *)
FreeAround ==
  /\ pc = "free" /\ node # Null
  /\ corrupt' = (corrupt \/ node \notin Allocated)
  /\ heap' = [heap EXCEPT ![node] = None]
  /\ node' = Next_node
  /\ UNCHANGED <<plinfo, current_node, pc, pinfo, out>>
(* One round of its loop: the link is read before the node is freed, and    *)
(* the node the walk began with is compared but not looked into.            *)
Free ==
  /\ pc = "free" /\ node # Null
  /\ corrupt' = (corrupt \/ node \notin Allocated)
  /\ heap' = [heap EXCEPT ![node] = None]
  /\ IF Next_node = current_node THEN node' = Null ELSE node' = Next_node
  /\ UNCHANGED <<plinfo, current_node, pc, pinfo, out>>

Freed ==
  /\ pc = "free" /\ node = Null
  /\ current_node' = Null
  /\ pc' = "gone"
  /\ UNCHANGED <<plinfo, heap, pinfo, node, corrupt, out>>

Next ==
  \/ Alloc
  \/ AllocFails
  \/ Fill
  \/ FillFails
  \/ SetupDone
  \/ Get
  \/ Cleanup
  \/ Free
  \/ Freed

Spec == Init /\ [][Next]_vars
-----------------------------------------------------------------------------
TypeOK ==
  /\ plinfo \in Plinfos
  /\ heap \in [Node -> [payload : Content \cup {None}, next : Node] \cup {None}]
  /\ current_node \in Node \cup {Null}
  /\ pc \in {"alloc", "fill", "ready", "free", "gone"}
  /\ pinfo \in 0..Len(plinfo)
  /\ node \in Node \cup {Null}
  /\ corrupt \in BOOLEAN
  /\ out \in Content \cup {None}

(* Whichever allocation or payload fails, and wherever in the circle the    *)
(* cursor stands when the daemon ends, cleanup frees every node once and    *)
(* leaves none (payload.c:351-372).                                         *)
FreesEachNodeOnce ==
  /\ TypeOK
  /\ ~corrupt
  /\ pc = "gone" => Allocated = {} /\ current_node = Null

(* The payloads read along the circle from the cursor.                      *)
Circle ==
  LET at[k \in 1..Len(plinfo)] ==
        IF k = 1 THEN current_node ELSE heap[at[k - 1]].next
  IN [k \in 1..Len(plinfo) |-> heap[at[k]].payload]

(* While the handler runs, th_payload_get hands out the payloads in the     *)
(* order of the command line, over and over, beginning with the first       *)
(* (payload.c:306-313, :347, :387-389).                                     *)
Turns == INSTANCE PayloadTurns WITH
  list <- plinfo, turns <- IF pc = "ready" THEN Circle ELSE << >>

PayloadsTakeTurns == Turns!Spec
=============================================================================
