----------------------------- MODULE MCRawsend -----------------------------
(* Two peers, one per family, on two interfaces, and a cache of two         *)
(* observations, so that either can be evicted by the other; routes on      *)
(* which a peer is local, is far, or is beyond the smallest usual TTL; one  *)
(* option set per path through the handler.                                 *)
EXTENDS Rawsend

G(inbound, outbound, use_ipv4, use_ipv6, nohopest, pct, repeat) ==
  [inbound |-> inbound, outbound |-> outbound, use_ipv4 |-> use_ipv4, use_ipv6 |-> use_ipv6,
   nohopest |-> nohopest, dynamic_pct |-> pct, ttl |-> 3, repeat |-> repeat]

MCOptions ==
  {G(TRUE,  TRUE,  TRUE,  TRUE,  FALSE, 80, 1),  \* both directions, -y 80
   G(TRUE,  FALSE, TRUE,  FALSE, FALSE, 0,  2),  \* -0 -4
   G(FALSE, TRUE,  TRUE,  TRUE,  FALSE, 50, 2),  \* -1
   G(TRUE,  FALSE, FALSE, TRUE,  TRUE,  0,  1)}  \* -0 -6 -g
MCIfindex == {1, 2}
MCRouters == {2, 9, 70}
=============================================================================
