------------------------------ MODULE MCDaemon ------------------------------
(* Two daemons, which procd or an operator starts again whenever they end,  *)
(* on one interface with the IPv4 rules of nft.                             *)
EXTENDS Daemon

CONSTANTS d0, d1, e0

MCLocalNets == (4 :> <<"10/8">>) @@ (6 :> <<"non-GUA">>)
MCConfig == [skipfw |-> FALSE, use_ipv4 |-> TRUE, use_ipv6 |-> FALSE,
             use_iptables |-> FALSE, alliface |-> FALSE, iface |-> <<e0>>]
=============================================================================
