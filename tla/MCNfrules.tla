----------------------------- MODULE MCNfrules -----------------------------
(* Two excluded networks for IPv4 and one for IPv6, two interfaces.  On a   *)
(* host with nft, IPv6 on all interfaces or on those listed, and both       *)
(* families with -f, which leaves the rules to others; both families' rules *)
(* at once are for the proofs there.  On a host without nft, both families  *)
(* for one interface, or IPv4 for all.  What a configuration leaves behind, *)
(* the next one of the same host finds.                                     *)
EXTENDS Nfrules

CONSTANTS e0, e1

MCLocalNets == (4 :> <<"10/8", "127/8">>) @@ (6 :> <<"non-GUA">>)

Config(v4, v6, ipt, all, ifs) ==
  [skipfw |-> FALSE, use_ipv4 |-> v4, use_ipv6 |-> v6, use_iptables |-> ipt,
   alliface |-> all, iface |-> ifs]

NftConfigs ==
  { Config(FALSE, TRUE, FALSE, TRUE, << >>),
    Config(FALSE, TRUE, FALSE, FALSE, <<e0, e1>>),
    [Config(TRUE, TRUE, FALSE, TRUE, << >>) EXCEPT !.skipfw = TRUE] }

IptConfigs ==
  { Config(TRUE, TRUE, FALSE, FALSE, <<e0>>),        \* falls back to iptables
    Config(TRUE, FALSE, TRUE, TRUE, << >>) }

MCConfigs == (TRUE :> NftConfigs) @@ (FALSE :> IptConfigs)
=============================================================================
