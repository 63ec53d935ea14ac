----------------------------- MODULE MCService -----------------------------
(* Up to four options changed from the shipped section; two networks that    *)
(* share a device, one of them may be down; numbers around the edges, with   *)
(* zeros in front, a prefix, a space behind or a fraction.  In a shell, up   *)
(* to four options, with arrays that double at the first and the third       *)
(* entry.  Into a field for a number, any text of five characters: a prefix  *)
(* with digits, or a number beyond either width, with something in front of  *)
(* it or behind it.  What is typed there shares no state with the rest,      *)
(* which rests meanwhile.                                                    *)
EXTENDS Service

CONSTANTS wan, wan6, eth, ppp, bad, mobile, unicom, telecom, custom_uri, file, path

MCDefaultMark == {1}
MCMarkText == <<"2">>
MCTyped == {"0", "1", "8", "a", "x", "+", "-", " ", "."}
MCNumber == {0, 10, 99, 256}
MCValues ==
  [enabled |-> {TRUE}, all_interfaces |-> {TRUE}, interface_mode |-> {Unset, "device", "auto", "lan"},
   network |-> {<<>>, <<wan, wan6>>}, interface |-> {<<eth>>, <<ppp>>, <<bad, eth>>},
   inbound |-> {TRUE, Unset}, outbound |-> {FALSE, Unset}, ipv4 |-> {FALSE}, ipv6 |-> {FALSE, Unset},
   no_hop_estimate |-> {TRUE}, skip_firewall |-> {TRUE}, use_iptables |-> {TRUE}, silent |-> {FALSE},
   queue_num |-> {<<"6", "5", "5", "3", "5">>, <<"6", "5", "5", "3", "6">>}, fwmark |-> {<<"0">>, <<"1", " ">>, Unset},
   fwmask |-> {<<"3">>, <<"0", "x", "1">>, Unset},
   repeat |-> {<<"1", "0">>, <<"1", "1">>, Unset}, ttl |-> {<<"0", "2", "5", "5">>, <<"2", "5", "5", ".", "0">>},
   dynamic_pct |-> {<<"9", "9">>, <<"0", "0">>, <<"0", ".", "1">>, Unset},
   sip_profile |-> {"standard", "custom", "china_mobile", "china_typo", Unset},
   sip_uri |-> {<<custom_uri>>}, payload_file |-> {<<file>>}, log_file |-> {path, TooLong}]

MCShipped ==
  [enabled |-> FALSE, all_interfaces |-> FALSE, interface_mode |-> "network", network |-> <<wan>>,
   interface |-> <<>>, inbound |-> FALSE, outbound |-> TRUE, ipv4 |-> TRUE, ipv6 |-> TRUE,
   no_hop_estimate |-> FALSE, skip_firewall |-> FALSE, use_iptables |-> FALSE, silent |-> TRUE,
   queue_num |-> <<"5", "1", "3">>, fwmark |-> MarkText, fwmask |-> MarkText, repeat |-> <<"1">>, ttl |-> <<"3">>,
   dynamic_pct |-> NoShare, sip_profile |-> "china_all", sip_uri |-> <<>>, payload_file |-> <<>>,
   log_file |-> Unset]

MCViews == {wan :> ppp @@ wan6 :> ppp, wan :> Down @@ wan6 :> ppp, wan :> Down @@ wan6 :> Down}
MCCarrier == [china_mobile |-> <<mobile>>, china_all |-> <<mobile, unicom, telecom>>]
MCName == {path}
MCBad == {bad, Empty, TooLong}

MCInit == ServiceInit /\ TextInit
MCNext ==
  \/ ServiceNext /\ text = <<>> /\ UNCHANGED text
  \/ TextNext /\ ServiceInit /\ UNCHANGED <<vars, svars>>
MCSpec == MCInit /\ [][MCNext]_<<vars, svars, text>>
=============================================================================
