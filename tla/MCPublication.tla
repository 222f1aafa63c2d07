---------------------------- MODULE MCPublication ----------------------------
(***************************************************************************)
(* RoutingTable with two peers whose addresses change: connections,        *)
(* observations, relay hints, gossip and both kinds of publication.        *)
(***************************************************************************)
EXTENDS RoutingTable

MCAddrs == {"pub", "alt", "lan", "loop", "wild", "radio"}
MCIps == {"1.1.1.1", "2.2.2.2", "192.168.0.1", "127.0.0.1", "0.0.0.0"}

MCIpOf == [pub |-> "1.1.1.1", alt |-> "2.2.2.2", lan |-> "192.168.0.1",
           loop |-> "127.0.0.1", wild |-> "0.0.0.0", radio |-> "none"]
MCFamilyOf == [ip \in MCIps |-> "v4"]
MCSubnetOf == [ip \in MCIps |-> ip]

MCConnectLists ==
    [p \in {8, 9} |-> IF p = 8 THEN {<< <<"pub", "Unverified">> >>}
                      ELSE {<< <<"radio", "Unverified">> >>}]

MCTrustFns == {[p \in {8, 9} |-> 50]}

MCObservedAddrs == {<<"alt", "Unverified">>, <<"loop", "Lan">>}

\* The last is longer than MaxAddresses: its LAN address sorts last and is cut.
MCPublishLists == {<< <<"pub", "Direct">> >>,
                   << <<"wild", "Direct">> >>,
                   << <<"loop", "Direct">> >>,
                   << <<"lan", "Lan">>, <<"pub", "Relay">>, <<"alt", "Relay">>,
                      <<"radio", "Relay">>, <<"alt", "Direct">> >>}
=============================================================================
