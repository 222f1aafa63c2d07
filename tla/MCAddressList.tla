---------------------------- MODULE MCAddressList ----------------------------
(***************************************************************************)
(* A dual-stack peer with four WAN addresses, a LAN and a loopback         *)
(* address in one family, one WAN address in the other and a radio         *)
(* transport.  MaxAddresses is the number of slots they have, so lists of  *)
(* eight and nine are truncated before the cap.                            *)
(***************************************************************************)
EXTENDS AddressList

MCAddrs == {"p4", "q4", "r4", "s4", "lan4", "loop4", "p6", "radio", "wild"}
MCIps == {"1.1.1.1", "2.2.2.2", "3.3.3.3", "4.4.4.4", "192.168.0.1",
          "127.0.0.1", "2001::1", "0.0.0.0"}
MCIpOf == [p4 |-> "1.1.1.1", q4 |-> "2.2.2.2", r4 |-> "3.3.3.3", s4 |-> "4.4.4.4",
           lan4 |-> "192.168.0.1", loop4 |-> "127.0.0.1", p6 |-> "2001::1",
           radio |-> "none", wild |-> "0.0.0.0"]
MCFamilyOf == [ip \in MCIps |-> IF ip = "2001::1" THEN "v6" ELSE "v4"]
MCSubnetOf == [ip \in MCIps |-> ip]

\* Connections are observed as Lan or Unverified, in any order.
Observed(a) == <<a, IF MCIpOf[a] \in {"192.168.0.1", "127.0.0.1"} THEN "Lan" ELSE "Unverified">>

\* Eight storable entries: the last, alone in its slot or the newest LAN, is cut off.
LongLists ==
    {[i \in DOMAIN l |-> Observed(l[i])] :
        l \in {<<"p4", "q4", "r4", "s4", "loop4", "lan4", "radio", "p6">>,
              <<"p4", "wild", "q4", "r4", "s4", "loop4", "p6", "radio", "lan4">>}}

MCAdmissionLists ==
    LongLists \cup {<<Observed(a), Observed(b), Observed(c)>> :
        a \in {"p4", "lan4", "loop4", "wild"}, b \in {"q4", "p6"}, c \in {"q4", "lan4"}}
      \cup {<<Observed("loop4")>>, <<Observed("radio")>>}

MCObservations == (MCAddrs \ {"r4", "s4"}) \X AddressType

\* Relays enough to crowd out an address of every other type.
RelayHeavy ==
    {<< <<"lan4", "Lan">>, <<"p4", "Unverified">>, <<"p4", "Relay">>, <<"q4", "Relay">>,
        <<"r4", "Relay">>, <<"s4", "Relay">>, <<"p6", "Relay">>, <<"radio", "Relay">>,
        <<"q4", "Direct">> >>,
     << <<"p4", "Relay">>, <<"q4", "Relay">>, <<"r4", "Relay">>, <<"q4", "Relay">>,
        <<"s4", "Relay">>, <<"p6", "Relay">>, <<"radio", "Relay">>, <<"p4", "Direct">> >>}

\* Empty, unusable, over the cap in one family, one address under two types.
MCPublishedLists ==
    RelayHeavy \cup {<<>>, <<<<"wild", "Direct">>>>} \cup
    {<<<<a, "Unverified">>, <<b, t>>, <<c, "Direct">>>> :
        a \in {"p4", "lan4"}, b \in {"q4", "p6"}, t \in {"Relay", "Direct"},
        c \in {"p4", "loop4"}}
==============================================================================
