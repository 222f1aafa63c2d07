---- MODULE MCPeerDial ----
(* Two concurrent requests to one peer: an owner and a subscriber, or the
   owner that still broadcasts and the next one. *)
EXTENDS PeerDial

CONSTANTS r1, r2

TwoRequests == {r1, r2}
====
