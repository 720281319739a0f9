---------------------------- MODULE MCDhcpLease -----------------------------
(* Two addresses, of which the LAN may have either in its subnet: one of    *)
(* them whatever the mask, the other with the wider mask only.              *)
EXTENDS DhcpLease

MCOverlaps == {<<"a1", m, "l1">> : m \in Masks \cup {None}} \cup {<<"a2", ClassB, "l2">>}
=============================================================================
