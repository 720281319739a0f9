------------------------------- MODULE WanLink -------------------------------
(***************************************************************************)
(* What start_wan and stop_wan promise to the rest of the router: the WAN  *)
(* runs over one link at a time, chosen when it is started.  It has to be  *)
(* stopped before it is started over another link, and Internet is up only *)
(* while it is started.  WanControl implements it with protocols as links. *)
(***************************************************************************)
CONSTANT Links  (* what can carry the WAN                                  *)

VARIABLES
  carrier, (* the link the WAN was started over, as a set of at most one   *)
  up       (* the WAN is up                                                *)

vars == <<carrier, up>>

Init == carrier = {} /\ up = FALSE

Start(l) == carrier = {} /\ carrier' = {l} /\ up' = FALSE

Stop == carrier # {} /\ carrier' = {} /\ up' = FALSE

Up == carrier # {} /\ up' = TRUE /\ UNCHANGED carrier

Down == up' = FALSE /\ UNCHANGED carrier

Next == Stop \/ Up \/ Down \/ \E l \in Links : Start(l)

Spec == Init /\ [][Next]_vars
=============================================================================
