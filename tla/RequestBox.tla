----------------------------- MODULE RequestBox -----------------------------
(***************************************************************************)
(* What the notification channel of rc promises to those that use it: a    *)
(* box of requests, each there at most once, which one server takes out in *)
(* any order, one at a time.  A request made again while it is served is   *)
(* served again; one made again before that is not.  WanControl is written *)
(* against this box, RcNotify implements it with marker files and a signal.*)
(***************************************************************************)
CONSTANT Events   (* the requests that can be made                         *)

VARIABLES
  pending, (* requests made and not yet taken                              *)
  serving  (* the request being served, as a set of at most one            *)

vars == <<pending, serving>>

Init == pending = {} /\ serving = {}

Make(e) == pending' = pending \cup {e} /\ UNCHANGED serving

Take(e) ==
  /\ serving = {} /\ e \in pending
  /\ pending' = pending \ {e} /\ serving' = {e}

Done == serving # {} /\ serving' = {} /\ UNCHANGED pending

Next == Done \/ \E e \in Events : Make(e) \/ Take(e)

(* Every service ends, and the server comes to every request: however often *)
(* others are made, none waits for ever.                                    *)
Fairness == WF_vars(Done) /\ \A e \in Events : SF_vars(Take(e))

Spec == Init /\ [][Next]_vars
FairSpec == Spec /\ Fairness
=============================================================================
