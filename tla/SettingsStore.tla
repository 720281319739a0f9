---------------------------- MODULE SettingsStore ----------------------------
(***************************************************************************)
(* What the handling of nvram promises to those that read and write        *)
(* settings: every boot shows the settings last saved, or the factory's    *)
(* after a reset; edits are lost with the power until they are saved; and  *)
(* from a reset to the next boot nothing more is saved.  How the settings  *)
(* of an older firmware are converted shows only in what there is at first.*)
(***************************************************************************)
CONSTANTS
  First,   (* what the first boot may show: functions from names to values *)
  Factory, (* what a boot shows after a reset                              *)
  Edits    (* what the user may enter: pairs of a name and a value         *)

VARIABLES
  saved,   (* what the next boot shows                                     *)
  working, (* what programs see; what is saved while the power is off      *)
  on,      (* the router has booted                                        *)
  reset    (* it has been reset since                                      *)

vars == <<saved, working, on, reset>>

Init == saved \in First /\ working = saved /\ on = FALSE /\ reset = FALSE

Boot == ~on /\ on' = TRUE /\ UNCHANGED <<saved, working, reset>>

Edit(e) ==
  /\ on /\ working' = [working EXCEPT ![e[1]] = e[2]]
  /\ UNCHANGED <<saved, on, reset>>

Save == on /\ ~reset /\ saved' = working /\ UNCHANGED <<working, on, reset>>

Reset ==
  /\ on /\ saved' = Factory /\ reset' = TRUE
  /\ UNCHANGED <<working, on>>

PowerOff ==
  /\ on /\ on' = FALSE /\ working' = saved /\ reset' = FALSE
  /\ UNCHANGED saved

Next == Boot \/ Save \/ Reset \/ PowerOff \/ \E e \in Edits : Edit(e)

Spec == Init /\ [][Next]_vars
=============================================================================
