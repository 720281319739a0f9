------------------------------ MODULE WanVlan -------------------------------
(***************************************************************************)
(* The VLAN interfaces of the WAN port (net_wan.c): each start_wan builds  *)
(* one for Internet (config_vinet_wan) and one for IPTV (launch_viptv_wan) *)
(* and removes those of the previous start, which it knows by two nvram    *)
(* variables only, wan0_viflast and viptv_ifname.  The two functions read  *)
(* the VIDs separately, one nvram variable after the other, while httpd    *)
(* may be writing them; stop_wan leaves the interfaces where they are.     *)
(*                                                                         *)
(* An interface is its VID.  VIDs are read one nvram variable at a time;   *)
(* the rest of each function touches nothing that httpd writes, and is one *)
(* step.  The kernel's VLAN interfaces and the switch are not in src/.     *)
(***************************************************************************)
EXTENDS Naturals

CONSTANTS
  Vids,  (* the VIDs that can be configured and that are valid             *)
  Pvid   (* the VID of untagged frames, phy_vlan_pvid_wan_get()            *)

Off == 0 (* an invalid VID in nvram; no interface in viflast, viptv_ifname *)

ASSUME VidsAssumption == Vids \subseteq Nat /\ Pvid \in Nat
ASSUME OffAssumption == Off \notin Vids \cup {Pvid}

(* One Ethernet interface (USE_SINGLE_MAC), two on one switch, or a second  *)
(* GMAC wired to a PHY or to the switch.                                    *)
Builds == {"single", "two", "gmac2"}

VARIABLES
  build,           (* what the program was compiled for                    *)
  filter, vid_cpu, vid_iptv, (* vlan_filter, vlan_vid_cpu, vlan_vid_iptv   *)
  viflast, viptv,  (* wan0_viflast and viptv_ifname                        *)
  vlans,           (* the VLAN interfaces that exist on the WAN port       *)
  tx_map,          (* VIDs in the slots 6 and 7 of raeth's HW_VLAN_TX map  *)
  pc,              (* the step start_wan is at, "idle" when it is not run  *)
  is_filter, vid,  (* locals: is_vlan_filter and vlan_vid[0]               *)
  edited           (* history: nvram changed since the last start_wan      *)

nvram == <<filter, vid_cpu, vid_iptv>>
names == <<viflast, viptv>>
locals == <<is_filter, vid>>
vars == <<build, nvram, names, vlans, tx_map, pc, locals, edited>>

Ifs == Vids \cup {Pvid}

Steps == {"idle", "inet_filter", "inet_cpu", "inet_iptv",
          "iptv_filter", "iptv_cpu", "iptv_iptv"}

Init ==
  /\ build \in Builds
  /\ filter \in BOOLEAN /\ vid_cpu \in Vids \cup {Off} /\ vid_iptv \in Vids \cup {Off}
  /\ viflast = Off /\ viptv = Off /\ vlans = {} /\ tx_map = <<Off, Off>>
  /\ pc = "idle" /\ is_filter = FALSE /\ vid = Off /\ edited = TRUE

-----------------------------------------------------------------------------
(* httpd stores the form of the WAN page, one variable at a time; at boot,   *)
(* before the first start, edited holds.                                    *)
Edit ==
  /\ \/ filter' = ~filter /\ UNCHANGED <<vid_cpu, vid_iptv>>
     \/ \E v \in (Vids \cup {Off}) \ {vid_cpu} :
          vid_cpu' = v /\ UNCHANGED <<filter, vid_iptv>>
     \/ \E v \in (Vids \cup {Off}) \ {vid_iptv} :
          vid_iptv' = v /\ UNCHANGED <<filter, vid_cpu>>
  /\ edited' = TRUE
  /\ UNCHANGED <<build, names, vlans, tx_map, pc, locals>>

(* The VID that is used for a configured one: vlan_vid[i] is 0 when there   *)
(* is no filter, and the port's own VID replaces one that is not valid.     *)
Effective(is, v) == IF is /\ v # Off THEN v ELSE Pvid

StartWan ==
  /\ pc = "idle" /\ pc' = "inet_filter"
  /\ edited' = FALSE
  /\ UNCHANGED <<build, nvram, names, vlans, tx_map, locals>>

ReadFilter ==
  /\ \/ pc = "inet_filter" /\ pc' = "inet_cpu"
     \/ pc = "iptv_filter" /\ pc' = "iptv_cpu"
  /\ is_filter' = filter
  /\ UNCHANGED <<build, nvram, names, vlans, tx_map, vid, edited>>

ReadCpuVid ==
  /\ \/ pc = "inet_cpu" /\ pc' = "inet_iptv"
     \/ pc = "iptv_cpu" /\ pc' = "iptv_iptv"
  /\ vid' = Effective(is_filter, vid_cpu)
  /\ UNCHANGED <<build, nvram, names, vlans, tx_map, is_filter, edited>>

(* Internet uses the Ethernet interface itself, without a VLAN.             *)
Untagged(is, v0, v1) ==
  \/ build = "two" /\ v0 = v1
  \/ build = "gmac2" /\ ~is

(* Mutant: the previous interface is not removed.                            *)
ConfigVinetForgets ==
  /\ pc = "inet_iptv" /\ pc' = "iptv_filter"
  /\ LET v1 == Effective(is_filter, vid_iptv)
         inet == IF Untagged(is_filter, vid, v1) THEN Off ELSE vid
     IN /\ viflast' = inet
        /\ vlans' = (vlans \cup {inet}) \ {Off}
        /\ tx_map' = <<vid, v1>>
  /\ UNCHANGED <<build, nvram, viptv, locals, edited>>

(* Mutant: the interface is created although Internet has no VLAN.           *)
ConfigVinetAlwaysCreates ==
  /\ pc = "inet_iptv" /\ pc' = "iptv_filter"
  /\ LET v1 == Effective(is_filter, vid_iptv)
         inet == IF Untagged(is_filter, vid, v1) THEN Off ELSE vid
     IN /\ viflast' = inet
        /\ vlans' = (vlans \ {viflast}) \cup {inet}
        /\ tx_map' = <<vid, v1>>
  /\ UNCHANGED <<build, nvram, viptv, locals, edited>>

(* Mutant: the slots of the map are filled before an invalid VID is replaced *)
(* in the second slot.                                                       *)
ConfigVinetMapsEarly ==
  /\ pc = "inet_iptv" /\ pc' = "iptv_filter"
  /\ LET v1 == Effective(is_filter, vid_iptv)
         inet == IF Untagged(is_filter, vid, v1) THEN Off ELSE vid
     IN /\ viflast' = inet
        /\ vlans' = ((vlans \ {viflast}) \cup {inet}) \ {Off}
        /\ tx_map' = <<vid, IF is_filter THEN vid_iptv ELSE Off>>
  /\ UNCHANGED <<build, nvram, viptv, locals, edited>>

(* The rest of config_vinet_wan, after its last read of a VID: the transmit *)
(* map is loaded, the previous interface is removed if it is another one,   *)
(* the new one is created (creating one that exists changes nothing).       *)
ConfigVinet ==
  /\ pc = "inet_iptv" /\ pc' = "iptv_filter"
  /\ LET v1 == Effective(is_filter, vid_iptv)
         inet == IF Untagged(is_filter, vid, v1) THEN Off ELSE vid
     IN /\ viflast' = inet
        /\ vlans' = ((vlans \ {viflast}) \cup {inet}) \ {Off}
        /\ tx_map' = <<vid, v1>>
  /\ UNCHANGED <<build, nvram, viptv, locals, edited>>

(* Mutant: the comparison of viptv_iflast with vinet_iflast is dropped.      *)
LaunchViptvDropsInet ==
  /\ pc = "iptv_iptv" /\ pc' = "idle"
  /\ LET v1 == Effective(is_filter, vid_iptv)
         iptv == IF v1 = vid THEN Off ELSE v1
     IN /\ viptv' = iptv
        /\ vlans' = ((vlans \ {viptv}) \cup {iptv}) \ {Off}
  /\ UNCHANGED <<build, nvram, viflast, tx_map, locals, edited>>

(* launch_viptv_wan after its last read: IPTV gets an interface of its own  *)
(* unless the VIDs agree; the previous one goes unless it is now            *)
(* Internet's.                                                              *)
LaunchViptv ==
  /\ pc = "iptv_iptv" /\ pc' = "idle"
  /\ LET v1 == Effective(is_filter, vid_iptv)
         iptv == IF v1 = vid THEN Off ELSE v1
         old == IF viptv = viflast THEN {} ELSE {viptv}
     IN /\ viptv' = iptv
        /\ vlans' = ((vlans \ old) \cup {iptv}) \ {Off}
  /\ UNCHANGED <<build, nvram, viflast, tx_map, locals, edited>>

Next == Edit \/ StartWan \/ ReadFilter \/ ReadCpuVid \/ ConfigVinet \/ LaunchViptv

Spec == Init /\ [][Next]_vars

-----------------------------------------------------------------------------
TypeOK ==
  /\ build \in Builds
  /\ filter \in BOOLEAN /\ is_filter \in BOOLEAN /\ edited \in BOOLEAN
  /\ vid_cpu \in Vids \cup {Off} /\ vid_iptv \in Vids \cup {Off}
  /\ viflast \in Ifs \cup {Off} /\ viptv \in Ifs \cup {Off}
  /\ vlans \subseteq Ifs
  /\ tx_map \in (Ifs \cup {Off}) \X (Ifs \cup {Off})
  /\ pc \in Steps
  /\ vid \in Ifs \cup {Off}

(* No VLAN interface is left behind, after any number of starts with any    *)
(* VIDs and with edits between the reads: each one that exists is still     *)
(* known by viflast or viptv_ifname, the only names a later start removes.  *)
NoVlanLeak == vlans \subseteq {viflast, viptv}

(* Internet's interface, once made, exists until the next start of the WAN  *)
(* replaces it: what IPTV removes is never Internet's, even when the two    *)
(* have swapped their VIDs.  When start_wan is over, IPTV's exists too.     *)
NamedIfacesExist ==
  /\ viflast # Off => viflast \in vlans
  /\ pc = "idle" /\ viptv # Off => viptv \in vlans

(* When nobody edited the VIDs while start_wan ran, the two functions agree *)
(* although each reads the VIDs for itself: Internet and IPTV are on        *)
(* different interfaces, and the transmit map carries their VIDs.           *)
InetAndIptvAgree ==
  (pc = "idle" /\ ~edited) =>
    /\ (viptv # Off => viptv # viflast /\ viptv = tx_map[2])
    /\ (viflast # Off => viflast = tx_map[1])

(* Why: while nobody edits, the locals, viflast and the map hold what the   *)
(* VIDs in nvram say, from the step that reads or writes them on.           *)
AgreeInv ==
  LET v0 == Effective(filter, vid_cpu)
      v1 == Effective(filter, vid_iptv)
  IN ~edited =>
       /\ (pc \notin {"inet_filter", "iptv_filter"} => is_filter = filter)
       /\ (pc \in {"inet_iptv", "iptv_iptv"} => vid = v0)
       /\ (pc \notin {"inet_filter", "inet_cpu", "inet_iptv"} =>
             /\ tx_map = <<v0, v1>>
             /\ viflast = (IF Untagged(filter, v0, v1) THEN Off ELSE v0))
       /\ (pc = "idle" => viptv = (IF v1 = v0 THEN Off ELSE v1))
=============================================================================
