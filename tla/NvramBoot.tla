----------------------------- MODULE NvramBoot ------------------------------
(***************************************************************************)
(* The settings of the router from one boot to the next (rc.c): nvram is   *)
(* read from flash at power on; init_router converts what an older         *)
(* firmware left, restores defaults, corrects invalid values and writes    *)
(* nvram back only if all defaults were restored.  Then the user edits and *)
(* saves, resets to defaults, and power fails at any moment.               *)
(*                                                                         *)
(* nvram is a record with one name for each way in which names are         *)
(* treated: wan_pppoe_man stands for wan_ppp_peer and modem_pin too,       *)
(* rt_HT_BW for all values that are clamped, rt_ssid for the names of both *)
(* radios, buildno for the three variables of the original firmware.       *)
(* Values are integers, texts included.  nvram_commit and httpd are not in *)
(* src/; a commit replaces what is in flash as a whole.                    *)
(***************************************************************************)
EXTENDS Integers

CONSTANTS
  Flashes,  (* what may be in flash when this firmware boots first         *)
  Edits     (* what the user may enter: pairs of a name and a valid value  *)

Unset == -2   (* nvram_get gives NULL                                      *)
Empty == -1   (* a value of length 0                                       *)

(* Values of rt_ssid; others are names the user has chosen.                 *)
DefSsid == 0  (* DEF_WLAN_2G_SSID                                          *)
OwnSsid == 1  (* the same with a part of the MAC address                   *)

OldNames == {"front_leds", "pppoe_dhcp_route", "mr_ttl_fix", "buildno"}
Settings == {"front_led_all", "front_led_pwr", "wan_pppoe_man", "wan_ttl_fix",
             "sw_mode", "wan_nat_x", "rt_HT_BW", "rt_ssid"}
Names == OldNames \cup Settings \cup {"restore_defaults"}
Nvram == [Names -> {i \in Int : i >= Unset}]

(* Those values of a setting that no boot changes: wan_nat_x is derived.    *)
Valid(n, v) ==
  /\ n # "wan_nat_x" /\ v >= Empty
  /\ n = "sw_mode" => v \in {1, 3, 4}
  /\ n = "rt_HT_BW" => v <= 1
  /\ n = "rt_ssid" => v >= OwnSsid

ASSUME FlashesAssumption == Flashes \subseteq Nvram
ASSUME EditsAssumption == Edits \subseteq {e \in Settings \X Int : Valid(e[1], e[2])}

VARIABLES
  flash, nvram,  (* what is stored, and the copy that programs work with   *)
  phase,         (* of the boot: the next thing to do, "off" or "running"  *)
  need_commit,   (* nvram_need_commit                                      *)
  chosen         (* history: the settings last saved, or what they should  *)
                 (* become when this firmware boots first or after a reset *)

vars == <<flash, nvram, phase, need_commit, chosen>>

Phases == {"off", "old", "defaults", "misc", "commit", "running"}

-----------------------------------------------------------------------------
(* router_defaults, and what has no default.                                *)
Defaults ==
  [n \in Names |->
     IF n \in OldNames THEN Unset
     ELSE IF n \in {"front_led_all", "front_led_pwr", "wan_pppoe_man", "sw_mode",
                    "wan_nat_x", "rt_HT_BW"} THEN 1
     ELSE IF n = "rt_ssid" THEN DefSsid
     ELSE 0]

NoText(v) == v \in {Unset, Empty}

(* Mutant: front_leds is not removed.                                       *)
ConvertedOldKeepsLeds(nv) ==
  [nv EXCEPT
     !["front_led_all"] = IF nv["front_leds"] > 2 THEN 0 ELSE @,
     !["front_led_pwr"] = IF nv["front_leds"] \in {2, 4} THEN 0 ELSE @,
     !["wan_pppoe_man"] = IF ~NoText(nv["pppoe_dhcp_route"]) /\ NoText(@)
                          THEN nv["pppoe_dhcp_route"] ELSE @,
     !["wan_ttl_fix"] = IF nv["mr_ttl_fix"] > 0 /\ NoText(@) THEN 2 ELSE @,
     !["pppoe_dhcp_route"] = Unset, !["mr_ttl_fix"] = Unset]

(* nvram_convert_old_params.                                                *)
ConvertedOld(nv) ==
  [nv EXCEPT
     !["front_led_all"] = IF nv["front_leds"] > 2 THEN 0 ELSE @,
     !["front_led_pwr"] = IF nv["front_leds"] \in {2, 4} THEN 0 ELSE @,
     !["wan_pppoe_man"] = IF ~NoText(nv["pppoe_dhcp_route"]) /\ NoText(@)
                          THEN nv["pppoe_dhcp_route"] ELSE @,
     !["wan_ttl_fix"] = IF nv["mr_ttl_fix"] > 0 /\ NoText(@) THEN 2 ELSE @,
     !["front_leds"] = Unset, !["pppoe_dhcp_route"] = Unset, !["mr_ttl_fix"] = Unset]

MustRestore(nv) == nv["restore_defaults"] # 0 \/ nv["buildno"] # Unset

(* Mutant: a setting that is missing is not filled in.                      *)
WithDefaultsAllOrNone(nv) == IF MustRestore(nv) THEN Defaults ELSE nv

(* nvram_restore_defaults: all of them, or those that are missing.  The     *)
(* part of the MAC address is left to Corrected, which follows at once: it  *)
(* is not known yet when nvram has just been cleared.                       *)
WithDefaults(nv) ==
  IF MustRestore(nv) THEN Defaults
  ELSE [n \in Names |-> IF nv[n] = Unset THEN Defaults[n] ELSE nv[n]]

(* nvram_convert_misc_values.                                               *)
Corrected(nv) ==
  [nv EXCEPT
     !["sw_mode"] = IF @ \in {1, 3, 4} THEN @ ELSE 1,
     !["wan_nat_x"] = IF nv["sw_mode"] = 3 THEN @ ELSE IF nv["sw_mode"] = 4 THEN 0 ELSE 1,
     !["rt_HT_BW"] = IF @ > 1 THEN 1 ELSE @,
     !["rt_ssid"] = IF @ \in {Empty, DefSsid} THEN OwnSsid ELSE @]

-----------------------------------------------------------------------------
(* What each setting should become, from what is in flash.                  *)
Kept(nv, n) == IF nv[n] = Unset THEN Defaults[n] ELSE nv[n]

Factory == [Defaults EXCEPT !["rt_ssid"] = OwnSsid]

Migrated(nv) ==
  LET mode == IF Kept(nv, "sw_mode") \in {1, 3, 4} THEN Kept(nv, "sw_mode") ELSE 1
  IN IF MustRestore(nv) THEN [n \in Settings |-> Factory[n]]
     ELSE [n \in Settings |->
             IF n = "front_led_all" /\ nv["front_leds"] > 2 THEN 0
             ELSE IF n = "front_led_pwr" /\ nv["front_leds"] \in {2, 4} THEN 0
             ELSE IF n = "wan_pppoe_man" /\ NoText(nv[n]) /\ nv["pppoe_dhcp_route"] >= 0
                  THEN nv["pppoe_dhcp_route"]
             ELSE IF n = "wan_ttl_fix" /\ NoText(nv[n]) /\ nv["mr_ttl_fix"] > 0 THEN 2
             ELSE IF n = "sw_mode" THEN mode
             ELSE IF n = "wan_nat_x" /\ mode # 3 THEN (IF mode = 4 THEN 0 ELSE 1)
             ELSE IF n = "rt_HT_BW" /\ Kept(nv, n) > 1 THEN 1
             ELSE IF n = "rt_ssid" /\ Kept(nv, n) < OwnSsid THEN OwnSsid
             ELSE Kept(nv, n)]

Init ==
  /\ flash \in Flashes /\ nvram = flash
  /\ phase = "off" /\ need_commit = FALSE
  /\ chosen = Migrated(flash)

-----------------------------------------------------------------------------
PowerOn ==
  /\ phase = "off" /\ phase' = "old"
  /\ nvram' = flash /\ need_commit' = FALSE
  /\ UNCHANGED <<flash, chosen>>

ConvertOldParams ==
  /\ phase = "old" /\ phase' = "defaults"
  /\ nvram' = ConvertedOld(nvram)
  /\ UNCHANGED <<flash, need_commit, chosen>>

RestoreDefaults ==
  /\ phase = "defaults" /\ phase' = "misc"
  /\ nvram' = WithDefaults(nvram)
  /\ need_commit' = MustRestore(nvram)
  /\ UNCHANGED <<flash, chosen>>

ConvertMiscValues ==
  /\ phase = "misc" /\ phase' = "commit"
  /\ nvram' = Corrected(nvram)
  /\ UNCHANGED <<flash, need_commit, chosen>>

CommitRestored ==
  /\ phase = "commit" /\ phase' = "running"
  /\ flash' = IF need_commit THEN nvram ELSE flash
  /\ UNCHANGED <<nvram, need_commit, chosen>>

(* httpd: the user changes a setting; a change of the mode changes what is  *)
(* derived from it at the next boot only.                                   *)
Edit ==
  /\ phase = "running"
  /\ \E e \in Edits : nvram' = [nvram EXCEPT ![e[1]] = e[2]]
  /\ UNCHANGED <<flash, phase, need_commit, chosen>>

(* httpd: the settings are saved, at once or by the user's own command; a   *)
(* reset that is pending stays so.                                          *)
Save ==
  /\ phase = "running"
  /\ flash' = nvram
  /\ chosen' = IF MustRestore(nvram) THEN chosen
               ELSE [n \in Settings |->
                       IF n = "wan_nat_x" /\ nvram["sw_mode"] # 3
                       THEN (IF nvram["sw_mode"] = 4 THEN 0 ELSE 1)
                       ELSE nvram[n]]
  /\ UNCHANGED <<nvram, phase, need_commit>>

(* Mutant: the reset is not committed.                                      *)
EraseUncommitted ==
  /\ phase = "running"
  /\ nvram' = [nvram EXCEPT !["restore_defaults"] = 1]
  /\ chosen' = [n \in Settings |-> Factory[n]]
  /\ UNCHANGED <<flash, phase, need_commit>>

(* erase_nvram.                                                             *)
Erase ==
  /\ phase = "running"
  /\ nvram' = [nvram EXCEPT !["restore_defaults"] = 1]
  /\ flash' = nvram'
  /\ chosen' = [n \in Settings |-> Factory[n]]
  /\ UNCHANGED <<phase, need_commit>>

(* A reboot, or power fails, in the middle of the boot too.                 *)
PowerOff ==
  /\ phase # "off" /\ phase' = "off"
  /\ UNCHANGED <<flash, nvram, need_commit, chosen>>

Next ==
  \/ PowerOn \/ ConvertOldParams \/ RestoreDefaults \/ ConvertMiscValues
  \/ CommitRestored \/ Edit \/ Save \/ Erase \/ PowerOff

Spec == Init /\ [][Next]_vars

-----------------------------------------------------------------------------
TypeOK ==
  /\ flash \in Nvram /\ nvram \in Nvram
  /\ phase \in Phases /\ need_commit \in BOOLEAN
  /\ chosen \in [Settings -> {i \in Int : i >= Empty}]
  /\ phase \in {"misc", "commit", "running"} =>
       \A n \in Settings : nvram[n] # Unset (* nobody tests for NULL then    *)

(* Every boot, the first of this firmware and those after power failed at   *)
(* any moment of an earlier one included, ends with the settings last       *)
(* saved; with what the old firmware's amount to; or with the factory's     *)
(* after a reset, and then once only.                                       *)
SettingsSurvive == phase = "commit" => \A n \in Settings : nvram[n] = chosen[n]

-----------------------------------------------------------------------------
(* Why; the proof is in NvramBootProofs.  One boot makes Booted(flash).     *)
Booted(nv) == Corrected(WithDefaults(ConvertedOld(nv)))

(* wan_nat_x as the next boot derives it from the mode.                     *)
NextNat(nv) ==
  IF nv["sw_mode"] = 3 THEN nv["wan_nat_x"] ELSE IF nv["sw_mode"] = 4 THEN 0 ELSE 1

(* What every boot and every valid edit leave: a boot changes no more.      *)
Steady(nv) ==
  /\ \A n \in OldNames : nv[n] = Unset
  /\ \A n \in Settings \ {"wan_nat_x"} : Valid(n, nv[n])
  /\ nv["wan_nat_x"] >= Empty

BootInv ==
  /\ \A n \in Settings : Booted(flash)[n] = chosen[n]
  /\ phase = "old" => nvram = flash
  /\ phase = "defaults" => nvram = ConvertedOld(flash)
  /\ phase = "misc" => nvram = WithDefaults(ConvertedOld(flash))
  /\ phase = "commit" => nvram = Booted(flash)
  /\ phase = "running" =>
       /\ Steady(nvram)
       /\ MustRestore(nvram) => \A n \in Settings : chosen[n] = Factory[n]

-----------------------------------------------------------------------------
(* The settings that the user makes.                                        *)
UserSettings == Settings \ {"wan_nat_x"}
Made(nv) == [n \in UserSettings |-> nv[n]]

Running == phase = "running"

(* The store of settings: saved is what the settings in flash amount to.    *)
Store == INSTANCE SettingsStore WITH
           First <- {Made(Migrated(nv)) : nv \in Flashes},
           Factory <- Made(Factory),
           saved <- Made(Migrated(flash)),
           working <- IF Running THEN Made(nvram) ELSE Made(Migrated(flash)),
           on <- Running,
           reset <- Running /\ MustRestore(nvram)

(* The five steps of the boot, the flash written back or not and power that *)
(* fails between them show the user nothing but a boot with the settings    *)
(* saved last; nothing but Save and a reset changes them.                   *)
ImplementsStore == Store!Spec
=============================================================================
