-------------------------- MODULE NvramBootProofs ---------------------------
(* Proofs about the settings from one boot to the next, for everything that *)
(* may be in flash and every valid edit.                                    *)
EXTENDS NvramBoot, TLAPS

Values == {i \in Int : i >= Unset}

USE DEF Unset, Empty, DefSsid, OwnSsid

(* Each part of the boot gives an nvram.                                    *)
LEMMA DefaultsType == Defaults \in Nvram /\ Factory \in Nvram
<1>1. \A n \in Names : Defaults[n] \in Values
  BY DEF Defaults, Values
<1>2. Defaults \in Nvram
  BY <1>1 DEF Defaults, Nvram, Values
<1>3. Factory \in Nvram
  <2>1. 1 \in Values
    BY DEF Values
  <2>2. QED
    BY <1>2, <2>1 DEF Factory, Nvram, Values
<1>4. QED
  BY <1>2, <1>3

LEMMA ConvertedType == ASSUME NEW nv \in Nvram PROVE ConvertedOld(nv) \in Nvram
BY DEF ConvertedOld, Nvram, Names, OldNames, Settings

LEMMA WithDefaultsType ==
  ASSUME NEW nv \in Nvram
  PROVE  /\ WithDefaults(nv) \in Nvram
         /\ \A n \in Settings : WithDefaults(nv)[n] # Unset
<1>1. \A n \in Settings : n \in Names /\ Defaults[n] # Unset
  BY DEF Defaults, Names, Settings, OldNames
<1>2. CASE MustRestore(nv)
  BY <1>1, <1>2, DefaultsType DEF WithDefaults
<1>3. CASE ~MustRestore(nv)
  BY <1>1, <1>3, DefaultsType DEF WithDefaults, Nvram
<1>4. QED
  BY <1>2, <1>3

LEMMA CorrectedType ==
  ASSUME NEW nv \in Nvram, \A n \in Settings : nv[n] # Unset
  PROVE  /\ Corrected(nv) \in Nvram
         /\ \A n \in Settings : Corrected(nv)[n] # Unset
BY DEF Corrected, Nvram, Names, Settings, OldNames

(* What each part of the boot makes of each setting.                        *)
LEMMA ConvertedAt ==
  ASSUME NEW nv \in Nvram
  PROVE  LET c == ConvertedOld(nv) IN
         /\ c["front_led_all"] = IF nv["front_leds"] > 2 THEN 0 ELSE nv["front_led_all"]
         /\ c["front_led_pwr"] = IF nv["front_leds"] \in {2, 4} THEN 0 ELSE nv["front_led_pwr"]
         /\ c["wan_pppoe_man"] =
              IF ~NoText(nv["pppoe_dhcp_route"]) /\ NoText(nv["wan_pppoe_man"])
              THEN nv["pppoe_dhcp_route"] ELSE nv["wan_pppoe_man"]
         /\ c["wan_ttl_fix"] =
              IF nv["mr_ttl_fix"] > 0 /\ NoText(nv["wan_ttl_fix"]) THEN 2 ELSE nv["wan_ttl_fix"]
         /\ \A n \in {"sw_mode", "wan_nat_x", "rt_HT_BW", "rt_ssid", "restore_defaults",
                       "buildno"} : c[n] = nv[n]
         /\ \A n \in {"front_leds", "pppoe_dhcp_route", "mr_ttl_fix"} : c[n] = Unset
BY DEF ConvertedOld, Nvram, Names, Settings, OldNames

LEMMA WithDefaultsAt ==
  ASSUME NEW nv \in Nvram, NEW n \in Names
  PROVE  WithDefaults(nv)[n] = IF MustRestore(nv) THEN Defaults[n] ELSE Kept(nv, n)
BY DEF WithDefaults, Kept

LEMMA CorrectedAt ==
  ASSUME NEW nv \in Nvram
  PROVE  LET c == Corrected(nv) IN
         /\ \A n \in Names \ {"sw_mode", "wan_nat_x", "rt_HT_BW", "rt_ssid"} : c[n] = nv[n]
         /\ c["sw_mode"] = IF nv["sw_mode"] \in {1, 3, 4} THEN nv["sw_mode"] ELSE 1
         /\ c["wan_nat_x"] = NextNat(nv)
         /\ c["rt_HT_BW"] = IF nv["rt_HT_BW"] > 1 THEN 1 ELSE nv["rt_HT_BW"]
         /\ c["rt_ssid"] = IF nv["rt_ssid"] \in {Empty, DefSsid} THEN OwnSsid ELSE nv["rt_ssid"]
BY DEF Corrected, NextNat, Nvram, Names, Settings, OldNames

LEMMA DefaultsAt ==
  /\ \A n \in OldNames : Defaults[n] = Unset
  /\ \A n \in {"front_led_all", "front_led_pwr", "wan_pppoe_man", "sw_mode",
                "wan_nat_x", "rt_HT_BW"} : Defaults[n] = 1
  /\ Defaults["rt_ssid"] = DefSsid /\ Defaults["wan_ttl_fix"] = 0
  /\ Defaults["restore_defaults"] = 0
  /\ Factory["rt_ssid"] = OwnSsid
  /\ \A n \in Names \ {"rt_ssid"} : Factory[n] = Defaults[n]
BY DEF Defaults, Factory, Names, Settings, OldNames

(* A boot makes of each setting what it should become.                      *)
LEMMA BootMigrates ==
  ASSUME NEW nv \in Nvram, NEW n \in Settings
  PROVE  Booted(nv)[n] = Migrated(nv)[n]
<1> DEFINE c == ConvertedOld(nv)
           w == WithDefaults(c)
<1>1. c \in Nvram /\ w \in Nvram
  BY ConvertedType, WithDefaultsType
<1>2. MustRestore(c) = MustRestore(nv)
  BY ConvertedAt DEF MustRestore
<1>3. n \in Names /\ \A k \in Names : nv[k] \in Values
  BY DEF Names, Nvram, Values
<1>4. CASE MustRestore(nv)
  <2>1. \A k \in Names : w[k] = Defaults[k]
    BY <1>1, <1>2, <1>4, WithDefaultsAt
  <2>2. Corrected(w)[n] = Factory[n]
    BY <1>1, <2>1, CorrectedAt, DefaultsAt DEF Names, Settings, OldNames, NextNat
  <2>3. QED
    BY <1>4, <2>2 DEF Booted, Migrated
<1>5. CASE ~MustRestore(nv)
  <2>1. \A k \in Names : w[k] = Kept(c, k)
    BY <1>1, <1>2, <1>5, WithDefaultsAt
  <2>2. \A k \in {"sw_mode", "wan_nat_x", "rt_HT_BW", "rt_ssid"} : w[k] = Kept(nv, k)
    BY <2>1, ConvertedAt DEF Kept, Names, Settings
  <2>3. CASE n \in {"sw_mode", "wan_nat_x", "rt_HT_BW", "rt_ssid"}
    BY <1>1, <1>3, <1>5, <2>2, <2>3, CorrectedAt, DefaultsAt
       DEF Booted, Migrated, NextNat, Kept, Values, Names, Settings
  <2>4. CASE n \in {"front_led_all", "front_led_pwr", "wan_pppoe_man", "wan_ttl_fix"}
    <3>1. Corrected(w)[n] = Kept(c, n)
      BY <1>1, <1>3, <2>1, <2>4, CorrectedAt
    <3>2. Kept(c, n) = Migrated(nv)[n]
      BY <1>3, <1>5, <2>4, ConvertedAt, DefaultsAt
         DEF Migrated, Kept, NoText, Values, Names, Settings, OldNames
    <3>3. QED
      BY <3>1, <3>2 DEF Booted
  <2>5. QED
    BY <2>3, <2>4 DEF Settings
<1>6. QED
  BY <1>4, <1>5

-----------------------------------------------------------------------------
(* What a boot leaves: nothing old, every setting valid, no reset pending.  *)
LEMMA BootSteady ==
  ASSUME NEW nv \in Nvram
  PROVE  /\ Booted(nv) \in Nvram
         /\ \A n \in Settings : Booted(nv)[n] # Unset
         /\ Steady(Booted(nv)) /\ ~MustRestore(Booted(nv))
         /\ Booted(nv)["wan_nat_x"] = NextNat(Booted(nv))
<1> DEFINE c == ConvertedOld(nv)
           w == WithDefaults(c)
           b == Booted(nv)
<1>1. c \in Nvram /\ w \in Nvram /\ \A n \in Settings : w[n] # Unset
  BY ConvertedType, WithDefaultsType
<1>2. b = Corrected(w)
  BY DEF Booted
<1>3. b \in Nvram /\ \A n \in Settings : b[n] # Unset
  BY <1>1, <1>2, CorrectedType
<1>4. \A n \in Names : w[n] \in Values /\ c[n] \in Values
  BY <1>1 DEF Nvram, Values
<1>5. w["restore_defaults"] = 0 /\ \A n \in OldNames : w[n] = Unset
  <2>1. CASE MustRestore(c)
    BY <1>1, <2>1, WithDefaultsAt, DefaultsAt DEF Names, OldNames
  <2>2. CASE ~MustRestore(c)
    <3>1. c["restore_defaults"] = 0 /\ c["buildno"] = Unset
      BY <2>2 DEF MustRestore
    <3>2. \A n \in OldNames : c[n] = Unset
      BY <3>1, ConvertedAt DEF OldNames
    <3>3. \A n \in Names : w[n] = Kept(c, n)
      BY <1>1, <2>2, WithDefaultsAt
    <3>4. QED
      BY <3>1, <3>2, <3>3, DefaultsAt DEF Kept, Names, OldNames
  <2>3. QED
    BY <2>1, <2>2
<1>6. b["restore_defaults"] = 0 /\ \A n \in OldNames : b[n] = Unset
  BY <1>1, <1>2, <1>5, CorrectedAt DEF Names, OldNames
<1>7. b["sw_mode"] \in {1, 3, 4} /\ b["wan_nat_x"] = NextNat(b)
  BY <1>1, <1>2, CorrectedAt DEF NextNat
<1>8. b["rt_HT_BW"] <= 1 /\ b["rt_ssid"] >= OwnSsid
  <2>1. w["rt_HT_BW"] \in Values /\ w["rt_ssid"] \in Values /\ w["rt_ssid"] # Unset
    BY <1>1, <1>4 DEF Names, Settings
  <2>2. QED
    BY <1>1, <1>2, <2>1, CorrectedAt DEF Values
<1>9. \A n \in Settings : b[n] >= Empty
  <2>1. \A n \in Settings : b[n] \in Values /\ b[n] # Unset
    BY <1>3 DEF Nvram, Values, Names
  <2>2. QED
    BY <2>1 DEF Values
<1>10. Steady(b)
  BY <1>6, <1>7, <1>8, <1>9 DEF Steady, Valid, Settings
<1>11. ~MustRestore(b)
  BY <1>6 DEF MustRestore, OldNames
<1>12. QED
  BY <1>3, <1>7, <1>10, <1>11

(* A boot changes nothing in what a boot and valid edits have left, except  *)
(* that it derives wan_nat_x.                                               *)
LEMMA SteadyKept ==
  ASSUME NEW nv \in Nvram, Steady(nv), ~MustRestore(nv), NEW n \in Settings
  PROVE  Booted(nv)[n] = IF n = "wan_nat_x" THEN NextNat(nv) ELSE nv[n]
<1>1. \A k \in Settings : nv[k] >= Empty /\ nv[k] # Unset /\ nv[k] \in Values
  <2>1. \A k \in Settings : nv[k] >= Empty /\ nv[k] \in Values
    BY DEF Steady, Valid, Nvram, Values, Names
  <2>2. QED
    BY <2>1 DEF Values
<1>2. \A k \in Settings : Kept(nv, k) = nv[k]
  BY <1>1 DEF Kept
<1>3. nv["front_leds"] = Unset /\ nv["pppoe_dhcp_route"] = Unset /\ nv["mr_ttl_fix"] = Unset
  BY DEF Steady, OldNames
<1>4. /\ nv["sw_mode"] \in {1, 3, 4}
      /\ nv["rt_HT_BW"] <= 1 /\ nv["rt_HT_BW"] \in Int
      /\ nv["rt_ssid"] >= OwnSsid /\ nv["rt_ssid"] \in Int
  BY <1>1 DEF Steady, Valid, Settings, Values
<1>5. Migrated(nv)[n] = IF n = "wan_nat_x" THEN NextNat(nv) ELSE nv[n]
  BY <1>2, <1>3, <1>4 DEF Migrated, NextNat, Settings
<1>6. QED
  BY <1>5, BootMigrates

(* A second boot, after power failed before or after nvram was written      *)
(* back, ends as the first.                                                 *)
THEOREM BootIdempotent ==
  ASSUME NEW nv \in Nvram, NEW n \in Settings
  PROVE  Booted(Booted(nv))[n] = Booted(nv)[n]
BY BootSteady, SteadyKept

-----------------------------------------------------------------------------
(* The types of the variables.                                              *)
Chosens == [Settings -> {i \in Int : i >= Empty}]

LEMMA MigratedType ==
  ASSUME NEW nv \in Nvram PROVE Migrated(nv) \in Chosens
<1>1. \A n \in Settings : Migrated(nv)[n] \in {i \in Int : i >= Empty}
  <2>1. ASSUME NEW n \in Settings PROVE Migrated(nv)[n] \in {i \in Int : i >= Empty}
    <3>1. Booted(nv)[n] \in Values /\ Booted(nv)[n] # Unset
      BY BootSteady DEF Nvram, Values, Names
    <3>2. QED
      BY <3>1, BootMigrates DEF Values
  <2>2. QED
    BY <2>1
<1>2. Migrated(nv) = [n \in Settings |-> Migrated(nv)[n]]
  BY DEF Migrated
<1>3. QED
  BY <1>1, <1>2 DEF Chosens

LEMMA FactoryType == [n \in Settings |-> Factory[n]] \in Chosens
BY DefaultsAt DEF Chosens, Settings, Names, OldNames

(* A running router's settings as the next boot will find them.             *)
LEMMA SavedType ==
  ASSUME NEW nv \in Nvram, \A n \in Settings : nv[n] # Unset
  PROVE  [n \in Settings |-> IF n = "wan_nat_x" /\ nv["sw_mode"] # 3
                             THEN (IF nv["sw_mode"] = 4 THEN 0 ELSE 1)
                             ELSE nv[n]] \in Chosens
<1>1. \A n \in Settings : nv[n] \in {i \in Int : i >= Empty}
  BY DEF Nvram, Names
<1>2. QED
  BY <1>1 DEF Chosens

(* Every variable keeps its type, and once the defaults are restored no     *)
(* setting is missing (rc.c, nvram_restore_defaults).                       *)
THEOREM TypeCorrect == Spec => []TypeOK
<1>1. Init => TypeOK
  BY FlashesAssumption, MigratedType DEF Init, TypeOK, Phases, Chosens
<1>2. TypeOK /\ [Next]_vars => TypeOK'
  <2> SUFFICES ASSUME TypeOK, [Next]_vars PROVE TypeOK'
    OBVIOUS
  <2>1. CASE PowerOn
    BY <2>1 DEF PowerOn, TypeOK, Phases
  <2>2. CASE ConvertOldParams
    BY <2>2, ConvertedType DEF ConvertOldParams, TypeOK, Phases
  <2>3. CASE RestoreDefaults
    <3>1. MustRestore(nvram) \in BOOLEAN
      BY DEF MustRestore
    <3>2. QED
      BY <2>3, <3>1, WithDefaultsType DEF RestoreDefaults, TypeOK, Phases
  <2>4. CASE ConvertMiscValues
    BY <2>4, CorrectedType DEF ConvertMiscValues, TypeOK, Phases
  <2>5. CASE CommitRestored
    BY <2>5 DEF CommitRestored, TypeOK, Phases
  <2>6. CASE Edit
    <3>1. PICK e \in Edits : nvram' = [nvram EXCEPT ![e[1]] = e[2]]
      BY <2>6 DEF Edit
    <3>2. e[1] \in Settings /\ e[2] \in Int /\ e[2] >= Empty
      BY EditsAssumption DEF Valid
    <3>3. nvram' \in Nvram /\ \A n \in Settings : nvram'[n] # Unset
      <4>1. nvram \in [Names -> Values] /\ \A n \in Settings : nvram[n] # Unset
        BY <2>6 DEF Edit, TypeOK, Nvram, Values
      <4>2. e[2] \in Values /\ e[2] # Unset
        BY <3>2 DEF Values
      <4>3. nvram' \in [Names -> Values] /\ \A n \in Settings : nvram'[n] # Unset
        BY <3>1, <4>1, <4>2 DEF Names
      <4>4. QED
        BY <4>3 DEF Nvram, Values
    <3>4. QED
      BY <2>6, <3>3 DEF Edit, TypeOK
  <2>7. CASE Save
    BY <2>7, SavedType DEF Save, TypeOK, Chosens
  <2>8. CASE Erase
    <3>1. /\ nvram' \in Nvram
          /\ \A n \in Settings : nvram'[n] = nvram[n]
      BY <2>8 DEF Erase, TypeOK, Nvram, Names, Settings, OldNames
    <3>2. QED
      BY <2>8, <3>1, FactoryType DEF Erase, TypeOK, Chosens
  <2>9. CASE PowerOff
    BY <2>9 DEF PowerOff, TypeOK, Phases
  <2>10. CASE UNCHANGED vars
    BY <2>10 DEF vars, TypeOK
  <2>11. QED
    BY <2>1, <2>2, <2>3, <2>4, <2>5, <2>6, <2>7, <2>8, <2>9, <2>10 DEF Next
<1>3. QED
  BY <1>1, <1>2, PTL DEF Spec

-----------------------------------------------------------------------------
(* A boot after a reset makes the factory's settings.                       *)
LEMMA ResetBoots ==
  ASSUME NEW nv \in Nvram, MustRestore(nv), NEW n \in Settings
  PROVE  Booted(nv)[n] = Factory[n]
BY BootMigrates DEF Migrated

(* What a running router saves boots as it should.                          *)
LEMMA SaveKeeps ==
  ASSUME TypeOK, BootInv, Save
  PROVE  \A n \in Settings : Booted(flash')[n] = chosen'[n]
<1>1. nvram \in Nvram /\ Steady(nvram) /\ flash' = nvram
  BY DEF TypeOK, BootInv, Save
<1>2. CASE MustRestore(nvram)
  BY <1>1, <1>2, ResetBoots DEF BootInv, Save
<1>3. CASE ~MustRestore(nvram)
  <2>1. \A n \in Settings : chosen'[n] = IF n = "wan_nat_x" THEN NextNat(nvram) ELSE nvram[n]
    BY <1>3 DEF Save, NextNat, Settings
  <2>2. QED
    BY <1>1, <1>3, <2>1, SteadyKept
<1>4. QED
  BY <1>2, <1>3

(* A valid edit leaves nothing that a boot would correct.                   *)
LEMMA EditKeeps ==
  ASSUME TypeOK, BootInv, Edit
  PROVE  Steady(nvram') /\ (MustRestore(nvram') => MustRestore(nvram))
<1>1. PICK e \in Edits : nvram' = [nvram EXCEPT ![e[1]] = e[2]]
  BY DEF Edit
<1>2. e[1] \in Settings /\ e[1] # "wan_nat_x" /\ Valid(e[1], e[2])
  BY EditsAssumption DEF Valid
<1>3. nvram \in [Names -> {i \in Int : i >= Unset}] /\ Steady(nvram)
  BY DEF TypeOK, Nvram, BootInv, Edit
<1>4. \A n \in Names : nvram'[n] = IF n = e[1] THEN e[2] ELSE nvram[n]
  BY <1>1, <1>3
<1>5. Steady(nvram')
  BY <1>2, <1>3, <1>4 DEF Steady, Names, Settings, OldNames
<1>6. /\ nvram'["restore_defaults"] = nvram["restore_defaults"]
      /\ nvram'["buildno"] = nvram["buildno"]
  BY <1>2, <1>4 DEF Names, Settings, OldNames
<1>7. QED
  BY <1>5, <1>6 DEF MustRestore

LEMMA InvHolds == Spec => []BootInv
<1>1. Init => BootInv
  BY FlashesAssumption, BootMigrates DEF Init, BootInv
<1>2. TypeOK /\ BootInv /\ [Next]_vars => BootInv'
  <2> SUFFICES ASSUME TypeOK, BootInv, [Next]_vars PROVE BootInv'
    OBVIOUS
  <2>1. CASE PowerOn
    BY <2>1 DEF PowerOn, BootInv
  <2>2. CASE ConvertOldParams
    BY <2>2 DEF ConvertOldParams, BootInv
  <2>3. CASE RestoreDefaults
    BY <2>3 DEF RestoreDefaults, BootInv
  <2>4. CASE ConvertMiscValues
    BY <2>4 DEF ConvertMiscValues, BootInv, Booted
  <2>5. CASE CommitRestored
    <3>1. nvram = Booted(flash) /\ flash \in Nvram
      BY <2>5 DEF CommitRestored, BootInv, TypeOK
    <3>2. \A n \in Settings : Booted(flash')[n] = chosen'[n]
      BY <2>5, <3>1, BootIdempotent DEF CommitRestored, BootInv
    <3>3. Steady(nvram) /\ ~MustRestore(nvram)
      BY <3>1, BootSteady
    <3>4. nvram' = nvram /\ phase' = "running"
      BY <2>5 DEF CommitRestored
    <3>5. QED
      BY <3>2, <3>3, <3>4 DEF BootInv
  <2>6. CASE Edit
    <3>1. phase = "running" /\ UNCHANGED <<flash, phase, chosen>>
      BY <2>6 DEF Edit
    <3>2. Steady(nvram') /\ (MustRestore(nvram') => MustRestore(nvram))
      BY <2>6, EditKeeps
    <3>3. QED
      BY <3>1, <3>2 DEF BootInv
  <2>7. CASE Save
    <3>1. phase = "running" /\ UNCHANGED <<nvram, phase>>
      BY <2>7 DEF Save
    <3>2. MustRestore(nvram) => chosen' = chosen
      BY <2>7 DEF Save
    <3>3. \A n \in Settings : Booted(flash')[n] = chosen'[n]
      BY <2>7, SaveKeeps
    <3>4. QED
      BY <3>1, <3>2, <3>3 DEF BootInv
  <2>8. CASE Erase
    <3>1. /\ phase = "running" /\ phase' = phase /\ flash' = nvram'
          /\ chosen' = [n \in Settings |-> Factory[n]]
      BY <2>8 DEF Erase
    <3>2. /\ nvram' \in Nvram
          /\ \A n \in Names : n # "restore_defaults" => nvram'[n] = nvram[n]
          /\ nvram'["restore_defaults"] = 1
      BY <2>8 DEF Erase, TypeOK, Nvram, Names
    <3>3. MustRestore(nvram')
      BY <3>2 DEF MustRestore
    <3>4. \A n \in Settings \cup OldNames : n \in Names /\ n # "restore_defaults"
      BY DEF Names, Settings, OldNames
    <3>5. Steady(nvram)
      BY <3>1 DEF BootInv
    <3>6. Steady(nvram')
      <4>1. "wan_nat_x" \in Settings
        BY DEF Settings
      <4>2. QED
        BY <3>2, <3>4, <3>5, <4>1 DEF Steady
    <3>7. \A n \in Settings : Booted(nvram')[n] = Factory[n]
      BY <3>2, <3>3, ResetBoots
    <3>8. QED
      BY <3>1, <3>6, <3>7 DEF BootInv
  <2>9. CASE PowerOff
    BY <2>9 DEF PowerOff, BootInv
  <2>10. CASE UNCHANGED vars
    BY <2>10 DEF vars, BootInv
  <2>11. QED
    BY <2>1, <2>2, <2>3, <2>4, <2>5, <2>6, <2>7, <2>8, <2>9, <2>10 DEF Next
<1>3. QED
  BY <1>1, <1>2, TypeCorrect, PTL DEF Spec

(* Every boot ends with the settings last saved, whatever was in flash      *)
(* first and wherever power failed (rc.c, init_router).                     *)
THEOREM SettingsKept == Spec => []SettingsSurvive
<1>1. BootInv => SettingsSurvive
  BY DEF BootInv, SettingsSurvive
<1>2. QED
  BY <1>1, InvHolds, PTL

-----------------------------------------------------------------------------
(* Two nvrams with the same settings look the same to the user.             *)
LEMMA MadeEqual ==
  ASSUME NEW nv, NEW w, \A n \in Settings \ {"wan_nat_x"} : nv[n] = w[n]
  PROVE  Made(nv) = Made(w)
BY DEF Made, UserSettings

(* The abstract variables of the store, as its mapping computes them.       *)
Saved == Made(Migrated(flash))
Working == IF Running THEN Made(nvram) ELSE Saved
ResetPending == Running /\ MustRestore(nvram)

(* Until it has written flash back, a boot shows nothing.                   *)
LEMMA BootIsHidden ==
  ASSUME PowerOn \/ ConvertOldParams \/ RestoreDefaults \/ ConvertMiscValues
  PROVE  UNCHANGED <<Saved, Working, Running, ResetPending>>
BY DEF PowerOn, ConvertOldParams, RestoreDefaults, ConvertMiscValues, Saved, Working,
   Running, ResetPending

LEMMA CommitIsBoot ==
  ASSUME TypeOK, BootInv, CommitRestored
  PROVE  ~Running /\ Running' /\ UNCHANGED <<Saved, Working, ResetPending>>
<1>1. ~Running /\ Running'
  BY DEF CommitRestored, Running
<1>2. flash \in Nvram /\ nvram = Booted(flash) /\ nvram' = nvram
  BY DEF TypeOK, BootInv, CommitRestored
<1>3. flash' \in {flash, Booted(flash)}
  BY <1>2 DEF CommitRestored
<1>4. \A n \in Settings : Booted(flash)[n] = Migrated(flash)[n]
  BY <1>2, BootMigrates
<1>5. \A n \in Settings : Migrated(flash')[n] = Migrated(flash)[n]
  <2>1. \A n \in Settings : Migrated(Booted(flash))[n] = Booted(Booted(flash))[n]
    BY <1>2, BootSteady, BootMigrates
  <2>2. \A n \in Settings : Migrated(Booted(flash))[n] = Migrated(flash)[n]
    BY <1>2, <1>4, <2>1, BootIdempotent
  <2>3. QED
    BY <1>3, <2>2
<1>6. Saved' = Saved
  BY <1>5, MadeEqual DEF Saved
<1>7. Made(nvram') = Saved
  BY <1>2, <1>4, MadeEqual DEF Saved
<1>8. ~MustRestore(nvram')
  BY <1>2, BootSteady
<1>9. QED
  BY <1>1, <1>6, <1>7, <1>8 DEF Working, ResetPending

LEMMA EditIsEdit ==
  ASSUME TypeOK, Edit
  PROVE  /\ \E e \in Edits : Working' = [Working EXCEPT ![e[1]] = e[2]]
         /\ Running /\ UNCHANGED <<Saved, Running, ResetPending>>
<1>1. PICK e \in Edits : nvram' = [nvram EXCEPT ![e[1]] = e[2]]
  BY DEF Edit
<1>2. e[1] \in Settings /\ e[1] # "wan_nat_x"
  BY EditsAssumption DEF Valid
<1>3. \A n \in Names : nvram'[n] = IF n = e[1] THEN e[2] ELSE nvram[n]
  BY <1>1 DEF TypeOK, Nvram
<1>4. Made(nvram') = [Made(nvram) EXCEPT ![e[1]] = e[2]]
  BY <1>2, <1>3 DEF Made, UserSettings, Names
<1>5. MustRestore(nvram') = MustRestore(nvram)
  BY <1>2, <1>3 DEF MustRestore, Names, Settings, OldNames
<1>6. QED
  BY <1>4, <1>5 DEF Edit, Working, Running, Saved, ResetPending

(* A save after a reset changes nothing: the next boot restores defaults.   *)
LEMMA SaveIsSave ==
  ASSUME TypeOK, BootInv, Save
  PROVE  /\ Running /\ UNCHANGED <<Working, Running, ResetPending>>
         /\ Saved' = IF ResetPending THEN Saved ELSE Working
<1>1. nvram \in Nvram /\ Steady(nvram) /\ flash' = nvram /\ Running
  BY DEF TypeOK, BootInv, Save, Running
<1>2. flash \in Nvram
  BY DEF TypeOK
<1>3. UNCHANGED <<nvram, Running>>
  BY DEF Save, Running
<1>4. CASE MustRestore(nvram)
  <2>1. \A n \in Settings : Migrated(flash)[n] = Factory[n]
    BY <1>1, <1>2, <1>4, BootMigrates DEF BootInv, Running
  <2>2. \A n \in Settings : Migrated(nvram)[n] = Factory[n]
    BY <1>4 DEF Migrated
  <2>3. Saved' = Saved
    BY <1>1, <2>1, <2>2, MadeEqual DEF Saved
  <2>4. QED
    BY <1>1, <1>3, <1>4, <2>3 DEF Working, ResetPending
<1>5. CASE ~MustRestore(nvram)
  <2>1. \A n \in Settings \ {"wan_nat_x"} : Migrated(nvram)[n] = nvram[n]
    BY <1>1, <1>5, SteadyKept, BootMigrates
  <2>2. Saved' = Made(nvram)
    BY <1>1, <2>1, MadeEqual DEF Saved
  <2>3. QED
    BY <1>1, <1>3, <1>5, <2>2 DEF Working, ResetPending
<1>6. QED
  BY <1>4, <1>5

LEMMA EraseIsReset ==
  ASSUME TypeOK, Erase
  PROVE  /\ Running /\ UNCHANGED <<Working, Running>>
         /\ Saved' = Made(Factory) /\ ResetPending'
<1>1. /\ Running /\ Running' /\ flash' = nvram'
      /\ nvram' = [nvram EXCEPT !["restore_defaults"] = 1]
  BY DEF Erase, Running
<1>2. /\ nvram'["restore_defaults"] = 1
      /\ \A n \in Names \ {"restore_defaults"} : nvram'[n] = nvram[n]
  BY <1>1 DEF TypeOK, Nvram, Names
<1>3. MustRestore(nvram')
  BY <1>2 DEF MustRestore
<1>4. Made(nvram') = Made(nvram)
  <2>1. \A n \in Settings : n \in Names \ {"restore_defaults"}
    BY DEF Names, Settings, OldNames
  <2>2. QED
    BY <1>2, <2>1, MadeEqual
<1>5. \A n \in Settings : Migrated(flash')[n] = Factory[n]
  BY <1>1, <1>3 DEF Migrated
<1>6. QED
  BY <1>1, <1>3, <1>4, <1>5, MadeEqual DEF Working, Saved, ResetPending

(* Power that fails in the middle of the boot is not seen.                  *)
LEMMA PowerOffLoses ==
  ASSUME PowerOff
  PROVE  /\ Saved' = Saved /\ Working' = Saved
         /\ Running' = FALSE /\ ResetPending' = FALSE
         /\ ~Running => UNCHANGED <<Working, Running, ResetPending>>
<1>1. flash' = flash /\ phase' = "off"
  BY DEF PowerOff
<1>2. Running' = FALSE
  BY <1>1 DEF Running
<1>3. Saved' = Saved /\ Working' = Saved /\ ResetPending' = FALSE
  BY <1>1, <1>2 DEF Saved, Working, ResetPending
<1>4. ~Running => Running = FALSE /\ Working = Saved /\ ResetPending = FALSE
  BY DEF Running, Working, ResetPending
<1>5. QED
  BY <1>2, <1>3, <1>4

(* The boot, the conversions and flash implement the store of settings: for *)
(* every content of flash and every valid edit, and wherever power fails.   *)
THEOREM NvramIsStore == Spec => ImplementsStore
<1> USE DEF Store!vars
<1>1. Init => Store!Init
  BY DEF Init, Store!Init, Running
<1>2. TypeOK /\ BootInv /\ [Next]_vars => [Store!Next]_Store!vars
  <2> SUFFICES ASSUME TypeOK, BootInv, [Next]_vars PROVE [Store!Next]_Store!vars
    OBVIOUS
  <2> USE DEF Saved, Working, ResetPending
  <2>1. CASE PowerOn \/ ConvertOldParams \/ RestoreDefaults \/ ConvertMiscValues
    BY <2>1, BootIsHidden
  <2>2. CASE CommitRestored
    BY <2>2, CommitIsBoot DEF Store!Boot, Store!Next
  <2>3. CASE Edit
    BY <2>3, EditIsEdit DEF Store!Edit, Store!Next
  <2>4. CASE Save
    BY <2>4, SaveIsSave DEF Store!Save, Store!Next
  <2>5. CASE Erase
    BY <2>5, EraseIsReset DEF Store!Reset, Store!Next
  <2>6. CASE PowerOff
    BY <2>6, PowerOffLoses DEF Store!PowerOff, Store!Next
  <2>7. CASE UNCHANGED vars
    BY <2>7 DEF vars, Running
  <2>8. QED
    BY <2>1, <2>2, <2>3, <2>4, <2>5, <2>6, <2>7 DEF Next
<1>3. QED
  BY <1>1, <1>2, TypeCorrect, InvHolds, PTL DEF Spec, ImplementsStore, Store!Spec
=============================================================================
