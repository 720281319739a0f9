------------------------------ MODULE UsbModem ------------------------------
(***************************************************************************)
(* A USB modem as the WAN (rc.c, net_wan.c): the user's settings, the      *)
(* modem's drivers, and the link that carries the WAN.                     *)
(*                                                                         *)
(* httpd writes modem_rule, modem_type and modem_prio one at a time and    *)
(* then posts restart_modem.  Init compares rule and type with the copies  *)
(* of its last look, stops the WAN if the modem carries it, changes the    *)
(* drivers and starts the WAN; start_wan and a disconnect read the type    *)
(* from nvram once more, where it may be a newer one.  When Internet is    *)
(* lost, detect_internet prefers the other link: it decides on the loss,   *)
(* looks which link is selected and writes modem_prio in steps between     *)
(* which init may restart the WAN.  How the WAN is stopped and started is  *)
(* WanControl's; here that is one step each.                               *)
(***************************************************************************)
EXTENDS Naturals

CONSTANTS
  RasTypes,  (* values of modem_type for a serial modem: 0, 1, 2           *)
  Usbnet     (* the value for a network device: 3                          *)

ASSUME TypesAssumption == Usbnet \notin RasTypes

VARIABLES
  rule, type, prio,    (* modem_rule > 0, modem_type and modem_prio        *)
  edited,              (* they changed and httpd has yet to notify         *)
  nvram_rule, nvram_type, (* nvram_modem_rule > 0 and nvram_modem_type     *)
  drivers,             (* the modem's modules that are loaded              *)
  device,              (* the loaded drivers have found the modem          *)
  modem_wan,           (* get_usb_modem_wan: the modem is to carry the WAN *)
  wan,                 (* what does carry it, "none" when it is stopped    *)
  markers,             (* requests posted and not taken                    *)
  pc,                  (* the step init is at                              *)
  need, r, t,          (* need_restart_wan, modem_rule and modem_type of   *)
                       (* the handler of restart_modem                     *)
  reloaded,            (* its modules_reloaded                             *)
  det,                 (* the step detect_internet is at                *)
  lost_on,             (* what carried the WAN when it found Internet lost *)
  report,              (* the link it then took for the one in use         *)
  failed               (* history: the link that last lost Internet, if it *)
                       (* was the one reported, while nobody else has      *)
                       (* changed what there is to prefer                  *)

settings == <<rule, type, prio>>
copies == <<nvram_rule, nvram_type>>
modem == <<drivers, device>>
link == <<modem_wan, wan>>
locals == <<need, r, t, reloaded>>
lost == <<det, lost_on, report, failed>>
vars == <<settings, edited, copies, modem, link, markers, pc, locals, lost>>

Types == RasTypes \cup {Usbnet}
Events == {"restart_modem", "auto_wan_reconnect", "manual_wan_disconnect"}

(* The modules reload_modem_modules loads for a type, if the modem is used. *)
Driver(ty) == IF ty = Usbnet THEN "usbnet" ELSE "ras"
DriverFor(is, ty) == IF is THEN Driver(ty) ELSE "none"
OnModem == wan \in {"ras", "usbnet"}

(* After load_usb_modules; the WAN starts without a modem.                  *)
Init ==
  /\ rule \in BOOLEAN /\ type \in Types /\ prio \in 0..2 /\ edited = FALSE
  /\ nvram_rule = rule /\ nvram_type = type
  /\ drivers = DriverFor(rule, type) /\ device = FALSE
  /\ modem_wan = FALSE /\ wan = "none"
  /\ markers = {} /\ pc = "start"
  /\ need = FALSE /\ r = FALSE /\ t = Usbnet /\ reloaded = FALSE
  /\ det = "idle" /\ lost_on = "none" /\ report = "none" /\ failed = "none"

-----------------------------------------------------------------------------
(* The handler of restart_modem.                                            *)

TakeRestartModem ==
  /\ pc = "idle" /\ "restart_modem" \in markers
  /\ markers' = markers \ {"restart_modem"}
  /\ need' = modem_wan /\ reloaded' = FALSE
  /\ pc' = "read_rule"
  /\ UNCHANGED <<settings, edited, copies, modem, link, r, t, lost>>

ReadRule ==
  /\ pc = "read_rule" /\ pc' = "read_type"
  /\ r' = rule
  /\ UNCHANGED <<settings, edited, copies, modem, link, markers, need, t, reloaded, lost>>

ReadType ==
  /\ pc = "read_type"
  /\ t' = type
  /\ pc' = IF nvram_rule # r THEN "rule" ELSE "type"
  /\ UNCHANGED <<settings, edited, copies, modem, link, markers, need, r, reloaded, lost>>

(* The rule has changed: the WAN is stopped if the modem carries it.        *)
RuleChanged ==
  /\ pc = "rule" /\ pc' = "modules"
  /\ nvram_rule' = r
  /\ wan' = IF need THEN "none" ELSE wan
  /\ UNCHANGED <<settings, edited, nvram_type, modem, modem_wan, markers, locals, lost>>

(* Mutant: the modem of the old modules is taken for one of the new ones.    *)
LoadKeepsDevice(d) ==
  /\ drivers' = d /\ failed' = "none"
  /\ UNCHANGED <<device, det, lost_on, report>>

(* reload_modem_modules or unload_modem_modules: the modem is found anew.   *)
Load(d) ==
  /\ drivers' = d /\ device' = FALSE /\ failed' = "none"
  /\ UNCHANGED <<det, lost_on, report>>

RuleModules ==
  /\ pc = "modules" /\ pc' = "type"
  /\ Load(DriverFor(r, t))
  /\ reloaded' = r
  /\ UNCHANGED <<settings, edited, copies, link, markers, need, r, t>>

(* Mutant: a type that comes with a new rule is not remembered.              *)
TypeChangedAlone ==
  /\ pc = "type"
  /\ nvram_type' = IF reloaded THEN nvram_type ELSE t
  /\ IF nvram_type # t /\ Usbnet \in {nvram_type, t} /\ r /\ ~reloaded
     THEN pc' = "reload" /\ wan' = IF need THEN "none" ELSE wan
     ELSE pc' = "end" /\ UNCHANGED wan
  /\ UNCHANGED <<settings, edited, nvram_rule, modem, modem_wan, markers, locals, lost>>

(* Mutant: the WAN is not stopped for a new type.                            *)
TypeChangedUnstopped ==
  /\ pc = "type"
  /\ nvram_type' = t
  /\ IF nvram_type # t /\ Usbnet \in {nvram_type, t} /\ r /\ ~reloaded
     THEN pc' = "reload"
     ELSE pc' = "end"
  /\ UNCHANGED <<settings, edited, nvram_rule, modem, link, markers, locals, lost>>

(* The type has changed between a serial modem and a network device: other  *)
(* modules, if a new rule has not loaded them already.                      *)
TypeChanged ==
  /\ pc = "type"
  /\ nvram_type' = t
  /\ IF nvram_type # t /\ Usbnet \in {nvram_type, t} /\ r /\ ~reloaded
     THEN pc' = "reload" /\ wan' = IF need THEN "none" ELSE wan
     ELSE pc' = "end" /\ UNCHANGED wan
  /\ UNCHANGED <<settings, edited, nvram_rule, modem, modem_wan, markers, locals, lost>>

TypeModules ==
  /\ pc = "reload" /\ pc' = "end"
  /\ Load(Driver(t))
  /\ UNCHANGED <<settings, edited, copies, link, markers, locals>>

(* full_restart_wan, if the modem carried the WAN.                          *)
EndOfHandler ==
  /\ pc = "end"
  /\ pc' = IF need THEN "stop" ELSE "idle"
  /\ UNCHANGED <<settings, edited, copies, modem, link, markers, locals, lost>>

-----------------------------------------------------------------------------
(* full_restart_wan, try_wan_reconnect, deferred_wan_connect.               *)

TakeReconnect ==
  /\ pc = "idle" /\ "auto_wan_reconnect" \in markers
  /\ markers' = markers \ {"auto_wan_reconnect"}
  /\ pc' = "stop"
  /\ UNCHANGED <<settings, edited, copies, modem, link, locals, lost>>

StopWan ==
  /\ pc = "stop" /\ pc' = "select"
  /\ wan' = "none"
  /\ UNCHANGED <<settings, edited, copies, modem, modem_wan, markers, locals, lost>>

(* get_modem_devnum: the modem is used, and is there.                       *)
Ready == rule /\ device /\ drivers = Driver(type)

(* select_usb_modem_to_wan: with modem_prio 2 the modem is for when there   *)
(* is no Ethernet link.                                                     *)
Select ==
  /\ pc = "select" /\ pc' = "start"
  /\ \E has_link \in BOOLEAN :
       modem_wan' = (Ready /\ (prio = 1 \/ (prio = 2 /\ ~has_link)))
  /\ UNCHANGED <<settings, edited, copies, modem, wan, markers, locals, lost>>

(* start_wan: usbnet or a serial modem by modem_type, or Ethernet.          *)
StartWan ==
  /\ pc = "start" /\ pc' = "idle"
  /\ wan' = IF modem_wan THEN Driver(type) ELSE "eth"
  /\ UNCHANGED <<settings, edited, copies, modem, modem_wan, markers, locals, lost>>

(* Mutant: a modem always means PPP.                                         *)
DisconnectPppOnly ==
  /\ pc = "idle" /\ "manual_wan_disconnect" \in markers
  /\ markers' = markers \ {"manual_wan_disconnect"}
  /\ wan' = IF modem_wan /\ wan = "usbnet" THEN wan ELSE "none"
  /\ UNCHANGED <<settings, edited, copies, modem, modem_wan, pc, locals, lost>>

(* manual_wan_disconnect: stop_wan, or for a serial modem stop_wan_ppp,     *)
(* which stops pppd only.                                                   *)
Disconnect ==
  /\ pc = "idle" /\ "manual_wan_disconnect" \in markers
  /\ markers' = markers \ {"manual_wan_disconnect"}
  /\ wan' = IF modem_wan /\ type # Usbnet /\ wan = "usbnet" THEN wan ELSE "none"
  /\ UNCHANGED <<settings, edited, copies, modem, modem_wan, pc, locals, lost>>

InitStep ==
  \/ TakeRestartModem \/ ReadRule \/ ReadType
  \/ RuleChanged \/ RuleModules \/ TypeChanged \/ TypeModules \/ EndOfHandler
  \/ TakeReconnect \/ StopWan \/ Select \/ StartWan \/ Disconnect

-----------------------------------------------------------------------------
(* Everybody else.                                                          *)

(* httpd stores the form of the modem page, one variable at a time ...      *)
Edit ==
  /\ \/ rule' = ~rule /\ UNCHANGED <<type, prio>>
     \/ \E ty \in Types \ {type} : type' = ty /\ UNCHANGED <<rule, prio>>
     \/ \E p \in 0..2 \ {prio} : prio' = p /\ UNCHANGED <<rule, type>>
  /\ edited' = TRUE /\ failed' = "none"
  /\ UNCHANGED <<copies, modem, link, markers, pc, locals, det, lost_on, report>>

(* ... and notifies init.                                                   *)
Notify ==
  /\ edited /\ edited' = FALSE
  /\ markers' = markers \cup {"restart_modem"}
  /\ UNCHANGED <<settings, copies, modem, link, pc, locals, lost>>

Request ==
  /\ \E e \in {"auto_wan_reconnect", "manual_wan_disconnect"} \ markers :
       markers' = markers \cup {e}
  /\ UNCHANGED <<settings, edited, copies, modem, link, pc, locals, lost>>

(* The drivers find the modem, or it is pulled out.  The hotplug events are *)
(* "deferred run usb modem to wan" and "deferred restart wan".              *)
Hotplug ==
  /\ drivers # "none"
  /\ device' = ~device /\ failed' = "none"
  /\ markers' = markers \cup {"auto_wan_reconnect"}
  /\ UNCHANGED <<settings, edited, copies, drivers, link, pc, locals, det, lost_on, report>>

(* detect_internet finds that Internet is lost, at any time: also while the *)
(* WAN is stopped and started.                                              *)
InternetLost ==
  /\ det = "idle" /\ det' = "check"
  /\ lost_on' = IF OnModem THEN "modem" ELSE wan
  /\ UNCHANGED <<settings, edited, copies, modem, link, markers, pc, locals, report, failed>>

(* notify_on_internet_state_changed with di_lost_action 3, in its process:  *)
(* if there is a modem ...                                                  *)
CheckModem ==
  /\ det = "check"
  /\ IF Ready THEN det' = "read" /\ UNCHANGED lost_on
              ELSE det' = "idle" /\ lost_on' = "none"
  /\ UNCHANGED <<settings, edited, copies, modem, link, markers, pc, locals, report, failed>>

(* ... it looks which link is selected by now ...                           *)
ReadLink ==
  /\ det = "read" /\ det' = "prefer"
  /\ report' = IF modem_wan THEN "modem" ELSE "eth"
  /\ UNCHANGED <<settings, edited, copies, modem, link, markers, pc, locals, lost_on, failed>>

(* Mutant: every report turns the preference over.                           *)
PreferToggled ==
  /\ det = "prefer" /\ det' = "post"
  /\ prio' = IF prio = 0 THEN 1 ELSE 0
  /\ failed' = IF Ready /\ lost_on = report THEN report ELSE "none"
  /\ lost_on' = "none" /\ report' = "none"
  /\ UNCHANGED <<rule, type, edited, copies, modem, link, markers, pc, locals>>

(* ... prefers the other one ...                                            *)
PreferOther ==
  /\ det = "prefer" /\ det' = "post"
  /\ prio' = IF report = "modem" THEN 0 ELSE 1
  /\ failed' = IF Ready /\ lost_on = report THEN report ELSE "none"
  /\ lost_on' = "none" /\ report' = "none"
  /\ UNCHANGED <<rule, type, edited, copies, modem, link, markers, pc, locals>>

(* ... and has the WAN restarted.                                           *)
PostReconnect ==
  /\ det = "post" /\ det' = "idle"
  /\ markers' = markers \cup {"auto_wan_reconnect"}
  /\ UNCHANGED <<settings, edited, copies, modem, link, pc, locals, lost_on, report, failed>>

DetectInternet == InternetLost \/ CheckModem \/ ReadLink \/ PreferOther \/ PostReconnect

Next == InitStep \/ Edit \/ Notify \/ Request \/ Hotplug \/ DetectInternet

Spec == Init /\ [][Next]_vars

-----------------------------------------------------------------------------
TypeOK ==
  /\ rule \in BOOLEAN /\ type \in Types /\ prio \in 0..2 /\ edited \in BOOLEAN
  /\ nvram_rule \in BOOLEAN /\ nvram_type \in Types
  /\ drivers \in {"none", "ras", "usbnet"} /\ device \in BOOLEAN
  /\ device => drivers # "none"
  /\ modem_wan \in BOOLEAN /\ wan \in {"none", "eth", "ras", "usbnet"}
  /\ markers \subseteq Events
  /\ pc \in {"idle", "read_rule", "read_type", "rule", "modules", "type", "reload", "end",
            "stop", "select", "start"}
  /\ need \in BOOLEAN /\ r \in BOOLEAN /\ t \in Types /\ reloaded \in BOOLEAN
  /\ det \in {"idle", "check", "read", "prefer", "post"}
  /\ lost_on \in {"none", "eth", "modem"}
  /\ report \in {"none", "eth", "modem"} /\ failed \in {"none", "eth", "modem"}

(* No edit is left to be applied.                                           *)
Applied == ~edited /\ "restart_modem" \notin markers

(* Whatever was edited when, one variable after the other and during the    *)
(* handler too: once all is applied, the modules are those of the settings, *)
(* and a WAN on the modem runs over these modules.                          *)
ModemFollowsSettings ==
  pc = "idle" /\ Applied =>
    /\ drivers = DriverFor(rule, type)
    /\ (OnModem => wan = drivers)

(* Modules are never changed under a WAN that runs over them.               *)
ModulesFreeWhenChanged == [][drivers' # drivers => ~OnModem]_vars

(* Once a failover has been handled, the WAN is not on the link that lost   *)
(* Internet, however often the loss was reported before, if that link was   *)
(* still selected when detect_internet looked.  When init has selected the  *)
(* other one between the loss and the look (net_wan.c:1641-1647), the code  *)
(* prefers the lost link again, and this says nothing.                      *)
FailoverSwitches ==
  (/\ pc = "idle" /\ "auto_wan_reconnect" \notin markers /\ det # "post"
   /\ wan # "none" /\ failed # "none")
    => (OnModem <=> failed = "eth")

(* A manual disconnect stops the WAN when every edit of the modem page has  *)
(* been applied.  Until then it says nothing: an edited type that the WAN   *)
(* has not been restarted for makes it stop pppd only (net_wan.c:1552).     *)
DisconnectStops ==
  [][(Applied /\ "manual_wan_disconnect" \in markers \ markers') => wan' = "none"]_vars

(* Why.  Init's copies are those of the settings once all is applied, and   *)
(* the modules are those of its copies except while it changes them.        *)
Reading == pc \in {"read_rule", "read_type"}
InHandler == pc \in {"rule", "modules", "type", "reload", "end"}

DriversInv ==
  /\ Applied => CASE InHandler -> r = rule /\ t = type
                  [] pc = "read_type" -> r = rule
                  [] pc = "read_rule" -> TRUE
                  [] OTHER -> nvram_rule = rule /\ nvram_type = type
  /\ Reading => ~reloaded
  /\ pc = "rule" => nvram_rule # r
  /\ InHandler /\ pc # "rule" => nvram_rule = r
  /\ pc \in {"reload", "end"} => nvram_type = t
  /\ pc = "reload" => r
  /\ pc = "type" /\ reloaded => r /\ drivers = Driver(t)
  /\ pc \notin {"modules", "reload"} /\ ~(pc = "type" /\ reloaded)
       => drivers = DriverFor(nvram_rule, nvram_type)

(* A WAN on the modem is known to the handler, which stops it first.        *)
WanInv ==
  /\ OnModem => modem_wan
  /\ InHandler \/ Reading => need = modem_wan
  /\ pc \in {"modules", "reload"} => ~OnModem
  /\ pc \in {"select", "start"} => wan = "none"
  /\ pc = "start" /\ Applied /\ modem_wan => rule
  /\ pc = "idle" /\ Applied /\ OnModem => rule /\ wan = Driver(type)

(* The preference is against the link that failed while the modem is there. *)
FailoverInv ==
  failed # "none" =>
    /\ Ready
    /\ prio = IF failed = "modem" THEN 0 ELSE 1
    /\ "auto_wan_reconnect" \notin markers /\ det # "post" =>
         /\ pc = "start" => (modem_wan <=> failed = "eth")
         /\ (pc = "idle" \/ InHandler \/ Reading) /\ wan # "none" => (OnModem <=> failed = "eth")
=============================================================================
