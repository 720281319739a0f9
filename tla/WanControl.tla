----------------------------- MODULE WanControl -----------------------------
(***************************************************************************)
(* The life cycle of the WAN connection (net_wan.c): how init starts, stops,*)
(* restarts, pauses and resumes it, while the DHCP client or pppd runs the *)
(* rc scripts that bring the connection up and down, the watchdog resumes  *)
(* a paused connection and detect_internet reports that Internet is lost.  *)
(* Flashing a firmware stops part of all this, and may fail.               *)
(*                                                                         *)
(* Init takes requests from the markers of RcNotify in any order and runs  *)
(* each handler to its end, one step after the other; every other process  *)
(* runs between its steps.  A script is the rc binary under another name:  *)
(* udhcpc waits for it, but kill_services kills udhcpc by name and not the *)
(* script, which then goes on as an orphan.                                *)
(***************************************************************************)
EXTENDS Naturals

CONSTANTS
  ProtoSets,    (* sets of the protocols a user switches between: "dhcp",  *)
                (* "static" (both IPoE) and "ppp" (PPPoE)                  *)
  Requests,     (* requests httpd and the command line post                *)
  LostRequests, (* what di_lost_action posts when Internet is lost         *)
  Timings       (* whether scripts end within the 3 s that kill_services   *)
                (* grants udhcpc: TRUE, FALSE or both                      *)

Events == {"restart_wan", "manual_wan_reconnect", "auto_wan_reconnect",
           "auto_wan_reconnect_pause", "deferred_wan_connect",
           "manual_wan_disconnect", "stop_whole_wan", "flash_firmware",
           "start_vpn_client", "stop_vpn_client"}

ASSUME ProtoSetsAssumption ==
  ProtoSets \subseteq (SUBSET {"dhcp", "static", "ppp"}) \ {{}}
ASSUME RequestsAssumption == (* only wan_up and wan_down post the VPN client's *)
  Requests \cup LostRequests \subseteq Events \ {"start_vpn_client", "stop_vpn_client"}
ASSUME TimingsAssumption == Timings \subseteq BOOLEAN

VARIABLES
  protos,   (* the protocols of this behaviour, one of ProtoSets: fixed    *)
  timely,   (* scripts end in time, one of Timings: fixed                  *)
  proto,    (* wan0_proto, the protocol the WAN was started with           *)
  markers,  (* requests posted and not taken: DIR_RC_NOTIFY                *)
  pc, op,   (* the step init is at, and the handler it runs                *)
  flashed,  (* history: a flash has failed since the last start of the WAN *)
  links,    (* create_cb_links made the script links, WAN is started       *)
  deferred, (* deferred_wanup_t is not zero: start_wan is put off          *)
  wan,      (* what holds of the WAN interface, see WanFlags               *)
  services, (* the services of the WAN that run, see Services              *)
  client,   (* udhcpc or pppd                                              *)
  release,  (* SIGUSR2 is pending at udhcpc                                *)
  script,   (* the step of the script that the client waits for            *)
  orphan    (* the step of a script whose udhcpc was killed                *)

init == <<pc, op, flashed>>
daemon == <<client, release, script, orphan>>
setting == <<protos, timely>>
vars == <<setting, proto, markers, init, links, deferred, wan, services, daemon>>

(* wan0_uptime is not zero; the interface has an address; the default route *)
(* of metric 1 is installed; wan0_err is 1, the address is in the LAN.      *)
WanFlags == {"uptime", "address", "route", "err"}

(* detect_internet counts as running while it is not paused; the L2TP       *)
(* server is configured, l2tp_srv_t is 1.                                   *)
Services == {"detect_internet", "detect_wan", "vpn_client", "l2tp_server", "watchdog"}

ScriptSteps == {"none", "bound_addr", "bound_up", "bound_notify",
                "bound_conflict", "conflict_err",
                "deconf_addr", "deconf_notify", "deconf_down"}

StopSteps == {"stop", "ppp_wait", "release", "kill", "ifdown", "unlink"}
PppStopSteps == {"pppstop", "pppstop_wait"}
StartSteps == {"undefer", "links", "launch", "restore"}
FlashSteps == {"flash", "flash_kill", "flash_write"}
PCs == {"idle", "reset", "defer"} \cup StopSteps \cup PppStopSteps \cup StartSteps
         \cup FlashSteps

(* init_router has reached start_wan; nothing of the WAN exists yet.  The   *)
(* watchdog starts soon after, before it is needed.                         *)
Init ==
  /\ protos \in ProtoSets /\ timely \in Timings /\ proto \in protos
  /\ markers = {}
  /\ pc = "links" /\ op = "boot" /\ flashed = FALSE
  /\ links = FALSE /\ deferred = FALSE
  /\ wan = {} /\ services = {"l2tp_server", "watchdog"}
  /\ client = "none" /\ release = FALSE /\ script = "none" /\ orphan = "none"

Goto(label) == pc' = label /\ UNCHANGED <<op, flashed>>
Call(handler, label) == pc' = label /\ op' = handler /\ UNCHANGED flashed
Return == pc' = "idle" /\ op' = "none" /\ UNCHANGED flashed

-----------------------------------------------------------------------------
(* Taking a request: the dispatch of handle_notifications.                  *)

(* full_restart_wan, and try_wan_reconnect behind the manual, automatic and *)
(* paused reconnect: all stop the WAN first (AP mode, which they refuse, is *)
(* not modelled).                                                           *)
TakeRestart(e) ==
  /\ e \in {"restart_wan", "manual_wan_reconnect", "auto_wan_reconnect",
            "auto_wan_reconnect_pause", "stop_whole_wan"}
  /\ Call(e, "stop")
  /\ UNCHANGED services

(* manual_wan_disconnect: only the PPP daemon, or the whole WAN.            *)
TakeDisconnect(e) ==
  /\ e = "manual_wan_disconnect"
  /\ Call(e, IF proto = "ppp" THEN "pppstop" ELSE "stop")
  /\ UNCHANGED services

(* Mutant: the test for the links is inverted.                              *)
TakeDeferredInverted(e) ==
  /\ e = "deferred_wan_connect"
  /\ IF ~links THEN UNCHANGED init ELSE Call(e, "undefer")
  /\ UNCHANGED services

(* deferred_wan_connect: nothing to do when the links are there.            *)
TakeDeferred(e) ==
  /\ e = "deferred_wan_connect"
  /\ IF links THEN UNCHANGED init ELSE Call(e, "undefer")
  /\ UNCHANGED services

TakeFlash(e) ==
  /\ e = "flash_firmware"
  /\ Call(e, "flash")
  /\ UNCHANGED services

TakeVpn(e) ==
  /\ e \in {"start_vpn_client", "stop_vpn_client"}
  /\ services' = IF e = "start_vpn_client" THEN services \cup {"vpn_client"}
                                           ELSE services \ {"vpn_client"}
  /\ UNCHANGED init

Take(e) ==
  /\ pc = "idle" /\ e \in markers
  /\ markers' = markers \ {e}
  /\ TakeRestart(e) \/ TakeDisconnect(e) \/ TakeDeferred(e) \/ TakeVpn(e)
     \/ TakeFlash(e)
  /\ UNCHANGED <<setting, proto, links, deferred, wan, daemon>>

-----------------------------------------------------------------------------
(* stop_wan.                                                                *)

(* A dying pppd takes its interface along and runs ip-down if the link was   *)
(* up; its running script dies.                                             *)
PppDies ==
  /\ client' = "none" /\ wan' = wan \ {"address", "route"}
  /\ script' = IF client = "bound" THEN "deconf_notify" ELSE "none"

(* deferred_wanup_t is cleared, detect_internet paused, the VPN client      *)
(* stopped; then pppd, xl2tpd and the ip-up and ip-down scripts are killed. *)
StopBegin ==
  /\ pc = "stop" /\ Goto("ppp_wait")
  /\ deferred' = FALSE
  /\ services' = services \ {"detect_internet", "vpn_client", "l2tp_server"}
  /\ IF proto = "ppp" THEN PppDies ELSE UNCHANGED <<wan, client, script>>
  /\ UNCHANGED <<setting, proto, markers, links, release, orphan>>

(* kill_services waits for the ppp services, ip-down among them, and then   *)
(* kills what is left of them.                                              *)
StopPppWait ==
  /\ pc = "ppp_wait" /\ Goto("release")
  /\ script' = IF proto = "ppp" THEN "none" ELSE script
  /\ UNCHANGED <<setting, proto, markers, links, deferred, wan, services, client, release,
                 orphan>>

(* killall -SIGUSR2 udhcpc, and 300 ms for it to release the lease.         *)
StopRelease ==
  /\ pc = "release" /\ Goto("kill")
  /\ release' = (client # "none")
  /\ UNCHANGED <<setting, proto, markers, links, deferred, wan, services, client, script,
                 orphan>>

(* kill_services(svcs_wan, 3, 1): udhcpc, which only exits between scripts, *)
(* gets 3 s before SIGKILL; detect_wan dies with it.  At most one orphan.   *)
StopKill ==
  /\ pc = "kill" /\ Goto("ifdown")
  /\ \/ script = "none" /\ ~release /\ UNCHANGED orphan
     \/ ~timely /\ orphan = "none" /\ orphan' = script
  /\ client' = "none" /\ script' = "none" /\ release' = FALSE
  /\ services' = services \ {"detect_wan"}
  /\ UNCHANGED <<setting, proto, markers, links, deferred, wan>>

(* Mutant: wan_down posts stop_vpn_client for a static address too.          *)
StopIfDownPosts ==
  /\ pc = "ifdown" /\ Goto("unlink")
  /\ IF proto = "static"
     THEN /\ wan' = wan \ {"uptime", "address", "route"}
          /\ services' = services \ {"detect_internet"}
          /\ markers' = markers \cup {"stop_vpn_client"}
     ELSE wan' = wan \ {"address", "route"} /\ UNCHANGED <<services, markers>>
  /\ UNCHANGED <<setting, proto, links, deferred, daemon>>

(* wan_down for a static address, which posts nothing, then the interfaces  *)
(* are brought down and lose their addresses and routes.                    *)
StopIfDown ==
  /\ pc = "ifdown" /\ Goto("unlink")
  /\ IF proto = "static"
     THEN /\ wan' = wan \ {"uptime", "address", "route"}
          /\ services' = services \ {"detect_internet"}
     ELSE wan' = wan \ {"address", "route"} /\ UNCHANGED services
  /\ UNCHANGED <<setting, proto, markers, links, deferred, daemon>>

(* Mutant: stop_wan ends without clear_wan_state.                            *)
StopUnlinkOnly ==
  /\ pc = "unlink"
  /\ links' = FALSE
  /\ IF op \in {"manual_wan_disconnect", "stop_whole_wan"}
     THEN Return
     ELSE Goto("reset")
  /\ UNCHANGED <<setting, proto, markers, deferred, wan, services, daemon>>

(* remove_cb_links and clear_wan_state; here stop_wan returns.              *)
StopUnlink ==
  /\ pc = "unlink"
  /\ links' = FALSE /\ wan' = wan \ {"uptime", "err"}
  /\ IF op \in {"manual_wan_disconnect", "stop_whole_wan"}
     THEN Return
     ELSE Goto("reset")
  /\ UNCHANGED <<setting, proto, markers, deferred, services, daemon>>

(* stop_wan_ppp: the same for the daemon alone, the links stay.             *)
PppStopBegin ==
  /\ pc = "pppstop" /\ Goto("pppstop_wait")
  /\ deferred' = FALSE
  /\ services' = services \ {"detect_internet", "vpn_client", "l2tp_server"}
  /\ PppDies
  /\ UNCHANGED <<setting, proto, markers, links, release, orphan>>

PppStopEnd ==
  /\ pc = "pppstop_wait" /\ Return
  /\ script' = "none" /\ wan' = {}
  /\ UNCHANGED <<setting, proto, markers, links, deferred, services, client, release, orphan>>

-----------------------------------------------------------------------------
(* After stop_wan: reset_wan_vars, then start_wan or the pause.             *)

(* reset_wan_vars copies the configured protocol, which the user may have   *)
(* changed, to wan0_proto: until here the handlers go by the old one.       *)
(* try_wan_reconnect: di_recon_pause may be zero, and then there is none.   *)
ResetVars ==
  /\ pc = "reset"
  /\ proto' \in protos
  /\ wan' = wan \ {"uptime", "err"}
  /\ \/ Goto("links")
     \/ op = "auto_wan_reconnect_pause" /\ Goto("defer")
  /\ UNCHANGED <<setting, markers, links, deferred, services, daemon>>

(* The timer is set, and "check watchdog started".                          *)
Defer ==
  /\ pc = "defer" /\ Return
  /\ deferred' = TRUE /\ services' = services \cup {"watchdog"}
  /\ UNCHANGED <<setting, proto, markers, links, wan, daemon>>

(* Mutant: deferred_wan_connect leaves the timer as it is.                   *)
UndeferNot ==
  /\ pc = "undefer" /\ Goto("links")
  /\ UNCHANGED <<setting, proto, markers, links, deferred, wan, services, daemon>>

(* deferred_wan_connect clears the timer first.                             *)
Undefer ==
  /\ pc = "undefer" /\ Goto("links")
  /\ deferred' = FALSE
  /\ UNCHANGED <<setting, proto, markers, links, wan, services, daemon>>

(* start_wan: the links first, detect_internet wakes up in 60 s.            *)
StartLinks ==
  /\ pc = "links" /\ Goto("launch")
  /\ links' = TRUE /\ services' = services \cup {"detect_internet"}
  /\ UNCHANGED <<setting, proto, markers, deferred, wan, daemon>>

(* wan_up, with the default route if there is a valid gateway to route over *)
(* (which gateway that is: DhcpLease).                                      *)
Up(w) == {w \cup {"uptime"}, w \cup {"uptime", "route"}}

(* start_wan clears the interface; a static address is brought up here      *)
(* (wan_up posts the VPN start), or is in the LAN's subnet and an error;    *)
(* udhcpc and pppd are started, and udhcpc first runs deconfig.             *)
StartLaunch ==
  /\ pc = "launch" /\ Goto("restore")
  /\ LET bare == wan \ {"address", "route"} IN
     IF proto = "static"
     THEN /\ \/ /\ wan' \in Up((bare \ {"err"}) \cup {"address"})
                /\ markers' = markers \cup {"start_vpn_client"}
             \/ wan' = bare \cup {"err"} /\ UNCHANGED markers
          /\ UNCHANGED <<client, script>>
     ELSE /\ wan' = bare /\ client' = "selecting"
          /\ script' = IF proto = "dhcp" THEN "deconf_addr" ELSE "none"
          /\ UNCHANGED markers
  /\ UNCHANGED <<setting, proto, links, deferred, services, release, orphan>>

(* Mutant: deferred_wan_connect does not restore the server.                 *)
RestoreL2tpNotDeferred ==
  /\ pc = "restore"
  /\ pc' = "idle" /\ op' = "none" /\ flashed' = FALSE
  /\ services' = services \cup (IF op = "deferred_wan_connect" THEN {} ELSE {"l2tp_server"})
  /\ UNCHANGED <<setting, proto, markers, links, deferred, wan, daemon>>

(* "restore L2TP VPN server after L2TP WAN client closed".                  *)
RestoreL2tp ==
  /\ pc = "restore"
  /\ pc' = "idle" /\ op' = "none" /\ flashed' = FALSE
  /\ services' = services \cup {"l2tp_server"}
  /\ UNCHANGED <<setting, proto, markers, links, deferred, wan, daemon>>

-----------------------------------------------------------------------------
(* flash_firmware.  If it succeeds the router restarts, and nothing of the  *)
(* above is left; what follows is a flash that fails.                       *)

(* stop_misc and stop_services: the watchdog is stopped (it is started      *)
(* again below), VPN client and detect_internet may go on.                  *)
FlashBegin ==
  /\ pc = "flash" /\ Goto("flash_kill")
  /\ services' = services \ {"watchdog"}
  /\ UNCHANGED <<setting, proto, markers, links, deferred, wan, daemon>>

(* pppd is killed, but not its scripts: it runs ip-down when ip-up is over. *)
(* After 6 s it is killed in earnest, and a script that runs is an orphan.  *)
PppHangsUp ==
  /\ client' = "none" /\ wan' = wan \ {"address", "route"}
  /\ \/ /\ script = "none" /\ UNCHANGED orphan
        /\ script' = IF client = "bound" THEN "deconf_notify" ELSE "none"
     \/ /\ script # "none" /\ ~timely /\ orphan = "none"
        /\ orphan' = script /\ script' = "none"

(* kill_services of l2tpd, xl2tpd and pppd; udhcpc runs on.                 *)
FlashKill ==
  /\ pc = "flash_kill" /\ Goto("flash_write")
  /\ services' = services \ {"l2tp_server"}
  /\ IF proto = "ppp" /\ client # "none" THEN PppHangsUp
                                         ELSE UNCHANGED <<wan, client, script, orphan>>
  /\ UNCHANGED <<setting, proto, markers, links, deferred, release>>

(* Mutant: nothing is started again when mtd_write fails.                    *)
FlashFailsQuietly ==
  /\ pc = "flash_write"
  /\ proto = "ppp" /\ timely => script = "none"
  /\ pc' = "idle" /\ op' = "none" /\ flashed' = TRUE
  /\ UNCHANGED <<setting, proto, markers, links, deferred, wan, services, daemon>>

(* The storage is written, then mtd_write fails and only the watchdog is    *)
(* started again.                                                           *)
FlashFails ==
  /\ pc = "flash_write"
  /\ proto = "ppp" /\ timely => script = "none"
  /\ pc' = "idle" /\ op' = "none" /\ flashed' = TRUE
  /\ services' = services \cup {"watchdog"}
  /\ UNCHANGED <<setting, proto, markers, links, deferred, wan, daemon>>

InitStep ==
  \/ StopBegin \/ StopPppWait \/ StopRelease \/ StopKill \/ StopIfDown
  \/ StopUnlink \/ PppStopBegin \/ PppStopEnd
  \/ ResetVars \/ Defer \/ Undefer \/ StartLinks \/ StartLaunch \/ RestoreL2tp
  \/ FlashBegin \/ FlashKill \/ FlashFails

-----------------------------------------------------------------------------
(* The scripts: udhcpc_bound and udhcpc_deconfig, or ip-up and ip-down,     *)
(* with the wan_up and wan_down they call.  The environment is the client's.*)

(* The interface gets the address of the lease (a new one in place of the   *)
(* old, which takes the routes along) or loses the one it has.  A lease in  *)
(* the LAN's subnet only leaves wan0_err, and after bound a bare interface. *)
UdhcpcEffect(s) ==
  /\ \/ /\ s = "bound_addr"
        /\ wan' \in {wan \cup {"address"}, (wan \ {"route"}) \cup {"address"}}
     \/ s \in {"deconf_addr", "bound_conflict"} /\ wan' = wan \ {"address", "route"}
     \/ s = "conflict_err" /\ wan' = wan \cup {"err"}
  /\ UNCHANGED <<markers, services>>

(* wan_up: uptime and route, then the VPN client is requested, the gateway  *)
(* checker of DHCP started and detect_internet woken.  Back in udhcpc_bound *)
(* wan0_err is cleared; ip-up, which has none (it may be an orphan under    *)
(* another protocol), leaves it.                                            *)
WanUpEffect(s) ==
  \/ s = "bound_up" /\ wan' \in Up(wan)
     /\ UNCHANGED <<markers, services>>
  \/ /\ s = "bound_notify"
     /\ markers' = markers \cup {"start_vpn_client"}
     /\ services' = services \cup {"detect_internet"}
          \cup (IF proto = "dhcp" THEN {"detect_wan"} ELSE {})
     /\ \/ wan' = wan \ {"err"}
        \/ (proto = "ppp" \/ ~timely) /\ UNCHANGED wan

(* Mutant: wan_down leaves wan0_uptime as it is.                             *)
WanDownKeepsUptime(s) ==
  \/ /\ s = "deconf_notify"
     /\ markers' = markers \cup {"stop_vpn_client"}
     /\ services' = services \ {"detect_internet"}
     /\ UNCHANGED wan
  \/ s = "deconf_down" /\ wan' = wan \ {"route"}
     /\ UNCHANGED <<markers, services>>

(* wan_down: first detect_internet is paused and the end of the VPN client  *)
(* requested, later route and uptime go.                                    *)
WanDownEffect(s) ==
  \/ /\ s = "deconf_notify"
     /\ markers' = markers \cup {"stop_vpn_client"}
     /\ services' = services \ {"detect_internet"}
     /\ UNCHANGED wan
  \/ s = "deconf_down" /\ wan' = wan \ {"uptime", "route"}
     /\ UNCHANGED <<markers, services>>

(* Effects of one step s of a script on what it shares with the rest.       *)
ScriptEffect(s) == UdhcpcEffect(s) \/ WanUpEffect(s) \/ WanDownEffect(s)

(* Mutant: the end of a script is not noticed.                               *)
AfterNoEnd(s) ==
  CASE s = "bound_addr"  -> "bound_up"      [] s = "bound_up" -> "bound_notify"
    [] s = "deconf_addr" -> "deconf_notify" [] s = "deconf_notify" -> "deconf_down"
    [] s = "bound_conflict" -> "conflict_err"
    [] OTHER -> "ended"

(* wan_up is called at the end of udhcpc_bound, wan_down of udhcpc_deconfig. *)
After(s) ==
  CASE s = "bound_addr"  -> "bound_up"      [] s = "bound_up" -> "bound_notify"
    [] s = "deconf_addr" -> "deconf_notify" [] s = "deconf_notify" -> "deconf_down"
    [] s = "bound_conflict" -> "conflict_err"
    [] OTHER -> "none"

ScriptStep ==
  /\ script # "none"
  /\ ScriptEffect(script)
  /\ script' = After(script)
  /\ UNCHANGED <<setting, proto, init, links, deferred, client, release, orphan>>

OrphanStep ==
  /\ orphan # "none"
  /\ ScriptEffect(orphan)
  /\ orphan' = After(orphan)
  /\ UNCHANGED <<setting, proto, init, links, deferred, client, release, script>>

-----------------------------------------------------------------------------
(* The clients (busybox udhcpc and pppd are not in src/).                   *)

(* A lease is obtained, in the LAN's subnet or not, or the PPP link is up:  *)
(* the script is started.                                                   *)
ClientBound ==
  /\ client = "selecting" /\ script = "none" /\ ~release
  /\ client' = "bound"
  /\ script' \in IF proto = "dhcp" THEN {"bound_addr", "bound_conflict"} ELSE {"bound_up"}
  /\ wan' = IF proto = "ppp" THEN wan \cup {"address"} ELSE wan
  /\ UNCHANGED <<setting, proto, markers, init, links, deferred, services, release, orphan>>

(* The lease is renewed with another address, mask or router (or they are   *)
(* the same, and nothing happens): udhcpc_bound runs again, and a conflict  *)
(* with the LAN now leaves the interface as it is.                          *)
ClientRenew ==
  /\ client = "bound" /\ proto = "dhcp" /\ script = "none" /\ ~release
  /\ script' \in {"bound_addr", "conflict_err"}
  /\ UNCHANGED <<setting, proto, markers, init, links, deferred, wan, services, client,
                 release, orphan>>

(* The lease expires, or the peer hangs up and takes the interface along.   *)
ClientLost ==
  /\ client = "bound" /\ script = "none" /\ ~release
  /\ client' = "selecting"
  /\ script' = IF proto = "dhcp" THEN "deconf_addr" ELSE "deconf_notify"
  /\ wan' = IF proto = "ppp" THEN wan \ {"address", "route"} ELSE wan
  /\ UNCHANGED <<setting, proto, markers, init, links, deferred, services, release, orphan>>

(* SIGUSR2: udhcpc gives a lease back, and sleeps.                          *)
ClientRelease ==
  /\ release /\ script = "none"
  /\ release' = FALSE /\ client' = "released"
  /\ script' = IF client = "bound" THEN "deconf_addr" ELSE "none"
  /\ UNCHANGED <<setting, proto, markers, init, links, deferred, wan, services, orphan>>

(* notify_on_wan_ether_link_restored: SIGUSR1 wakes a released udhcpc.      *)
LinkRestored ==
  /\ proto = "dhcp" /\ client = "released" /\ script = "none"
  /\ client' = "selecting"
  /\ UNCHANGED <<setting, proto, markers, init, links, deferred, wan, services, release,
                 script, orphan>>

-----------------------------------------------------------------------------
(* The requesters.                                                          *)

Post(e) ==
  /\ markers' = markers \cup {e}
  /\ UNCHANGED <<setting, proto, init, links, deferred, wan, services, daemon>>

Request == \E e \in Requests \ markers : Post(e)

(* The watchdog, once uptime() has passed deferred_wanup_t.                 *)
WatchdogResumes ==
  /\ deferred /\ "watchdog" \in services /\ "deferred_wan_connect" \notin markers
  /\ Post("deferred_wan_connect")

(* notify_on_internet_state_changed(0): pause, or toggle modem_prio.        *)
InternetLost ==
  /\ "detect_internet" \in services
  /\ \E e \in LostRequests \ markers : Post(e)

Next ==
  \/ InitStep \/ (\E e \in Events : Take(e))
  \/ ScriptStep \/ OrphanStep
  \/ ClientBound \/ ClientRenew \/ ClientLost \/ ClientRelease \/ LinkRestored
  \/ Request \/ WatchdogResumes \/ InternetLost

(* Init runs on, takes markers when it is idle and reaches the watchdog's   *)
(* in the end (RcNotify shows this as long as a pass has an iteration for   *)
(* every marker it finds: here there are fewer events than iterations; and  *)
(* after a flash has failed the watchdog signals again); scripts and udhcpc *)
(* run; mtd_write returns; the watchdog ticks, at least in some of the      *)
(* times between two flashes (which take longer than its tick).  Nothing    *)
(* else is assumed of the user, and nothing of Internet or of the lease.    *)
Fairness ==
  /\ WF_vars(InitStep) /\ WF_vars(ScriptStep) /\ WF_vars(OrphanStep)
  /\ WF_vars(ClientRelease) /\ SF_vars(WatchdogResumes)
  /\ WF_vars(\E e \in Events : Take(e))
  /\ SF_vars(Take("deferred_wan_connect"))

Spec == Init /\ [][Next]_vars
FairSpec == Spec /\ Fairness

-----------------------------------------------------------------------------
TypeOK ==
  /\ protos \in ProtoSets /\ timely \in Timings /\ proto \in protos
  /\ markers \subseteq Events
  /\ pc \in PCs /\ op \in Events \cup {"none", "boot"} /\ flashed \in BOOLEAN
  /\ links \in BOOLEAN /\ deferred \in BOOLEAN
  /\ wan \subseteq WanFlags /\ services \subseteq Services
  /\ client \in {"none", "selecting", "bound", "released"}
  /\ release \in BOOLEAN
  /\ script \in ScriptSteps /\ orphan \in ScriptSteps

(* The watchdog is armed only while the WAN is stopped.  Were it armed with *)
(* the links in place, deferred_wan_connect would return before it clears   *)
(* the timer, and the watchdog would post it for ever.                      *)
DeferredOnlyWhenStopped == deferred => ~links

(* Why: between the start of stop_wan and the end of start_wan the timer is *)
(* clear, and it is set only when the links are gone.                       *)
DeferredInv ==
  /\ DeferredOnlyWhenStopped
  /\ pc \in {"ppp_wait", "release", "kill", "ifdown", "unlink", "reset", "links",
            "launch", "pppstop_wait"} => ~deferred
  /\ pc \in {"reset", "defer", "undefer"} => ~links

(* A WAN that nobody has disconnected is never left stopped: when init is   *)
(* back in its loop the timer is set and the watchdog is there to see it,   *)
(* whatever restarted, paused or resumed the WAN and after a failed flash.  *)
(* (Checked and proved without the requests of Disconnects.)                *)
StoppedIsWatched == pc = "idle" /\ ~links => deferred /\ "watchdog" \in services

Disconnects == {"manual_wan_disconnect", "stop_whole_wan"}

(* Why: only a disconnect returns from stop_wan, and the watchdog is gone   *)
(* only in the middle of flash_firmware.                                    *)
WatchInv ==
  /\ StoppedIsWatched
  /\ markers \cap Disconnects = {} /\ op \notin Disconnects
  /\ pc \notin PppStopSteps
  /\ pc \in FlashSteps /\ ~links => deferred
  /\ pc \in {"launch", "restore"} => links
  /\ "watchdog" \in services \/ pc \in {"flash_kill", "flash_write"}

(* start_wan never starts udhcpc or pppd while another one still has the    *)
(* interface, however late scripts end and whenever the watchdog's request  *)
(* comes: stop_wan has killed it, or deferred_wan_connect sees the links.   *)
OneClient == [][StartLaunch => client = "none"]_vars

(* Why: there is a client only while the links are there, and they are gone *)
(* from stop_wan until start_wan.                                           *)
ClientInv ==
  /\ ~links => client = "none"
  /\ pc \in {"reset", "defer", "undefer", "links"} => ~links
  /\ pc \in {"ifdown", "unlink", "launch"} => client = "none"
  /\ pc = "launch" => links
  /\ release => pc = "kill" /\ client # "none"

Quiet == pc = "idle" /\ script = "none" /\ orphan = "none" /\ ~release

(* If scripts end in time, what the WAN looks like agrees with what was     *)
(* done to it once every script is over: a stopped WAN has no address, no   *)
(* route, no uptime and no gateway checker, whatever the scripts that ran   *)
(* during stop_wan did.                                                     *)
StoppedIsDown ==
  timely /\ Quiet /\ ~links => wan = {} /\ "detect_wan" \notin services

(* There is something for the WAN to be up with: a lease, a PPP link, or a  *)
(* static address.                                                          *)
Connected == links /\ (client = "bound" \/ proto = "static")

(* A WAN that counts as up is connected and has an address, there is a      *)
(* default route over it only while it is up, and one that is connected but *)
(* not up shows why: wan0_err (net_wan.c:987-997, 2184-2213).  A lease that *)
(* names no router leaves an up WAN without a route.                        *)
UpIsConfigured ==
  timely /\ Quiet =>
    /\ "uptime" \in wan => Connected /\ "address" \in wan
    /\ "route" \in wan => "uptime" \in wan
    /\ Connected => "uptime" \in wan \/ "err" \in wan

(* Why: with scripts that end in time, nothing of a WAN is left when its    *)
(* links are removed, and until a stop begins the client, its script and    *)
(* the interface agree.                                                     *)
Down == client = "none" /\ script = "none" /\ ~release /\ "detect_wan" \notin services

(* An up WAN has its address, and a route only belongs to an up WAN.        *)
InOrder == ("uptime" \in wan => "address" \in wan) /\ ("route" \in wan => "uptime" \in wan)

Cleared == wan \cap {"uptime", "route"} = {}

ClientAgrees ==
  /\ ~release
  /\ client = "none" =>
       /\ script = "none"
       /\ IF proto = "static" THEN links => InOrder /\ wan \cap {"uptime", "err"} # {}
                              ELSE Cleared
  /\ client = "bound" =>
       /\ script \in {"none", "bound_addr", "bound_up", "bound_notify", "bound_conflict",
                      "conflict_err"}
       /\ InOrder
       /\ script = "none" => wan \cap {"uptime", "err"} # {}
       /\ script \in {"bound_up", "bound_notify"} => "address" \in wan
       /\ script = "bound_notify" => "uptime" \in wan
       /\ script = "bound_conflict" => Cleared
  /\ client \in {"selecting", "released"} =>
       /\ script \in {"none", "deconf_addr", "deconf_notify", "deconf_down"}
       /\ script = "none" => Cleared

TimelyInv ==
  timely =>
    /\ orphan = "none"
    /\ client # "none" => proto # "static"
    /\ release => pc = "kill" /\ client # "none"
    /\ pc = "launch" => links
    /\ ~links => Down /\ wan = {}
    /\ pc \in {"reset", "defer", "undefer", "links"} => ~links
    /\ pc \in {"ifdown", "unlink", "launch"} => Down
    /\ pc = "unlink" => wan \subseteq {"uptime", "err"}
    /\ pc = "launch" => wan = {}
    /\ pc \in PppStopSteps => proto = "ppp"
    /\ pc = "pppstop_wait" => client = "none" /\ ~release
    /\ pc \in {"idle", "restore", "stop", "pppstop", "flash", "flash_kill"} => ClientAgrees
    /\ pc = "flash_write" =>
         IF proto = "ppp"
         THEN /\ client = "none" /\ ~release
              /\ script \in {"none", "deconf_notify", "deconf_down"}
              /\ script = "none" => Cleared
         ELSE ClientAgrees

(* Every handler that kills the L2TP server with the WAN and starts the WAN *)
(* again, at once or after a pause, also starts the server again.  (A flash *)
(* that fails leaves it killed.)                                            *)
L2tpServerRestored ==
  (pc = "idle" /\ links /\ ~flashed /\ (proto = "ppp" => client # "none"))
    => "l2tp_server" \in services

(* Why: a handler that killed the server leaves the links or the client     *)
(* gone, or passes through RestoreL2tp.                                     *)
L2tpInv ==
  /\ L2tpServerRestored
  /\ pc \in {"reset", "defer", "undefer"} => ~links
  /\ pc \in PppStopSteps => proto = "ppp"
  /\ pc = "pppstop_wait" => client = "none"
  /\ release => pc = "kill"

(* "deferred start static VPN client" (wan_up, net_wan.c:1355): when all    *)
(* requests are handled and the WAN is up, the client has been started.     *)
VpnFollowsWan ==
  (Quiet /\ markers = {} /\ "uptime" \in wan) => "vpn_client" \in services

(* It is so for a static address, for which wan_down posts no stop, as long *)
(* as the user does not come from another protocol.                         *)
VpnFollowsStaticWan == protos = {"static"} => VpnFollowsWan

StaticInv ==
  protos = {"static"} =>
    /\ proto = "static" /\ client = "none" /\ script = "none" /\ orphan = "none"
    /\ ~release
    /\ pc = "launch" => links
    /\ "stop_vpn_client" \notin markers
    /\ ~links \/ pc \in {"unlink", "launch"} => "uptime" \notin wan
    /\ pc \in {"reset", "defer", "undefer", "links"} => ~links
    /\ "uptime" \in wan /\ pc \in {"idle", "restore", "stop"} \cup FlashSteps =>
         "start_vpn_client" \in markers \/ "vpn_client" \in services

(* Seen from outside, the WAN runs over one protocol at a time.  Orphaned   *)
(* scripts may set wan0_uptime at any time, so it counts only without them. *)
Link == INSTANCE WanLink WITH
          Links <- {"dhcp", "static", "ppp"},
          carrier <- IF links THEN {proto} ELSE {},
          up <- timely /\ "uptime" \in wan

(* The protocol of a started WAN never changes under it, a started WAN is   *)
(* never started again, and it is never up while it is stopped, although    *)
(* the user changes the setting at any time and scripts run on meanwhile.   *)
ImplementsLink == Link!Spec

(* A paused or restarted WAN is always started again, unless the user has   *)
(* it disconnected (those requests are left out where this is checked).     *)
WanComesBack == ~links ~> links

(* The pause ends: the timer is cleared and not just left to fire again.    *)
PauseEnds == deferred ~> ~deferred
=============================================================================
