# TMRAF: models of the router's rc daemon

TMRAF is an overlay on the Padavan firmware for MT7620/MT7621 routers: a set of
replaced files, most of them of third-party programs (libcurl, dnsmasq, dropbear,
openvpn, wpa_supplicant, busybox, ...), and the firmware's own `rc`, the program
that is init, the handler of every configuration change, and every script that
the DHCP client and pppd run. The logic that is this repository's own is in

- `src/trunk/user/rc/rc.c` - boot, nvram, notifications, flashing, LEDs, applets;
- `src/trunk/user/rc/net_wan.c` - the WAN connection;
- `src/trunk/user/shared/defaults.c` - the table of nvram defaults.

This directory has TLA+ modules for the parts of `rc` where several processes
meet, TLC configurations that check them, and TLAPS proofs. `PROJECT.json`
maps every definition to its lines of source.

## How the system works

Everything is coordinated by init (pid 1, `rc` under the name `init`). Other
processes never act on the network themselves when they want a service changed:
they call `notify_rc(event)`, which creates two marker files named after the
event, in `DIR_RC_INCOMPLETE` and in `DIR_RC_NOTIFY`, and sends SIGUSR1 to init.
Init runs `handle_notifications`, which turns each marker into a call of the
handler, to its end, before it reads the next marker. Such processes are:

- httpd, which also writes nvram directly, one variable at a time;
- the scripts of udhcpc, zcip and pppd: links to `rc` that dispatch to
  `udhcpc_bound`, `udhcpc_deconfig`, `wan_up`, `wan_down`, ... They run *outside*
  init, at the same time, and change nvram, addresses and routes themselves;
- the watchdog, which resumes a paused WAN when `deferred_wanup_t` has passed;
- detect_link and detect_internet, which report that the link is back
  (SIGUSR1 to udhcpc) and that Internet is lost (pause, switch to modem, reboot).

Shared state: nvram (no transactions), the two marker directories, the script
links in /tmp (their presence means "WAN started"), the kernel's interfaces and
routes, and the process table (`kill_services` kills by name).

## Inventory

| component | state | operations | hard behaviour | correct when |
|---|---|---|---|---|
| notification channel (`rc.c` 1023-1504) | marker files, pending signal, position in the pass | notify_rc, handle_notifications | signals coalesce; a pass is bounded; markers change during a pass; same event again | no request lost, none stranded but by a full pass, each answered, waiters released |
| WAN life cycle (`net_wan.c` 837-1133, 1261-1606; a failed flash, `rc.c` 624-661) | links, timer, uptime, address, route, services, client | start_wan, stop_wan, stop_wan_ppp, full_restart_wan, try_wan_reconnect, deferred_wan_connect, manual_wan_disconnect, wan_up, wan_down | scripts run beside init; kill by name; pause and resume; VPN by deferred notification; a flash that fails | a stopped WAN is down, an up WAN is configured, the WAN returns, other services return with it |
| WAN VLANs (`net_wan.c` 247-552, 593-698) | viflast, viptv_ifname, VLAN interfaces, HW transmit map | config_vinet_wan, launch_viptv_wan, soft bridges | settings edited between reads; names of the previous start | no interface left behind, Internet's never removed |
| DHCP/ZeroConf scripts (`net_wan.c` 2061-2728) | lease in nvram, err | bound, renew, deconfig, leasefail, nak | stale gateway, LAN conflict on renew | what is in nvram is what the interface has |
| resolv.conf (`net_wan.c` 1659-1816) | resolv.conf, dnsmasq's server file | update_resolvconf, update_hosts_router | many writers, lock file | last writer's data is complete, dnsmasq is told |
| USB modem (`rc.c` 1125-1159, `net_wan.c` 1900-1926) | cached modem_rule, modem_type, modem_prio | restart_modem, select_usb_modem_to_wan | cached copies of settings; failover toggles | the WAN is stopped by the old setting and started by the new |
| nvram at boot (`rc.c` 53-161, 370-602) | nvram in RAM and flash | restore defaults, convert old and invalid values | crash before commit; upgrade | the values are complete and valid, conversion is idempotent |
| boot, shutdown, flash (`rc.c` 604-712, 862-1021) | storage partition, services | init_router, shutdown_router, flash_firmware, save and load time | order; failed flash | storage written before reboot, services back after failure |
| LEDs (`rc.c` 752-860, `net_wan.c` 84-102) | GPIO | LED_CONTROL | - | - |
| applets (`rc.c` 1575-1914) | none | main | - | - |

Everything else in the repository is third-party code, configuration or build
scripts; `PROJECT.json` lists it with the reason for leaving it out. Code that
`rc` uses but that is not in the repository (notify_rc, kill_services, the
watchdog, detect_*, udhcpc, pppd, httpd) is modelled from how `rc` uses it and
marked external.

## Modules

### RequestBox, RcNotify, RcNotifyProofs

`RequestBox` is what the rest of the system relies on: a set of requests that
one server takes out one at a time, in any order, and all of them in the end.

`RcNotify` is how it is done. `notify` and `incomplete` are the directories,
`signal` the pending SIGUSR1. A requester makes three steps (`PostIncomplete`,
`PostNotify`, `PostSignal`). Init's `StartPass` opens the directory: `listing`
is what readdir must still return, `budget` what is left of the `for` loop; each
of `ReadDot`, `ReadEvent`, `EndOfDir`, `PassFull` is one way an iteration goes.
`ReadEvent` removes the marker, `BeginAction` and `EndAction` bracket the
handler, `TestMarker` and `RemoveIncomplete` are fopen and remove,
`NextIteration` is the break on `stop_handle`. A marker created after opendir
may or may not be returned. After a flash init may go on (mtd_write failed).
`owed` is a history variable: requested, and no action started since.

In the source a pass reads 10 entries, "." and ".." included: eight events, of
about 70 that the dispatch knows. A pass that runs out of room leaves markers
behind, and unless somebody posts another request init sleeps on them; the comment
"(prevent deadlock)" at the loop does not say so. No assumption rules this out, and the
runs have it: their limit is 4. `StrandedOnlyByFullPass` states that it is the only
way to strand a marker. What is promised of the end is promised for behaviours in
which every pass has room (`PassFits`): `WaitersReleased` and the
fair part of `ImplementsFairBox`. A requester whose event others request again and
again, always before the test, waits for ever in the code and in the model;
`WaitersReleased` speaks of events whose requests end. The safety part of the
refinement (`ImplementsBox`) needs none of this.

### WanControl, WanControlProofs

Init is `pc` and `op`; `Take` is the dispatch, one action per handler; the
actions `Stop*`, `PppStop*`, `ResetVars`, `Defer`, `Undefer`, `StartLinks`,
`StartLaunch`, `RestoreL2tp` are the stretches of `stop_wan`, `stop_wan_ppp`,
`try_wan_reconnect`, `deferred_wan_connect` and `start_wan` between which other
processes matter. `wan` and `services` are sets: `"uptime" \in wan` means that
wan0_uptime is not zero, `"vpn_client" \in services` that the VPN client runs.
A script (`script`) has up to three steps, in the order of the source: for bound the
address, then uptime and route, then the notifications; for deconfig the
address, then the notifications, then route and uptime. A lease in the LAN's subnet
has two: the bare interface and `"err"` (wan0_err); a renew in conflict has the error
only. `Up` makes a default route or none, as the lease may name no valid gateway
(which gateway it is: `DhcpLease`). A static address in the LAN's subnet is an error
of `StartLaunch`. `kill_services` waits
for udhcpc only 3 s and does not kill its script: the script goes on as `orphan`.
`timely`, fixed in a behaviour, says that scripts end within the 3 s and there is
none. `proto` is wan0_proto, which `reset_wan_vars` copies from the configured
protocol, so it may change at `ResetVars` only, within `protos`, also fixed.

`flash_firmware` is `FlashBegin`, `FlashKill`, `FlashFails`: the watchdog is
stopped, the ppp daemons are killed without their scripts, the image is not
written and only the watchdog starts again. A flash that succeeds ends the
behaviour. `flashed` remembers the failed flash until the WAN starts again.

The markers here are RequestBox's `pending`: that `Take` may choose any marker
is what readdir does, and that it comes to each one in the end is
`ImplementsFairBox` of RcNotify.

### WanLink

What the rest of the router relies on, whatever carries the WAN: a connection
over one link at a time, that is stopped (`Stop`) before it is started over another
one (`Start`), and that is up only while it is started. `WanControl` implements it with
the protocols as links (`carrier` is the protocol while the script links are there,
`up` is wan0_uptime). An orphan may set wan0_uptime of a stopped WAN, so `up` counts only when
`timely` holds; the carrier's part holds in any case.

### WanVlan, WanVlanProofs

An interface is its VID. `ReadFilter` and `ReadCpuVid` are the reads of nvram
that precede the last one in each of the two functions; `ConfigVinet` and
`LaunchViptv` are the last read and the rest. `Edit` is httpd, between any two
reads. `build` is what the
preprocessor chooses in the source, fixed in a behaviour.

### ResolvConf, ResolvConfProofs

`update_resolvconf` as the processes run it: `FileLock`, `Open` (the file is
truncated and the VPN client's servers are printed), `PrintServers` (the other servers
and fclose), `Rename` (compare, rename, unlink), `FileUnlock`, `Notify`
(restart_dns). The first run, init's in `start_wan`, writes resolv.conf itself and
skips `Rename`. What comes before a call is `StoreServers` (a lease, ppp or the
VPN client), `WanDown` and `ForgetServers` (wan_down, in two steps), `StartWan`
(reset_wan_vars). `StoreSilently` is what changes a server and does not call: a
lease in conflict with the LAN, and clear_wan_state; `silent` remembers it until
somebody has read nvram again. `pdns`, `dns_static`, `is_ipoe`, `modem`
and `overlap` are fixed in a behaviour. `overlap` says whether scripts may outlive
stop_wan (see WanControl's orphans); fcntl's lock blocks and goes with its holder.

### NvramBoot, MCNvramBoot, NvramBootProofs

One action per part of `init_router` that touches nvram: `ConvertOldParams`,
`RestoreDefaults`, `ConvertMiscValues`, `CommitRestored`; then the user's `Edit`,
`Save` and `Erase` (reset_to_defaults), and `PowerOff` between any two. `flash` is
what is stored, `nvram` the copy that programs read. A record field stands for all
names that are treated in the same way. `chosen` is a history variable, the settings
as they were last saved; for the first boot it is `Migrated(flash)`, which says
setting by setting what an old nvram should become, and for a reset the factory's.

### SettingsStore

What a user expects of the settings page: `Boot` makes what is saved the working
copy, `Edit` changes that copy, `Save` keeps it, `Reset` puts the factory's back,
`PowerOff` loses what was not saved. Each is one step. `NvramBoot` implements it: the
abstract `saved` is what a whole boot would make of *flash*, so that the conversions,
the defaults, the corrections and the commit of a boot are hidden steps, and so
is an upgrade that changes what is stored.

### DhcpLease, MCDhcpLease, DhcpLeaseProofs

One interface and its client, `kind` (six combinations of interface, client and
protocol, each with its own script). `nv` is what nvram has of the lease, `iface`
and `routes` what the kernel has, `lease` the script's environment. `Bound`,
`Renew`, `ZeroConfBound` and `Deconfig` are the scripts. `Store`, `Configure` and
`Assign` are the parts of `udhcpc_bound`: storing; comparing with the LAN's subnet,
and then refusing, or clearing the interface for a new address; the new address with
its default route. Between them httpd may move the LAN (`EditLan`). A lease may
leave out mask and router; `Stored` is what nvram has then, which for the WAN is
what an earlier lease left. `told` is a history variable: the gateways that
leases named for an address.

### UsbModem, UsbModemProofs

Init is `pc`, the handler of restart_modem `TakeRestartModem` (which reads
get_usb_modem_wan), `ReadRule`, `ReadType` to `EndOfHandler`
with its locals `need`, `r`, `t`, `reloaded`; then `StopWan`, `Select`
(select_usb_modem_to_wan), `StartWan` and `Disconnect`, one step each (their
inside is WanControl's). `nvram_rule` and `nvram_type` are the static copies of
`rc.c`. `Edit` is httpd, one variable at a time, `Notify` its request after them,
`Hotplug` the kernel. detect_internet is a process of its own (`det`): it finds
Internet lost at any moment, also while the WAN is stopped or started
(`InternetLost`), looks for a modem (`CheckModem`), reads which link is selected
(`ReadLink`), writes modem_prio (`PreferOther`) and posts (`PostReconnect`), each one
step. `lost_on` is the link that was lost, `report` the one it took for it, and
`failed` a history variable: the link that last lost Internet, if it was the one
reported, as long as neither the user nor the hardware has changed what there is to
choose from.

The two differ when init selects the other link between `InternetLost` and
`ReadLink`: Ethernet is lost, a hotplug event makes init select the modem, the report
says modem, and modem_prio 0 turns the WAN back to Ethernet (`net_wan.c:1646-1648`).
The code does that and TLC finds it as soon as `failed` is taken from `lost_on` alone.
No line of the source says otherwise, so it is a hazard on the list, and
`FailoverSwitches` leaves it out by name.

## Runs

| run | question | bounds |
|---|---|---|
| notify | is a request ever lost, or stranded but by a full pass, an incomplete marker left that nobody answers for; do files and signals implement the box | 3 events, one a stopper, limit 4 with the dots, so that a pass may be full; 2 requesters that request any number of times: overlapping requests of the same event and of different ones, before, during and after a pass |
| notify_live | is each request taken, each waiter released, while passes have room | 2 events, limit 4 with the dots: a new request during a pass may fill it, and a requester may request for ever, so that full passes and starved waiters are there to be told from the rest |
| notify_marker | is the marker of a new request kept (violated) | 1 request per requester |
| wan | are timer and L2TP server right under all interleavings; do the WAN and (static) the VPN client look like what was last done to them; is there ever a second client; is the WAN a WanLink | three protocols that change on restart, and a WAN that is always static; scripts that end in time and scripts that do not, one orphan at a time; pauses (a pause of 0 s is a restart), disconnects, failed flashes, each any number of times; leases in conflict with the LAN and without router. restart_wan and stop_whole_wan (which differs from a disconnect for ppp only) are left to the proofs |
| wan_live | is a stopped WAN always watched, does it come back, does the pause end, although flashes stop the watchdog | restart, pause and failed flash; no disconnect requests: a disconnected WAN stays so |
| wan_vpn | does the VPN client follow a DHCP WAN (violated) | restart only |
| vlan | are interfaces and map right whatever is edited when | pvid and two more VIDs, with the pvid also configurable: all cases 1-5 of the comments in launch_viptv_wan, swaps included; the three builds |
| resolv | does resolv.conf hold what nvram holds when all is over, does dnsmasq have it, is the lock always given back | one script and init, one server; all settings, with and without scripts that meet the first run |
| nvram_boot | do the settings survive upgrades, resets and power failures; is all this a SettingsStore | what is in flash first: one group of related names at a time with all their values, the others as this firmware has them (no part of the boot relates two groups); edits of four settings |
| lease | does the interface have what the lease says, with and without mask and router | two addresses, masks, routers and LAN subnets: an address that one LAN covers always, and one that the other covers with the wider mask only |
| lease_route | is every default route one that a lease named (violated) | as lease |
| modem | do modules and WAN follow the settings, does a failover switch, does a disconnect disconnect | two serial types and usbnet: changes within a kind of driver and between them; edits, requests, hotplug and loss of Internet at any step |

Deadlock is checked in `resolv`, `nvram_boot`, `lease`, `lease_route` and `modem`:
elsewhere init sleeps when there is nothing to do, or a
router that rebooted has stopped. No module has a bound on a counter: all are
finite by themselves. In `resolv` two processes
are the least that can overtake each other; the proofs are for any number.

### What the three violations show

- `notify_marker`: the comment at `rc.c:1479-1486` says that the incomplete
  marker is left when the event was requested again. The test (fopen) and the
  removal are two steps; a request posted between them loses its incomplete
  marker, and whoever waits for it believes the action done before it began.
- `wan_vpn`: `wan_down` and `wan_up` defer the stop and the start of the VPN
  client to init as two markers (`net_wan.c:1355`, `1386-1389`). Nothing orders
  them. udhcpc runs deconfig first and bound soon after, and before init takes
  either marker both are there: handled start first, then stop, the
  WAN is up without its VPN client. For a static address only the start is
  posted, and `VpnFollowsStaticWan` in `wan` shows that the property holds there.
- `lease_route`: "Set default route to gateway if specified" (`net_wan.c:1290`).
  `udhcpc_bound` stores a gateway only if the lease names one, so a lease without
  router leaves the gateway of an earlier lease, and `wan_up` routes over it under
  the new address. IPTV's script clears it: `IptvRouteIfSpecified` in `lease`.

### Fairness

`RcNotify`: init is scheduled (`WF(Handler)`), and a requester that made its
first marker makes the second and signals (notify_rc has no loop and no wait).
`WanControl`: init and the scripts run on; mtd_write returns; udhcpc reacts to
SIGUSR2; the watchdog ticks, where it runs: a flash stops it and starts it again,
so `SF(WatchdogResumes)` says that users do not flash so often that the watchdog
never comes to a tick between two flashes; init takes markers when idle, and reaches the watchdog's
(`SF(Take("deferred_wan_connect"))`), which the strong fairness of RequestBox,
implemented by RcNotify while its passes have room, justifies. No fairness is assumed
of a user, of a lease
or of Internet. `WanVlan`, `NvramBoot`, `DhcpLease` and
`UsbModem` have no liveness properties. `ResolvConf`: processes run on,
and the kernel gives the lock in the end to one that waits for it
(`SF(FileLock)`); nobody is assumed to store anything.

## Proofs

All for every value of the constants, under the ASSUMEs of each module.

- `RcNotifyProofs`: `TypeCorrect`; `RequestsKept` (NoLostRequest is inductive
  given the types: the only step that removes a marker makes it the event being
  handled, and the only step that forgets that event starts its action);
  `StrandedOnlyThen`, by `PassSees`: StrandedOnlyByFullPass speaks of
  the idle init only, and to know it at the end of a pass one must know during
  the pass that either a signal is coming or every marker was listed at opendir
  and is still to be returned (`PassSeesMarkers`); no relation between the limit and the
  number of events is assumed; `WaitersCovered` (WaiterCovered is
  inductive given the types: a marker is left only after a test that found the event
  requested again); `ChannelIsBox`, the refinement, step by step.
- `WanControlProofs`: `TypeCorrect`; `TimerOnlyWhenStopped`, by `DeferredInv`
  (the timer is clear from the first step of a stop to the last of a start, and
  is set only after the links are gone); `StoppedWanWatched`, by `WatchInv`, for
  requests without the two disconnects (a stop that returns without a start passes
  through Defer, which sets the timer and starts the watchdog, and a flash kills the
  watchdog only between FlashBegin and FlashFails; `ScriptPosts` says that no script
  posts anything but the VPN client's requests); `OneClientOnly`, by `ClientInv` (a client
  only while the links are there, and no links from the end of stop_wan to start_wan),
  without any assumption about when scripts end; `ServerRestored`, by `L2tpInv` (a
  handler that killed the server ends with the links or the client gone, or
  passes through RestoreL2tp); `StoppedDown` and `UpConfigured`, by `TimelyInv`:
  the two properties speak of moments without a script, and what makes them true
  is what each script still has to do, step by step, that a connected WAN
  whose script is over is up or shows an error, and that nothing of a WAN is
  left when its links go; `VpnFollowsStatic`, by `StaticInv` (no stop is ever
  posted, and an up WAN has its start posted or handled); `WanIsLink`, the refinement:
  by `CarrierFrame` only ResetVars, StartLinks and StopUnlink touch links or protocol,
  by `ClientInv` and `TimelyInv` the links are gone at the first two and the WAN
  is down when they go.
- `WanVlanProofs`: `TypeCorrect`; `NoLeak` and `NamedExist`, inductive as they
  stand; `SamePicture`, by `AgreeInv`, which says what each local holds while
  nobody edits.
- `ResolvConfProofs`: `TypeCorrect`; `OwnFile`, by `LockInv` (who is between
  file_lock and file_unlock holds the lock, alone, and the temporary file is what
  it printed); `ConfSettled`, by `SettledInv`: when
  everyone who stored a server has read nvram since, then what is printed so far,
  what is in the temporary file, or else resolv.conf, is current. The weaker
  property speaks of the time when all are idle and is not inductive, as the
  stale file would be the fault of a much earlier step. `FirstInv` is why the
  first run may skip the variables: they are empty. `DnsmasqEndsInformed`, by
  `InformedInv`: whoever wrote a file that dnsmasq has not read still owes the
  restart.

- `NvramBootProofs`: `BootIdempotent` (a second boot changes nothing);
  `TypeCorrect`; `SettingsKept`. The operators are taken apart first
  (`ConvertedAt`, `WithDefaultsAt`, `CorrectedAt`) and put together in
  `BootMigrates`: the three steps make what `Migrated` says. The invariant is
  `BootInv`: what one whole boot would make of *flash* is what was chosen, at every
  moment, and in the middle of a boot nvram is that boot's part. SettingsSurvive
  speaks of the end of a boot only and says nothing of flash, so it is not inductive.
  `SteadyKept` is why saving keeps BootInv, `BootIdempotent` why the commit does.
  `NvramIsStore` is the refinement, one lemma per operation (`BootIsHidden`,
  `CommitIsBoot`, `EditIsEdit`, `SaveIsSave`, `EraseIsReset`, `PowerOffLoses`):
  `MadeEqual` compares the abstract settings, the commit maps to Boot, the steps before
  it to nothing, because what a boot would make of flash does not change by it.
- `DhcpLeaseProofs`: `TypeCorrect`; `LeaseHonoured` and `RouterRouted`, by
  `LeaseInv` (in the middle of a script nvram is already what the lease left, and a
  gateway in nvram is routed over whenever no error is shown); `IptvRouted`, by
  `IptvInv`. Addresses, masks and the relation `Overlaps` are any sets.
- `UsbModemProofs`: `TypeCorrect`; `ModemFollows`, by `DriversInv` (what of the
  settings, the handler's locals, its copies and the modules agrees at each step) and
  `WanInv`; `ModulesFree` and `DisconnectWorks`, by `WanInv`;
  `FailoverSwitched`, by `FailoverInv` (the preference is against the failed link
  from the moment it is written, however many reports of it there are).

Only model-checked: `WaitersReleased`, `WanComesBack`, `PauseEnds`, `UpdatesEnd` and
`ImplementsFairBox` (liveness under fairness is beyond the prover). Every other property
of a passing run is a theorem. `PassSees` states what no run checks by itself (the
invariant behind `StrandedOnlyThen`). `IncompleteKeptForNewRequest`, `VpnFollowsWan` and
`RouteIfSpecified` are false of the code.

## Not modelled, and the plan

In `WanControl`: AP mode (every handler returns), WISP, IPv6, the MAN lease of
PPTP and L2TP beside the WAN, dial on demand, EAPoL and Kabinet; two or more
orphans at once. In `WanVlan`: the software bridges of GMAC2 boards, priorities,
IPTV's address. In `ResolvConf`: IPv6 servers, a failing
fopen, dnsmasq's file of servers (written before the lock is taken, by code that
is not in the repository), update_hosts_router.
In `NvramBoot`: the router switch that some boards have, which overrides `sw_mode`;
temporary variables; the name that getDefaultSsid forms, and a user who chooses the
default's name; the SSIDs of the guest networks (`rc.c:141`), which get their part of
the MAC address while defaults are restored or not at all. In `DhcpLease`: static and
classless routes other than the default
one, MTU, 6rd; leasefail and nak, which change nothing; which of several default routes
the kernel uses. In `UsbModem`: deferred_wan_connect (`OneClient` of `WanControl` is
about it), the 5 s after
a hotplug event, RAS in detail, `wan_stop` of usbnet.

Not modelled at all: the order of calls in `init_router` and `shutdown_router`, which run
once, alone, and whose calls are in files that the repository does not have; the
saved time (one number in one file); `LED_CONTROL` (a function of settings and the
board); the queries of `net_wan.c`, which keep no state; the applets.

The rest of the repository is libcurl, libxml2, wpa_supplicant, openvpn, dnsmasq,
busybox and the like: replaced files of upstream packages, 99.6 % of its lines of C,
in which this repository has no logic of its own. The models cover more than half of
the 5400 lines of `rc.c`, `net_wan.c` and `defaults.c`, and will not cover more than
a small share of the whole.

What could come next, in this order:

1. WISP and the MAN lease in `WanControl`: two clients and two interfaces at once.
2. The software bridges of `WanVlan`, with the IPTV address of `DhcpLease`.
3. More than one orphan, and what stop_wan would have to wait for.
4. `UsbModem` and `WanControl` in one module, with the modem as one more link of WanLink.
