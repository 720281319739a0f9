------------------------------ MODULE DhcpLease ------------------------------
(***************************************************************************)
(* The data of a lease (net_wan.c): what the scripts of udhcpc and zcip    *)
(* store in nvram, put on the interface and route over, for one interface. *)
(*                                                                         *)
(* A lease need not name a mask or a router.  What it does not name, nvram *)
(* keeps from an earlier lease, and a renew looks at nvram, not at the     *)
(* interface, to see whether anything is new.  An address in the LAN's     *)
(* subnet is refused, and the user may change that subnet at any time.     *)
(* Scripts end before stop_wan goes on (WanControl has those that do not). *)
(***************************************************************************)
CONSTANTS
  Addrs,     (* addresses that servers lease                               *)
  Masks,     (* netmasks                                                   *)
  ClassB,    (* the netmask 255.255.0.0                                    *)
  Gateways,  (* addresses of routers                                       *)
  Lans,      (* settings of lan_ipaddr and lan_netmask                     *)
  Overlaps,  (* <<ip, mask, lan>> that is_same_subnet2 finds in one subnet *)
  None       (* an option that is missing; "" or 0.0.0.0 in nvram          *)

ASSUME ClassBAssumption == ClassB \in Masks
ASSUME NoneAssumption == None \notin Addrs \cup Masks \cup Gateways

VARIABLES
  kind,    (* the interface and its client, one of Kinds: fixed            *)
  lan,     (* the LAN's subnet, as configured                              *)
  nv,      (* ipaddr, netmask, gateway and err of wan0_, wanx_ or manv_    *)
  iface,   (* address and mask of the interface                            *)
  routes,  (* gateways of the default routes over the interface            *)
  bound,   (* the client holds a lease                                     *)
  lease,   (* what the server last said: the script's environment          *)
  pc,      (* what is left of udhcpc_bound, "idle" when no script runs     *)
  renewing, changed, (* its is_renew_mode and is_changed                   *)
  told     (* history: the gateways named for an address, <<ip, gateway>>  *)

script == <<pc, renewing, changed>>
client == <<bound, lease>>
vars == <<kind, lan, nv, iface, routes, client, script, told>>

(* The WAN by DHCP (IPoE); the physical interface below PPPoE, by DHCP or   *)
(* ZeroConf, and below PPTP or L2TP; IPTV's interface, by DHCP or ZeroConf. *)
Kinds == {"wan", "man_pppoe", "man_zcip", "man_tunnel", "iptv", "iptv_zcip"}
ZeroConf == kind \in {"man_zcip", "iptv_zcip"}
Iptv == kind \in {"iptv", "iptv_zcip"}

OrNone(S) == S \cup {None}
Leases == [ip : Addrs, mask : OrNone(Masks), router : OrNone(Gateways),
           rfc : OrNone(Gateways)]
NoAddress == [ip |-> None, mask |-> None]
Cleared == [ip |-> None, mask |-> None, gw |-> None, err |-> 0]

Init ==
  /\ kind \in Kinds /\ lan \in Lans
  /\ nv = Cleared /\ iface = NoAddress /\ routes = {}
  /\ bound = FALSE
  /\ lease \in [ip : Addrs, mask : {None}, router : {None}, rfc : {None}]
  /\ pc = "idle" /\ renewing = FALSE /\ changed = FALSE
  /\ told = {}

-----------------------------------------------------------------------------
(* The interface gets an address: its routes stay if it has that address    *)
(* and mask already, and go with an earlier address.                        *)
Ifconfig(address) ==
  /\ iface' = address
  /\ routes' = IF iface = address THEN routes ELSE {}

(* The gateway a lease names: its router, else that of the classless route  *)
(* to 0.0.0.0/0.  IPTV looks at the router only.                            *)
NamedGateway(l) == IF l.router # None \/ Iptv THEN l.router ELSE l.rfc

(* Mutant: IPTV keeps the gateway of an earlier lease, as the WAN does.      *)
StoredKeeps(l) ==
  [ip   |-> l.ip,
   mask |-> IF l.mask # None THEN l.mask ELSE IF Iptv THEN ClassB ELSE nv.mask,
   gw   |-> IF NamedGateway(l) # None THEN NamedGateway(l) ELSE nv.gw,
   err  |-> nv.err]

(* What the lease l leaves in nvram.  The WAN and the MAN keep what l does  *)
(* not name; IPTV has defaults.                                             *)
Stored(l) ==
  [ip   |-> l.ip,
   mask |-> IF l.mask # None THEN l.mask ELSE IF Iptv THEN ClassB ELSE nv.mask,
   gw   |-> IF NamedGateway(l) # None \/ Iptv THEN NamedGateway(l) ELSE nv.gw,
   err  |-> nv.err]

(* udhcpc_bound and udhcpc_viptv_bound as far as they store the lease.      *)
Store ==
  /\ pc = "store" /\ pc' = "configure"
  /\ changed' = (nv.ip # lease.ip)
  /\ nv' = Stored(lease)
  /\ told' = told \cup ({<<lease.ip, NamedGateway(lease)>>} \cap (Addrs \X Gateways))
  /\ UNCHANGED <<kind, lan, iface, routes, client, renewing>>

(* Mutant: a renew that is refused is not reported.                          *)
RefuseSilently ==
  /\ <<nv.ip, nv.mask, lan>> \in Overlaps
  /\ IF renewing THEN UNCHANGED <<iface, routes>> ELSE Ifconfig(NoAddress)
  /\ nv' = [nv EXCEPT !.err = IF renewing THEN nv.err ELSE 1]

(* An address in the LAN's subnet: a renew leaves what the interface has.   *)
Refuse ==
  /\ <<nv.ip, nv.mask, lan>> \in Overlaps
  /\ IF renewing THEN UNCHANGED <<iface, routes>> ELSE Ifconfig(NoAddress)
  /\ nv' = [nv EXCEPT !.err = 1]

(* Any other address: a new one first clears the interface.                 *)
Accept ==
  /\ <<nv.ip, nv.mask, lan>> \notin Overlaps
  /\ IF changed THEN Ifconfig(NoAddress) ELSE UNCHANGED <<iface, routes>>
  /\ UNCHANGED nv

(* The decision, for which udhcpc_bound and udhcpc_viptv_bound read the     *)
(* LAN's subnet once.                                                       *)
Configure ==
  /\ pc = "configure" /\ changed' = FALSE
  /\ \/ Refuse /\ pc' = "idle" /\ renewing' = FALSE
     \/ Accept /\ pc' = "assign" /\ UNCHANGED renewing
  /\ UNCHANGED <<kind, lan, client, told>>

(* Mutant: the gateway is not checked with is_valid_ipv4.                    *)
AssignAnyGateway ==
  /\ pc = "assign" /\ pc' = "idle"
  /\ LET address == [ip |-> nv.ip, mask |-> nv.mask]
     IN  /\ iface' = address
         /\ routes' = (IF iface = address THEN routes ELSE {}) \cup {nv.gw}
  /\ nv' = [nv EXCEPT !.err = 0]
  /\ renewing' = FALSE
  /\ UNCHANGED <<kind, lan, client, changed, told>>

(* The rest of them: the interface gets the address, and wan_up, man_up or  *)
(* IPTV's own route_add make the default route over the gateway.            *)
Assign ==
  /\ pc = "assign" /\ pc' = "idle"
  /\ LET address == [ip |-> nv.ip, mask |-> nv.mask]
     IN  /\ iface' = address
         /\ routes' = (IF iface = address THEN routes ELSE {}) \cup ({nv.gw} \ {None})
  /\ nv' = [nv EXCEPT !.err = 0]
  /\ renewing' = FALSE
  /\ UNCHANGED <<kind, lan, client, changed, told>>

-----------------------------------------------------------------------------
(* The scripts, as their client calls them.                                 *)

(* "bound": a lease is obtained.                                            *)
Bound(l) ==
  /\ pc = "idle" /\ ~bound /\ ~ZeroConf
  /\ bound' = TRUE /\ lease' = l
  /\ pc' = "store" /\ renewing' = FALSE
  /\ UNCHANGED <<kind, lan, nv, iface, routes, changed, told>>

(* Mutant: a renew looks at the address and the mask only.                   *)
DiffersNotRouter(l) ==
  \/ IF l.mask = None THEN ~Iptv ELSE l.mask # nv.mask
  \/ l.ip # nv.ip

(* A renew that differs from nvram.  One that names no mask always does,    *)
(* except for IPTV; classless routes are not compared.                      *)
Differs(l) ==
  \/ IF l.mask = None THEN ~Iptv ELSE l.mask # nv.mask
  \/ l.router # None /\ l.router # nv.gw
  \/ l.ip # nv.ip

(* "renew": udhcpc_renew and udhcpc_viptv_renew go on as bound if there is  *)
(* anything new (else at most the servers change, see ResolvConf).          *)
Renew(l) ==
  /\ pc = "idle" /\ bound /\ ~ZeroConf
  /\ lease' = l
  /\ IF Differs(l) THEN pc' = "store" /\ renewing' = TRUE ELSE UNCHANGED <<pc, renewing>>
  /\ UNCHANGED <<kind, lan, nv, iface, routes, bound, changed, told>>

(* "config": zcip has found a free address; it comes with no gateway.       *)
ZeroConfBound(ip) ==
  /\ pc = "idle" /\ ~bound /\ ZeroConf
  /\ bound' = TRUE
  /\ lease' = [ip |-> ip, mask |-> None, router |-> None, rfc |-> None]
  /\ nv' = [nv EXCEPT !.ip = ip, !.mask = ClassB, !.gw = None]
  /\ iface' = [ip |-> ip, mask |-> ClassB] /\ routes' = {}
  /\ UNCHANGED <<kind, lan, script, told>>

(* "deconfig": the lease is lost.  IPTV's script does nothing, and PPTP and *)
(* L2TP keep the address under their tunnel.                                *)
Deconfig ==
  /\ pc = "idle" /\ bound
  /\ bound' = FALSE
  /\ \/ (Iptv \/ kind = "man_tunnel") /\ UNCHANGED <<nv, iface, routes>>
     \/ /\ kind = "wan"
        /\ Ifconfig(NoAddress) /\ UNCHANGED nv
     \/ /\ kind \in {"man_pppoe", "man_zcip"}
        /\ Ifconfig(NoAddress) /\ nv' = [nv EXCEPT !.ip = None]
  /\ UNCHANGED <<kind, lan, lease, script, told>>

(* stop_wan takes the interface down, reset_wan_vars clears what nvram has  *)
(* of the lease, and a new client starts.  IPTV's interface may be one that *)
(* stays.                                                                   *)
Restart ==
  /\ pc = "idle"
  /\ bound' = FALSE /\ nv' = Cleared
  /\ iface' \in {NoAddress} \cup (IF Iptv THEN {iface} ELSE {})
  /\ routes' = {}
  /\ UNCHANGED <<kind, lan, lease, script, told>>

(* httpd.                                                                   *)
EditLan ==
  /\ lan' \in Lans \ {lan}
  /\ UNCHANGED <<kind, nv, iface, routes, client, script, told>>

Next ==
  \/ Store \/ Configure \/ Assign
  \/ (\E l \in Leases : Bound(l) \/ Renew(l))
  \/ (\E ip \in Addrs : ZeroConfBound(ip))
  \/ Deconfig \/ Restart \/ EditLan

Spec == Init /\ [][Next]_vars

-----------------------------------------------------------------------------
TypeOK ==
  /\ kind \in Kinds /\ lan \in Lans
  /\ nv \in [ip : OrNone(Addrs), mask : OrNone(Masks), gw : OrNone(Gateways),
             err : {0, 1}]
  /\ iface \in [ip : OrNone(Addrs), mask : OrNone(Masks)]
  /\ routes \subseteq Gateways
  /\ bound \in BOOLEAN /\ lease \in Leases
  /\ pc \in {"idle", "store", "configure", "assign"}
  /\ renewing \in BOOLEAN /\ changed \in BOOLEAN
  /\ told \subseteq Addrs \X Gateways

(* The client holds a lease, its script is over and no error is shown.      *)
Working == pc = "idle" /\ bound /\ nv.err = 0

(* Then the interface has exactly the address of the lease, although a      *)
(* renew never looks at it: a renew in conflict with the LAN leaves an      *)
(* address in nvram that the interface has not, and the next one would take *)
(* it for configured, but the error stays.                                  *)
LeaseOnInterface ==
  Working => /\ iface = [ip |-> lease.ip, mask |-> nv.mask]
             /\ nv.ip = lease.ip
             /\ lease.mask # None => nv.mask = lease.mask

(* And there is a default route over the router of the lease, however many  *)
(* renews changed it or left it out before.                                 *)
RouteToRouter ==
  Working /\ lease.router # None => nv.gw = lease.router /\ lease.router \in routes

(* Every default route is one that a lease of the interface's address has   *)
(* named ("Set default route to gateway if specified", wan_up).             *)
RouteIfSpecified == \A g \in routes : <<iface.ip, g>> \in told

(* It is so for IPTV, where a lease without router clears the gateway.      *)
IptvRouteIfSpecified == Iptv => RouteIfSpecified

(* Why: nvram and interface agree with the lease outside of a script, and   *)
(* in the middle of one nvram is already what the lease left.               *)
LeaseInv ==
  /\ LeaseOnInterface
  /\ Working /\ nv.gw # None => nv.gw \in routes
  /\ Working /\ lease.router # None => nv.gw = lease.router
  /\ pc \in {"configure", "assign"} =>
       /\ nv.ip = lease.ip
       /\ lease.mask # None => nv.mask = lease.mask
       /\ lease.router # None => nv.gw = lease.router
  /\ pc # "idle" => bound /\ ~ZeroConf
  /\ ZeroConf => lease.mask = None /\ lease.router = None

IptvInv ==
  Iptv => /\ RouteIfSpecified
          /\ pc \in {"configure", "assign"} /\ nv.gw # None => <<nv.ip, nv.gw>> \in told
=============================================================================
