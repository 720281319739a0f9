-------------------------- MODULE DhcpLeaseProofs ---------------------------
(* Proofs about the data of a lease, for any addresses, masks, gateways and *)
(* LAN subnets, and any relation between them.                              *)
EXTENDS DhcpLease, TLAPS

(* What is stored of a lease is of the type of nvram.                       *)
LEMMA StoredType ==
  ASSUME TypeOK, NEW l \in Leases
  PROVE  Stored(l) \in [ip : OrNone(Addrs), mask : OrNone(Masks),
                        gw : OrNone(Gateways), err : {0, 1}]
BY ClassBAssumption DEF TypeOK, Stored, NamedGateway, Leases, OrNone

LEMMA ClearedType ==
  /\ NoAddress \in [ip : OrNone(Addrs), mask : OrNone(Masks)]
  /\ Cleared \in [ip : OrNone(Addrs), mask : OrNone(Masks), gw : OrNone(Gateways),
                  err : {0, 1}]
BY DEF NoAddress, Cleared, OrNone

(* Every variable keeps its type: no route over something that is not a     *)
(* gateway.                                                                 *)
THEOREM TypeCorrect == Spec => []TypeOK
<1> USE DEF TypeOK
<1>1. Init => TypeOK
  <2> SUFFICES ASSUME Init PROVE TypeOK
    OBVIOUS
  <2>1. lease \in Leases
    BY DEF Init, Leases, OrNone
  <2>2. QED
    BY <2>1, ClearedType DEF Init
<1>2. TypeOK /\ [Next]_vars => TypeOK'
  <2> SUFFICES ASSUME TypeOK, [Next]_vars PROVE TypeOK'
    OBVIOUS
  <2> USE DEF script, client
  <2>1. CASE Store
    <3>1. Stored(lease) \in [ip : OrNone(Addrs), mask : OrNone(Masks),
                             gw : OrNone(Gateways), err : {0, 1}]
      BY StoredType
    <3>2. told' \subseteq Addrs \X Gateways /\ changed' \in BOOLEAN
      BY <2>1 DEF Store
    <3>3. QED
      BY <2>1, <3>1, <3>2 DEF Store
  <2>2. CASE Configure
    <3>1. CASE Refuse
      <4>1. nv' \in [ip : OrNone(Addrs), mask : OrNone(Masks),
                     gw : OrNone(Gateways), err : {0, 1}]
        BY <3>1 DEF Refuse
      <4>2. iface' \in [ip : OrNone(Addrs), mask : OrNone(Masks)]
            /\ routes' \subseteq Gateways
        BY <3>1, ClearedType DEF Refuse, Ifconfig
      <4>3. QED
        BY <2>2, <4>1, <4>2 DEF Configure
    <3>2. CASE Accept
      <4>1. iface' \in [ip : OrNone(Addrs), mask : OrNone(Masks)]
            /\ routes' \subseteq Gateways
        BY <3>2, ClearedType DEF Accept, Ifconfig
      <4>2. nv' = nv
        BY <3>2 DEF Accept
      <4>3. QED
        BY <2>2, <4>1, <4>2 DEF Configure
    <3>3. QED
      BY <2>2, <3>1, <3>2 DEF Configure
  <2>3. CASE Assign
    BY <2>3 DEF Assign, OrNone
  <2>4. ASSUME NEW l \in Leases, Bound(l) PROVE TypeOK'
    BY <2>4 DEF Bound
  <2>5. ASSUME NEW l \in Leases, Renew(l) PROVE TypeOK'
    BY <2>5 DEF Renew
  <2>6. ASSUME NEW ip \in Addrs, ZeroConfBound(ip) PROVE TypeOK'
    BY <2>6, ClassBAssumption DEF ZeroConfBound, Leases, OrNone
  <2>7. CASE Deconfig
    <3>1. nv' \in [ip : OrNone(Addrs), mask : OrNone(Masks),
                   gw : OrNone(Gateways), err : {0, 1}]
      BY <2>7 DEF Deconfig, OrNone
    <3>2. iface' \in [ip : OrNone(Addrs), mask : OrNone(Masks)]
          /\ routes' \subseteq Gateways
      BY <2>7, ClearedType DEF Deconfig, Ifconfig
    <3>3. QED
      BY <2>7, <3>1, <3>2 DEF Deconfig
  <2>8. CASE Restart
    BY <2>8, ClearedType DEF Restart
  <2>9. CASE EditLan
    BY <2>9 DEF EditLan
  <2>10. CASE UNCHANGED vars
    BY <2>10 DEF vars
  <2>11. QED
    BY <2>1, <2>2, <2>3, <2>4, <2>5, <2>6, <2>7, <2>8, <2>9, <2>10 DEF Next
<1>3. QED
  BY <1>1, <1>2, PTL DEF Spec

(* What nvram has of a lease once it is stored.                             *)
LEMMA StoredNames ==
  ASSUME NEW l \in Leases
  PROVE  /\ Stored(l).ip = l.ip /\ Stored(l).err = nv.err
         /\ l.mask # None => Stored(l).mask = l.mask
         /\ l.router # None => Stored(l).gw = l.router
BY DEF Stored, NamedGateway

(* The script leaves what it does not configure in nvram as it is.          *)
LEMMA ConfigureKeeps ==
  ASSUME TypeOK, Configure \/ Assign
  PROVE  nv'.ip = nv.ip /\ nv'.mask = nv.mask /\ nv'.gw = nv.gw
BY DEF TypeOK, Configure, Refuse, Accept, Assign

LEMMA LeaseInvHolds == Spec => []LeaseInv
<1> USE DEF LeaseInv, LeaseOnInterface, Working, script, client
<1>1. Init => LeaseInv
  BY DEF Init, Cleared
<1>2. TypeOK /\ LeaseInv /\ [Next]_vars => LeaseInv'
  <2> SUFFICES ASSUME TypeOK, LeaseInv, [Next]_vars PROVE LeaseInv'
    OBVIOUS
  <2> USE DEF ZeroConf
  <2>1. CASE Store
    <3>1. lease \in Leases
      BY DEF TypeOK
    <3>2. pc' = "configure" /\ nv' = Stored(lease) /\ UNCHANGED <<kind, bound, lease>>
      BY <2>1 DEF Store
    <3>3. bound /\ ~ZeroConf
      BY <2>1 DEF Store
    <3>4. QED
      BY <3>1, <3>2, <3>3, StoredNames
  <2>2. CASE Configure
    <3>1. pc = "configure" /\ UNCHANGED <<kind, bound, lease>>
      BY <2>2 DEF Configure
    <3>2. CASE Refuse /\ pc' = "idle"
      <4>1. nv'.err = 1
        BY <3>2 DEF Refuse, TypeOK
      <4>2. QED
        BY <3>1, <3>2, <4>1
    <3>3. CASE pc' = "assign"
      BY <2>2, <3>1, <3>3, ConfigureKeeps
    <3>4. QED
      BY <2>2, <3>2, <3>3 DEF Configure
  <2>3. CASE Assign
    <3>1. /\ pc = "assign" /\ pc' = "idle" /\ UNCHANGED <<kind, bound, lease>>
          /\ iface' = [ip |-> nv.ip, mask |-> nv.mask]
          /\ nv.gw # None => nv.gw \in routes'
      BY <2>3 DEF Assign
    <3>2. QED
      BY <2>3, <3>1, ConfigureKeeps
  <2>4. ASSUME NEW l \in Leases, Bound(l) PROVE LeaseInv'
    BY <2>4 DEF Bound
  <2>5. ASSUME NEW l \in Leases, Renew(l) PROVE LeaseInv'
    <3>1. CASE Differs(l)
      BY <2>5, <3>1 DEF Renew
    <3>2. CASE ~Differs(l)
      <4>1. /\ l.ip = nv.ip
            /\ l.mask # None => l.mask = nv.mask
            /\ l.router # None => l.router = nv.gw
        BY <3>2 DEF Differs
      <4>2. /\ lease' = l /\ pc = "idle" /\ bound /\ ~ZeroConf
            /\ UNCHANGED <<kind, nv, iface, routes, bound, pc>>
        BY <2>5, <3>2 DEF Renew
      <4>3. QED
        BY <4>1, <4>2
    <3>3. QED
      BY <3>1, <3>2
  <2>6. ASSUME NEW ip \in Addrs, ZeroConfBound(ip) PROVE LeaseInv'
    BY <2>6 DEF ZeroConfBound, TypeOK
  <2>7. CASE Deconfig
    BY <2>7 DEF Deconfig
  <2>8. CASE Restart
    BY <2>8 DEF Restart
  <2>9. CASE EditLan
    BY <2>9 DEF EditLan
  <2>10. CASE UNCHANGED vars
    BY <2>10 DEF vars
  <2>11. QED
    BY <2>1, <2>2, <2>3, <2>4, <2>5, <2>6, <2>7, <2>8, <2>9, <2>10 DEF Next
<1>3. QED
  BY <1>1, <1>2, TypeCorrect, PTL DEF Spec

(* Unless an error is shown, the interface has the address of the lease     *)
(* whenever its script is over.                                             *)
THEOREM LeaseHonoured == Spec => []LeaseOnInterface
<1>1. LeaseInv => LeaseOnInterface
  BY DEF LeaseInv
<1>2. QED
  BY <1>1, LeaseInvHolds, PTL

(* And a default route over the router that the lease names.                *)
THEOREM RouterRouted == Spec => []RouteToRouter
<1>1. LeaseInv => RouteToRouter
  BY DEF LeaseInv, RouteToRouter
<1>2. QED
  BY <1>1, LeaseInvHolds, PTL

-----------------------------------------------------------------------------
(* IPTV never has a default route over the gateway of another address.      *)
THEOREM IptvRouted == Spec => []IptvRouteIfSpecified
<1> USE DEF IptvInv, RouteIfSpecified, Iptv, script, client
<1>1. Init => IptvInv
  BY DEF Init
<1>2. TypeOK /\ LeaseInv /\ IptvInv /\ [Next]_vars => IptvInv'
  <2> SUFFICES ASSUME TypeOK, LeaseInv, IptvInv, Iptv, [Next]_vars PROVE IptvInv'
    BY DEF Next, Store, Configure, Assign, Bound, Renew, ZeroConfBound, Deconfig, Restart,
           EditLan, vars
  <2>1. CASE Store
    <3>1. /\ nv' = Stored(lease) /\ UNCHANGED <<iface, routes>>
          /\ told' = told \cup ({<<lease.ip, NamedGateway(lease)>>}
                                 \cap (Addrs \X Gateways))
      BY <2>1 DEF Store
    <3>2. nv'.ip = lease.ip /\ nv'.gw = lease.router
      BY <3>1 DEF Stored, NamedGateway
    <3>3. lease.ip \in Addrs /\ lease.router \in Gateways \cup {None}
      BY DEF TypeOK, Leases, OrNone
    <3>4. NamedGateway(lease) = lease.router
      BY DEF NamedGateway
    <3>5. nv'.gw # None => <<nv'.ip, nv'.gw>> \in told'
      BY <3>1, <3>2, <3>3, <3>4
    <3>6. QED
      BY <3>1, <3>5
  <2>2. CASE Configure
    <3>1. pc' \in {"idle", "assign"} /\ pc = "configure" /\ told' = told
      BY <2>2 DEF Configure
    <3>2. CASE Refuse /\ pc' = "idle"
      BY <3>1, <3>2 DEF Refuse, Ifconfig
    <3>3. CASE Accept
      BY <3>1, <3>3 DEF Accept, Ifconfig
    <3>4. QED
      BY <2>2, <3>2, <3>3 DEF Configure
  <2>3. CASE Assign
    <3>1. pc' = "idle" /\ pc = "assign" /\ told' = told
      BY <2>3 DEF Assign
    <3>2. /\ iface' = [ip |-> nv.ip, mask |-> nv.mask]
          /\ routes' \subseteq (IF iface' = iface THEN routes ELSE {})
                                 \cup ({nv.gw} \ {None})
      BY <2>3 DEF Assign
    <3>3. iface'.ip = nv.ip
      BY <3>2
    <3>4. QED
      BY <3>1, <3>2, <3>3
  <2>4. ASSUME NEW l \in Leases, Bound(l) PROVE IptvInv'
    BY <2>4 DEF Bound
  <2>5. ASSUME NEW l \in Leases, Renew(l) PROVE IptvInv'
    BY <2>5 DEF Renew
  <2>6. ASSUME NEW ip \in Addrs, ZeroConfBound(ip) PROVE IptvInv'
    BY <2>6 DEF ZeroConfBound
  <2>7. CASE Deconfig
    BY <2>7 DEF Deconfig, Ifconfig
  <2>8. CASE Restart
    BY <2>8 DEF Restart
  <2>9. CASE EditLan
    BY <2>9 DEF EditLan
  <2>10. CASE UNCHANGED vars
    BY <2>10 DEF vars
  <2>11. QED
    BY <2>1, <2>2, <2>3, <2>4, <2>5, <2>6, <2>7, <2>8, <2>9, <2>10 DEF Next
<1>3. IptvInv => IptvRouteIfSpecified
  BY DEF IptvRouteIfSpecified
<1>4. QED
  BY <1>1, <1>2, <1>3, TypeCorrect, LeaseInvHolds, PTL DEF Spec
=============================================================================
