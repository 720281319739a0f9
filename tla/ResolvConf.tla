----------------------------- MODULE ResolvConf -----------------------------
(***************************************************************************)
(* The resolver's configuration: update_resolvconf (net_wan.c) collects    *)
(* the DNS servers of the VPN client, of WAN and of MAN from nvram into    *)
(* /etc/resolv.conf and has dnsmasq restarted when they changed.  Init     *)
(* runs it, and so does every script of a DHCP, PPP or VPN client, each in *)
(* a process of its own; they share one temporary file and a lock file.    *)
(*                                                                         *)
(* A list of servers in nvram is one server, or None; the file is the      *)
(* sequence of those printed.  dnsmasq, the lock file, the VPN client's    *)
(* script and pppd's are not in src/.  IPv6 servers and a failing fopen    *)
(* are left out.                                                           *)
(***************************************************************************)
EXTENDS Naturals, Sequences

CONSTANTS
  Scripts,  (* the processes that run clients' scripts                     *)
  Rc,       (* init                                                        *)
  Servers,  (* the DNS servers a client can be given                       *)
  Manual,   (* those the user has set, wan_dns1_x and the others           *)
  Google,   (* google_dns, used when there is no other                     *)
  None      (* an empty nvram variable; no process                         *)

ASSUME RcAssumption == Rc \notin Scripts /\ None \notin Scripts \cup {Rc}
ASSUME ServerAssumption == None \notin Servers \cup {Manual, Google}

VARIABLES
  pdns, dns_static, is_ipoe, modem, (* vpnc_pdns, get_wan_dns_static(), a  *)
                   (* static or DHCP protocol, get_usb_modem_wan(0)        *)
  overlap,         (* scripts of killed clients may outlive stop_wan       *)
  vpn_dns, wan_dns, man_dns, (* vpnc_dns_t, wan0_dns and wanx_dns          *)
  conf, temp,      (* /etc/resolv.conf, resolv.tmp; <<>> when not there    *)
  lock,            (* the holder of the lock file "resolv", or None        *)
  loaded,          (* the servers dnsmasq read when it was last restarted  *)
  pc,              (* the step each process is at                          *)
  is_first_run, out, resolv_changed, (* its locals; out is printed to fp   *)
  silent           (* history: a server was stored or cleared by a handler *)
                   (* that does not update resolv.conf, and nobody else    *)
                   (* has read it since                                    *)

config == <<pdns, dns_static, is_ipoe, modem, overlap>>
dns == <<vpn_dns, wan_dns, man_dns>>
files == <<conf, temp>>
locals == <<is_first_run, out, resolv_changed>>
vars == <<config, dns, files, lock, loaded, pc, locals, silent>>

Procs == Scripts \cup {Rc}
Steps == {"idle", "down", "lock", "open", "print", "rename", "unlock", "notify"}

Init ==
  /\ pdns \in 0..2 /\ dns_static \in BOOLEAN
  /\ is_ipoe \in BOOLEAN /\ modem \in BOOLEAN /\ overlap \in BOOLEAN
  /\ vpn_dns = None /\ wan_dns = None /\ man_dns = None
  /\ conf = <<>> /\ temp = <<>> /\ lock = None /\ loaded = <<>>
  /\ pc = [p \in Procs |-> "idle"]
  /\ is_first_run = [p \in Procs |-> FALSE]
  /\ out = [p \in Procs |-> <<>>]
  /\ resolv_changed = [p \in Procs |-> FALSE]
  /\ silent = TRUE (* before the first start_wan there is no file          *)

-----------------------------------------------------------------------------
(* Mutant: is_valid_ipv4 is not asked.                                      *)
PrintedAlways(s) == <<s>>

Printed(s) == IF s = None THEN <<>> ELSE <<s>>

(* DNS servers for static VPN client.                                       *)
VpnServers(first) == IF ~first /\ pdns > 0 THEN Printed(vpn_dns) ELSE <<>>

(* DNS servers for WAN/MAN, after those in fp.                              *)
WanServers(first, fp) ==
  IF pdns = 2 /\ fp # <<>> THEN <<>>
  ELSE IF dns_static THEN Printed(Manual)
  ELSE IF first THEN <<>>
  ELSE Printed(IF wan_dns = None THEN man_dns ELSE wan_dns)

(* The whole file, when fp holds the VPN client's servers.                  *)
Complete(first, fp) ==
  LET list == fp \o WanServers(first, fp)
  IN IF list = <<>> THEN <<Google>> ELSE list

Goto(p, from, to) == pc[p] = from /\ pc' = [pc EXCEPT ![p] = to]

-----------------------------------------------------------------------------
(* Who calls update_resolvconf, and what is stored before.                  *)

(* The first run comes after stop_wan has killed the clients and before     *)
(* start_wan launches them: then only a script that outlives its client     *)
(* does anything.                                                           *)
MayStart(p) == overlap \/ p = Rc \/ ~is_first_run[Rc]
AllIdle == \A p \in Procs : pc[p] = "idle"

(* A lease is bound or renewed, with or without servers of its own, zcip    *)
(* takes an address, ppp or the VPN client comes up or goes down.  A static *)
(* WAN that init brings up itself has nothing to store.                     *)
StoreServers(p) ==
  /\ MayStart(p) /\ Goto(p, "idle", "lock")
  /\ \/ UNCHANGED dns
     \/ p # Rc /\ wan_dns' \in Servers \cup {None} /\ UNCHANGED <<vpn_dns, man_dns>>
     \/ p # Rc /\ man_dns' \in Servers \cup {None} /\ UNCHANGED <<vpn_dns, wan_dns>>
     \/ p # Rc /\ vpn_dns' \in Servers \cup {None} /\ UNCHANGED <<wan_dns, man_dns>>
  /\ UNCHANGED <<config, files, lock, loaded, locals, silent>>

(* udhcpc_bound stores the servers of a lease in conflict with the LAN and  *)
(* goes no further; clear_wan_state forgets the VPN client's.               *)
StoreSilently(p) ==
  /\ MayStart(p) /\ pc[p] = "idle"
  /\ \/ p # Rc /\ wan_dns' \in Servers /\ UNCHANGED <<vpn_dns, man_dns>>
     \/ p # Rc /\ man_dns' \in Servers /\ UNCHANGED <<vpn_dns, wan_dns>>
     \/ p = Rc /\ vpn_dns' = None /\ UNCHANGED <<wan_dns, man_dns>>
  /\ silent' = TRUE
  /\ UNCHANGED <<config, files, lock, loaded, pc, locals>>

(* wan_down, first the VPN client's servers ...                             *)
WanDown(p) ==
  /\ MayStart(p) /\ Goto(p, "idle", "down")
  /\ vpn_dns' = None
  /\ UNCHANGED <<config, wan_dns, man_dns, files, lock, loaded, locals, silent>>

(* ... then WAN's, unless a ppp link on demand would be left without any.   *)
ForgetServers(p) ==
  /\ Goto(p, "down", "lock")
  /\ wan_dns' = IF is_ipoe \/ man_dns # None THEN None ELSE wan_dns
  /\ UNCHANGED <<config, vpn_dns, man_dns, files, lock, loaded, locals, silent>>

(* Mutant: clear_wan_state leaves vpnc_dns_t.                               *)
StartWanKeepsVpn ==
  /\ overlap \/ AllIdle
  /\ Goto(Rc, "idle", "lock")
  /\ wan_dns' = None /\ man_dns' = None
  /\ is_first_run' = [is_first_run EXCEPT ![Rc] = TRUE]
  /\ UNCHANGED <<config, vpn_dns, files, lock, loaded, out, resolv_changed, silent>>

(* start_wan: reset_wan_vars forgets all servers, then comes the first run. *)
StartWan ==
  /\ overlap \/ AllIdle
  /\ Goto(Rc, "idle", "lock")
  /\ vpn_dns' = None /\ wan_dns' = None /\ man_dns' = None
  /\ is_first_run' = [is_first_run EXCEPT ![Rc] = TRUE]
  /\ UNCHANGED <<config, files, lock, loaded, out, resolv_changed, silent>>

-----------------------------------------------------------------------------
(* update_resolvconf.                                                       *)

(* Mutant: the lock is only tried for.                                      *)
FileLockTries(p) ==
  /\ Goto(p, "lock", "open")
  /\ lock' = p
  /\ UNCHANGED <<config, dns, files, loaded, locals, silent>>

FileLock(p) ==
  /\ Goto(p, "lock", "open")
  /\ lock = None /\ lock' = p
  /\ UNCHANGED <<config, dns, files, loaded, locals, silent>>

(* The file is truncated: resolv.conf itself in the first run.              *)
Open(p) ==
  /\ Goto(p, "open", "print")
  /\ out' = [out EXCEPT ![p] = VpnServers(is_first_run[p])]
  /\ IF is_first_run[p] THEN conf' = <<>> /\ temp' = temp
                        ELSE temp' = <<>> /\ conf' = conf
  /\ silent' = FALSE
  /\ UNCHANGED <<config, dns, lock, loaded, is_first_run, resolv_changed>>

(* Mutant: static servers do not count as a change in the first run.        *)
PrintServersTellsNobody(p) ==
  LET first == is_first_run[p]
      text == Complete(first, out[p])
  IN /\ Goto(p, "print", IF first THEN "unlock" ELSE "rename")
     /\ out' = [out EXCEPT ![p] = text]
     /\ IF first THEN conf' = text /\ temp' = temp
                 ELSE temp' = text /\ conf' = conf
     /\ UNCHANGED <<config, dns, lock, loaded, is_first_run, resolv_changed, silent>>

PrintServers(p) ==
  LET first == is_first_run[p]
      text == Complete(first, out[p])
  IN /\ Goto(p, "print", IF first THEN "unlock" ELSE "rename")
     /\ out' = [out EXCEPT ![p] = text]
     /\ IF first THEN conf' = text /\ temp' = temp
                 ELSE temp' = text /\ conf' = conf
     /\ resolv_changed' = [resolv_changed EXCEPT ![p] = first /\ dns_static]
     /\ UNCHANGED <<config, dns, lock, loaded, is_first_run, silent>>

(* Mutant: an update that changes nothing returns early, with the lock.     *)
RenameReturns(p) ==
  /\ IF conf = temp THEN Goto(p, "rename", "idle") ELSE Goto(p, "rename", "unlock")
  /\ conf' = temp /\ temp' = <<>>
  /\ resolv_changed' = [resolv_changed EXCEPT ![p] = conf # temp]
  /\ UNCHANGED <<config, dns, lock, loaded, is_first_run, out, silent>>

Rename(p) ==
  /\ Goto(p, "rename", "unlock")
  /\ conf' = temp /\ temp' = <<>>
  /\ resolv_changed' = [resolv_changed EXCEPT ![p] = conf # temp]
  /\ UNCHANGED <<config, dns, lock, loaded, is_first_run, out, silent>>

FileUnlock(p) ==
  /\ Goto(p, "unlock", "notify")
  /\ lock' = None
  /\ UNCHANGED <<config, dns, files, loaded, locals, silent>>

(* dnsmasq is restarted when the file changed, and always for a modem.      *)
Notify(p) ==
  /\ Goto(p, "notify", "idle")
  /\ loaded' = IF resolv_changed[p] \/ modem THEN conf ELSE loaded
  /\ is_first_run' = [is_first_run EXCEPT ![p] = FALSE]
  /\ out' = [out EXCEPT ![p] = <<>>]
  /\ resolv_changed' = [resolv_changed EXCEPT ![p] = FALSE]
  /\ UNCHANGED <<config, dns, files, lock, silent>>

Update(p) ==
  \/ FileLock(p) \/ Open(p) \/ PrintServers(p) \/ Rename(p) \/ FileUnlock(p) \/ Notify(p)

Next ==
  \/ StartWan
  \/ \E p \in Procs :
       \/ StoreServers(p) \/ StoreSilently(p) \/ WanDown(p) \/ ForgetServers(p)
       \/ Update(p)

Spec == Init /\ [][Next]_vars

(* A process that can run runs; one that waits for the lock gets it after   *)
(* others have had it often enough.                                         *)
FairSpec ==
  /\ Spec
  /\ \A p \in Procs : WF_vars(ForgetServers(p) \/ Update(p)) /\ SF_vars(FileLock(p))

-----------------------------------------------------------------------------
TypeOK ==
  /\ pdns \in 0..2 /\ dns_static \in BOOLEAN
  /\ is_ipoe \in BOOLEAN /\ modem \in BOOLEAN /\ overlap \in BOOLEAN
  /\ vpn_dns \in Servers \cup {None} /\ wan_dns \in Servers \cup {None}
  /\ man_dns \in Servers \cup {None}
  /\ conf \in Seq(Servers \cup {Manual, Google})
  /\ temp \in Seq(Servers \cup {Manual, Google})
  /\ loaded \in Seq(Servers \cup {Manual, Google})
  /\ lock \in Procs \cup {None}
  /\ pc \in [Procs -> Steps]
  /\ is_first_run \in [Procs -> BOOLEAN]
  /\ out \in [Procs -> Seq(Servers \cup {Manual, Google})]
  /\ resolv_changed \in [Procs -> BOOLEAN]
  /\ silent \in BOOLEAN

(* The temporary file that a process renames over resolv.conf is the one it *)
(* has written itself and to the end, never another's or half of one.       *)
RenamesOwnFile == [][\A p \in Procs : Rename(p) => conf' = out[p]]_vars

(* When all updates are over, resolv.conf is what one would write now: the  *)
(* last of several scripts to store a server is not overtaken by an earlier *)
(* one that read nvram before it.  Needs that scripts do not outlive their  *)
(* clients.                                                                 *)
Settled == AllIdle /\ ~silent /\ ~overlap => conf = Complete(FALSE, VpnServers(FALSE))

(* When all updates are over, dnsmasq has read the resolv.conf that is      *)
(* there, unless it lists no more than the fallback of the first run, about *)
(* which dnsmasq is not told.                                               *)
DnsmasqInformed == AllIdle /\ conf \notin {<<>>, <<Google>>} => loaded = conf

(* An update that has begun ends: the lock is always given back.            *)
UpdatesEnd == \A p \in Procs : pc[p] # "idle" ~> pc[p] = "idle"

-----------------------------------------------------------------------------
(* Why they hold; the proofs are in ResolvConfProofs.                       *)

Holding == {"open", "print", "rename", "unlock"}

(* Who is between file_lock and file_unlock holds the lock, alone, and the  *)
(* temporary file is then its own.                                          *)
LockInv ==
  /\ \A p \in Procs : (pc[p] \in Holding) <=> (lock = p)
  /\ \A p \in Procs : (pc[p] = "rename") => (temp = out[p])

(* Only init makes the first run, which does not look at the VPN client,    *)
(* and without overlap nothing else happens meanwhile.                      *)
FirstInv ==
  /\ \A p \in Procs : is_first_run[p] =>
       p = Rc /\ pc[p] \in {"lock", "open", "print", "unlock", "notify"}
  /\ \A p \in Procs : is_first_run[p] /\ pc[p] = "print" => out[p] = <<>>
  /\ (~overlap /\ is_first_run[Rc]) =>
       /\ vpn_dns = None /\ wan_dns = None /\ man_dns = None
       /\ \A p \in Scripts : pc[p] = "idle"

(* The file that an update would write now.                                 *)
Current == Complete(FALSE, VpnServers(FALSE))

(* When everyone who stored a server has since read nvram, what is printed, *)
(* in the temporary file or in resolv.conf is current.                      *)
SettledInv ==
  (~overlap /\ ~silent /\ \A p \in Procs : pc[p] \notin {"down", "lock", "open"}) =>
    /\ \A p \in Procs : pc[p] = "print" => out[p] = VpnServers(FALSE)
    /\ \A p \in Procs : pc[p] = "rename" => temp = Current
    /\ (\A p \in Procs : pc[p] \notin {"print", "rename"}) => conf = Current

(* A file that dnsmasq has not read was written by a process that will      *)
(* restart it.                                                              *)
InformedInv ==
  \/ conf \in {<<>>, <<Google>>} \/ loaded = conf
  \/ \E p \in Procs : pc[p] \in {"unlock", "notify"} /\ resolv_changed[p]
=============================================================================
