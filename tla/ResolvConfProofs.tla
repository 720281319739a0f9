-------------------------- MODULE ResolvConfProofs --------------------------
(* Proofs about resolv.conf, for any number of scripts and any servers.     *)
EXTENDS ResolvConf, TLAPS

Texts == Seq(Servers \cup {Manual, Google})

(* What is printed for a variable and what an update writes are texts.      *)
LEMMA CompleteType ==
  ASSUME TypeOK, NEW first \in BOOLEAN, NEW fp \in Texts
  PROVE  VpnServers(first) \in Texts /\ Complete(first, fp) \in Texts
<1>1. \A s \in Servers \cup {Manual, None} : Printed(s) \in Texts
  <2>1. \A s \in Servers \cup {Manual} : <<s>> \in Texts
    BY DEF Texts
  <2>2. <<>> \in Texts
    BY DEF Texts
  <2>3. QED
    BY <2>1, <2>2 DEF Printed
<1>2. VpnServers(first) \in Texts
  BY <1>1 DEF VpnServers, TypeOK, Texts
<1>3. WanServers(first, fp) \in Texts
  BY <1>1 DEF WanServers, TypeOK, Texts
<1>4. fp \o WanServers(first, fp) \in Texts /\ <<Google>> \in Texts
  BY <1>3 DEF Texts
<1>5. Complete(first, fp) \in Texts
  BY <1>4 DEF Complete
<1>6. QED
  BY <1>2, <1>5

(* Every variable keeps its type, for any scripts and servers.              *)
THEOREM TypeCorrect == Spec => []TypeOK
<1>1. Init => TypeOK
  BY DEF Init, TypeOK, Steps
<1>2. TypeOK /\ [Next]_vars => TypeOK'
  <2> SUFFICES ASSUME TypeOK, [Next]_vars PROVE TypeOK'
    OBVIOUS
  <2> USE DEF TypeOK, Goto, Steps, config, dns, files, locals
  <2>1. CASE StartWan
    BY <2>1 DEF StartWan, Procs
  <2>2. ASSUME NEW p \in Procs, StoreServers(p) PROVE TypeOK'
    BY <2>2 DEF StoreServers
  <2>3. ASSUME NEW p \in Procs, StoreSilently(p) PROVE TypeOK'
    BY <2>3 DEF StoreSilently
  <2>4. ASSUME NEW p \in Procs, WanDown(p) PROVE TypeOK'
    BY <2>4 DEF WanDown
  <2>5. ASSUME NEW p \in Procs, ForgetServers(p) PROVE TypeOK'
    BY <2>5 DEF ForgetServers
  <2>6. ASSUME NEW p \in Procs, FileLock(p) PROVE TypeOK'
    BY <2>6 DEF FileLock
  <2>7. ASSUME NEW p \in Procs, Open(p) PROVE TypeOK'
    <3>1. is_first_run[p] \in BOOLEAN /\ <<>> \in Texts
      BY DEF Texts
    <3>2. VpnServers(is_first_run[p]) \in Texts
      BY <3>1, CompleteType
    <3>3. out' \in [Procs -> Texts]
      BY <2>7, <3>2 DEF Open, Texts
    <3>4. conf' \in Texts /\ temp' \in Texts
      BY <2>7, <3>1 DEF Open, Texts
    <3>5. QED
      BY <2>7, <3>3, <3>4 DEF Open, Texts
  <2>8. ASSUME NEW p \in Procs, PrintServers(p) PROVE TypeOK'
    <3>1. is_first_run[p] \in BOOLEAN /\ out[p] \in Texts
      BY DEF Texts
    <3>2. Complete(is_first_run[p], out[p]) \in Texts
      BY <3>1, CompleteType
    <3>3. QED
      BY <2>8, <3>2 DEF PrintServers, Texts
  <2>9. ASSUME NEW p \in Procs, Rename(p) PROVE TypeOK'
    BY <2>9 DEF Rename
  <2>10. ASSUME NEW p \in Procs, FileUnlock(p) PROVE TypeOK'
    BY <2>10 DEF FileUnlock
  <2>11. ASSUME NEW p \in Procs, Notify(p) PROVE TypeOK'
    BY <2>11 DEF Notify
  <2>12. CASE UNCHANGED vars
    BY <2>12 DEF vars
  <2>13. QED
    BY <2>1, <2>2, <2>3, <2>4, <2>5, <2>6, <2>7, <2>8, <2>9, <2>10, <2>11,
       <2>12 DEF Next, Update
<1>3. QED
  BY <1>1, <1>2, PTL DEF Spec

(* The steps that neither take nor give back the lock, nor touch what it    *)
(* protects.                                                                *)
Outside(p) ==
  \/ StoreServers(p) \/ StoreSilently(p) \/ WanDown(p) \/ ForgetServers(p)
  \/ Notify(p)

(* The lock is held by the one process that is between file_lock and        *)
(* file_unlock.                                                             *)
LEMMA LockStep == TypeOK /\ LockInv /\ [Next]_vars => LockInv'
<1> SUFFICES ASSUME TypeOK, LockInv, [Next]_vars PROVE LockInv'
  OBVIOUS
<1> USE DEF TypeOK, LockInv, Goto, Holding, Steps, config, dns, files, locals
<1>1. CASE StartWan
  BY <1>1 DEF StartWan, Procs
<1>2. ASSUME NEW p \in Procs, Outside(p) PROVE LockInv'
  BY <1>2 DEF Outside, StoreServers, StoreSilently, WanDown, ForgetServers, Notify
<1>3. ASSUME NEW p \in Procs, FileLock(p) PROVE LockInv'
  BY <1>3, RcAssumption DEF FileLock, Procs
<1>4. ASSUME NEW p \in Procs, Open(p) PROVE LockInv'
  BY <1>4 DEF Open
<1>5. ASSUME NEW p \in Procs, PrintServers(p) PROVE LockInv'
  BY <1>5 DEF PrintServers
<1>6. ASSUME NEW p \in Procs, Rename(p) PROVE LockInv'
  BY <1>6 DEF Rename
<1>7. ASSUME NEW p \in Procs, FileUnlock(p) PROVE LockInv'
  BY <1>7, RcAssumption DEF FileUnlock, Procs
<1>8. CASE UNCHANGED vars
  BY <1>8 DEF vars
<1>9. QED
  BY <1>1, <1>2, <1>3, <1>4, <1>5, <1>6, <1>7, <1>8 DEF Next, Update, Outside

THEOREM LockCorrect == Spec => []LockInv
<1>1. Init => LockInv
  BY RcAssumption DEF Init, LockInv, Holding, Procs
<1>2. QED
  BY <1>1, LockStep, TypeCorrect, PTL DEF Spec

(* A process renames over resolv.conf the temporary file it has itself      *)
(* written to the end.                                                      *)
THEOREM OwnFile == Spec => RenamesOwnFile
<1>1. LockInv /\ [Next]_vars => [\A p \in Procs : Rename(p) => conf' = out[p]]_vars
  BY DEF LockInv, Rename, Goto
<1>2. QED
  BY <1>1, LockCorrect, PTL DEF Spec, RenamesOwnFile

-----------------------------------------------------------------------------
(* The first run is init's alone, and without overlap nothing disturbs it.  *)
LEMMA FirstStep == TypeOK /\ FirstInv /\ [Next]_vars => FirstInv'
<1> SUFFICES ASSUME TypeOK, FirstInv, [Next]_vars PROVE FirstInv'
  OBVIOUS
<1> USE RcAssumption
        DEF TypeOK, FirstInv, Goto, MayStart, Procs, config, dns, files, locals
<1>1. CASE StartWan
  BY <1>1 DEF StartWan, AllIdle
<1>2. ASSUME NEW p \in Procs, StoreServers(p) PROVE FirstInv'
  BY <1>2 DEF StoreServers
<1>3. ASSUME NEW p \in Procs, StoreSilently(p) PROVE FirstInv'
  BY <1>3 DEF StoreSilently
<1>4. ASSUME NEW p \in Procs, WanDown(p) PROVE FirstInv'
  BY <1>4 DEF WanDown
<1>5. ASSUME NEW p \in Procs, ForgetServers(p) PROVE FirstInv'
  BY <1>5 DEF ForgetServers
<1>6. ASSUME NEW p \in Procs, FileLock(p) PROVE FirstInv'
  BY <1>6 DEF FileLock
<1>7. ASSUME NEW p \in Procs, Open(p) PROVE FirstInv'
  BY <1>7 DEF Open, VpnServers
<1>8. ASSUME NEW p \in Procs, PrintServers(p) PROVE FirstInv'
  BY <1>8 DEF PrintServers
<1>9. ASSUME NEW p \in Procs, Rename(p) PROVE FirstInv'
  BY <1>9 DEF Rename
<1>10. ASSUME NEW p \in Procs, FileUnlock(p) PROVE FirstInv'
  BY <1>10 DEF FileUnlock
<1>11. ASSUME NEW p \in Procs, Notify(p) PROVE FirstInv'
  BY <1>11 DEF Notify
<1>12. CASE UNCHANGED vars
  BY <1>12 DEF vars
<1>13. QED
  BY <1>1, <1>2, <1>3, <1>4, <1>5, <1>6, <1>7, <1>8, <1>9, <1>10, <1>11, <1>12
     DEF Next, Update

(* What is printed depends on nvram alone, and not on the first run when    *)
(* all variables are empty, as they are then.                               *)
LEMMA FirstRunPrintsTheSame ==
  ASSUME vpn_dns = None, wan_dns = None, man_dns = None, NEW first \in BOOLEAN
  PROVE  /\ VpnServers(first) = <<>>
         /\ VpnServers(FALSE) = <<>>
         /\ Complete(first, <<>>) = Current
BY DEF VpnServers, Printed, Complete, WanServers, Current

LEMMA SameCurrent ==
  ASSUME UNCHANGED <<config, dns>>
  PROVE  Current' = Current /\ VpnServers(FALSE)' = VpnServers(FALSE)
BY DEF config, dns, Current, Complete, WanServers, VpnServers, Printed

(* Whoever stores a server updates resolv.conf after it; the last to read   *)
(* nvram is the last to write.                                              *)
LEMMA SettledStep ==
  TypeOK /\ LockInv /\ FirstInv /\ SettledInv /\ [Next]_vars => SettledInv'
<1> SUFFICES ASSUME TypeOK, LockInv, FirstInv, SettledInv, [Next]_vars, ~overlap
             PROVE  SettledInv'
  <2>1. (Next \/ UNCHANGED vars) => overlap' = overlap
    BY DEF Next, Update, StartWan, StoreServers, StoreSilently, WanDown, ForgetServers,
           FileLock, Open, PrintServers, Rename, FileUnlock, Notify, vars, config
  <2>2. QED
    BY <2>1 DEF SettledInv
<1> DEFINE Pending(p) == pc[p] \in {"down", "lock", "open"}
<1>1. CASE StartWan
  <2>1. Pending(Rc)' /\ Rc \in Procs
    BY <1>1 DEF StartWan, Goto, TypeOK, Procs
  <2>2. QED
    BY <2>1 DEF SettledInv
<1>2. ASSUME NEW p \in Procs, StoreServers(p) \/ WanDown(p) \/ ForgetServers(p)
      PROVE SettledInv'
  <2>1. Pending(p)'
    BY <1>2 DEF StoreServers, WanDown, ForgetServers, Goto, TypeOK
  <2>2. QED
    BY <2>1 DEF SettledInv
<1>3. ASSUME NEW p \in Procs, StoreSilently(p) PROVE SettledInv'
  BY <1>3 DEF StoreSilently, SettledInv
<1>4. ASSUME NEW p \in Procs, FileLock(p) PROVE SettledInv'
  <2>1. Pending(p)'
    BY <1>4 DEF FileLock, Goto, TypeOK
  <2>2. QED
    BY <2>1 DEF SettledInv
<1>5. ASSUME NEW p \in Procs, Open(p) PROVE SettledInv'
  <2>1. pc'[p] = "print" /\ lock = p /\ is_first_run[p] \in BOOLEAN
    BY <1>5 DEF Open, Goto, TypeOK, LockInv, Holding
  <2>2. \A q \in Procs : q # p => pc'[q] \notin {"print", "rename"}
    BY <1>5, <2>1 DEF Open, Goto, TypeOK, LockInv, Holding
  <2>3. VpnServers(is_first_run[p]) = VpnServers(FALSE)
    <3>1. CASE is_first_run[p]
      <4>1. vpn_dns = None /\ wan_dns = None /\ man_dns = None
        BY <3>1 DEF FirstInv
      <4>2. QED
        BY <4>1, <2>1, FirstRunPrintsTheSame
    <3>2. CASE ~is_first_run[p]
      BY <3>2 DEF VpnServers
    <3>3. QED
      BY <3>1, <3>2
  <2>4. UNCHANGED <<config, dns>> /\ out'[p] = VpnServers(is_first_run[p])
    BY <1>5 DEF Open, TypeOK
  <2>5. out'[p] = VpnServers(FALSE)'
    BY <2>3, <2>4, SameCurrent
  <2>6. QED
    BY <2>1, <2>2, <2>5 DEF SettledInv
<1>6. ASSUME NEW p \in Procs, PrintServers(p) PROVE SettledInv'
  <2> SUFFICES ASSUME ~silent', \A q \in Procs : ~Pending(q)'
               PROVE  /\ (\A q \in Procs : pc[q] = "print" => out[q] = VpnServers(FALSE))'
                      /\ (\A q \in Procs : pc[q] = "rename" => temp = Current)'
                      /\ ((\A q \in Procs : pc[q] \notin {"print", "rename"})
                            => conf = Current)'
    BY DEF SettledInv
  <2>1. /\ pc[p] = "print" /\ lock = p /\ is_first_run[p] \in BOOLEAN
        /\ pc' = [pc EXCEPT ![p] = IF is_first_run[p] THEN "unlock" ELSE "rename"]
    BY <1>6 DEF PrintServers, Goto, TypeOK, LockInv, Holding
  <2>2. \A q \in Procs : q # p => pc'[q] = pc[q] /\ pc[q] \notin {"print", "rename"}
    BY <2>1 DEF TypeOK, LockInv, Holding
  <2>3. ~silent /\ \A q \in Procs : ~Pending(q)
    BY <1>6, <2>1, <2>2 DEF PrintServers
  <2>4. out[p] = VpnServers(FALSE)
    BY <2>1, <2>3 DEF SettledInv
  <2>5. Complete(is_first_run[p], out[p]) = Current
    <3>1. CASE is_first_run[p]
      <4>1. vpn_dns = None /\ wan_dns = None /\ man_dns = None /\ out[p] = <<>>
        BY <2>1, <3>1 DEF FirstInv
      <4>2. QED
        BY <4>1, <2>1, FirstRunPrintsTheSame
    <3>2. CASE ~is_first_run[p]
      BY <2>1, <2>4, <3>2 DEF Current
    <3>3. QED
      BY <3>1, <3>2
  <2>6. Current' = Current
    BY <1>6, SameCurrent DEF PrintServers
  <2>7. pc'[p] = (IF is_first_run[p] THEN "unlock" ELSE "rename")
    BY <2>1 DEF TypeOK
  <2>8. CASE is_first_run[p]
    <3>1. conf' = Current
      BY <1>6, <2>5, <2>8 DEF PrintServers
    <3>2. \A q \in Procs : pc'[q] \notin {"print", "rename"}
      BY <2>2, <2>7, <2>8
    <3>3. QED
      BY <2>6, <3>1, <3>2
  <2>9. CASE ~is_first_run[p]
    <3>1. temp' = Current
      BY <1>6, <2>5, <2>9 DEF PrintServers
    <3>2. pc'[p] = "rename" /\ \A q \in Procs : pc'[q] # "print"
      BY <2>2, <2>7, <2>9
    <3>3. QED
      BY <2>6, <3>1, <3>2
  <2>10. QED
    BY <2>8, <2>9
<1>7. ASSUME NEW p \in Procs, Rename(p) PROVE SettledInv'
  <2>1. /\ pc[p] = "rename" /\ lock = p /\ conf' = temp /\ silent' = silent
        /\ pc' = [pc EXCEPT ![p] = "unlock"]
    BY <1>7 DEF Rename, Goto, LockInv, Holding
  <2>2. pc'[p] = "unlock" /\ \A q \in Procs :
          q # p => pc'[q] = pc[q] /\ pc[q] \notin {"print", "rename"}
    BY <2>1 DEF TypeOK, LockInv, Holding
  <2>3. Current' = Current
    BY <1>7, SameCurrent DEF Rename
  <2>4. (~silent /\ \A q \in Procs : ~Pending(q)) => temp = Current
    BY <2>1 DEF SettledInv
  <2>5. (\A q \in Procs : ~Pending(q)') => \A q \in Procs : ~Pending(q)
    BY <2>1, <2>2
  <2>6. QED
    BY <2>1, <2>2, <2>3, <2>4, <2>5 DEF SettledInv
<1>8. ASSUME NEW p \in Procs, FileUnlock(p) \/ Notify(p) PROVE SettledInv'
  <2>1. /\ UNCHANGED <<conf, temp, silent>> /\ UNCHANGED <<config, dns>>
        /\ \A q \in Procs : pc'[q] = pc[q] \/ (q = p /\ pc'[q] \in {"notify", "idle"})
        /\ pc[p] \in {"unlock", "notify"}
        /\ \A q \in Procs : q = p \/ out'[q] = out[q]
    BY <1>8 DEF FileUnlock, Notify, Goto, TypeOK, files, locals
  <2>2. Current' = Current /\ VpnServers(FALSE)' = VpnServers(FALSE)
    BY <2>1, SameCurrent
  <2>3. QED
    BY <2>1, <2>2 DEF SettledInv
<1>9. CASE UNCHANGED vars
  <2>1. UNCHANGED <<conf, temp, silent, pc, out>> /\ UNCHANGED <<config, dns>>
    BY <1>9 DEF vars, files, locals
  <2>2. Current' = Current /\ VpnServers(FALSE)' = VpnServers(FALSE)
    BY <2>1, SameCurrent
  <2>3. QED
    BY <2>1, <2>2 DEF SettledInv
<1>10. QED
  BY <1>1, <1>2, <1>3, <1>4, <1>5, <1>6, <1>7, <1>8, <1>9 DEF Next, Update

(* When scripts do not outlive their clients, resolv.conf is current once   *)
(* all updates are over, whatever the order in which they came.             *)
THEOREM ConfSettled == Spec => []Settled
<1>1. Init => FirstInv /\ SettledInv
  BY DEF Init, FirstInv, SettledInv, Procs
<1>2. TypeOK /\ SettledInv => Settled
  BY DEF SettledInv, Settled, AllIdle, Current
<1>3. QED
  BY <1>1, <1>2, FirstStep, SettledStep, TypeCorrect, LockCorrect, PTL DEF Spec

-----------------------------------------------------------------------------
(* A process that owes dnsmasq a restart keeps owing it until Notify.       *)
Owes(p) == pc[p] \in {"unlock", "notify"} /\ resolv_changed[p]

LEMMA InformedStep == TypeOK /\ FirstInv /\ InformedInv /\ [Next]_vars => InformedInv'
<1> SUFFICES ASSUME TypeOK, FirstInv, InformedInv, [Next]_vars PROVE InformedInv'
  OBVIOUS
<1>1. ASSUME UNCHANGED <<conf, loaded>>,
             \A q \in Procs : Owes(q) => Owes(q)'
      PROVE  InformedInv'
  BY <1>1 DEF InformedInv, Owes
<1>2. CASE StartWan
  <2>1. UNCHANGED <<conf, loaded>> /\ \A q \in Procs : Owes(q) => Owes(q)'
    BY <1>2 DEF StartWan, Goto, Owes, TypeOK, files
  <2>2. QED
    BY <2>1, <1>1
<1>3. ASSUME NEW p \in Procs,
             \/ StoreServers(p) \/ StoreSilently(p) \/ WanDown(p) \/ ForgetServers(p)
             \/ FileLock(p) \/ FileUnlock(p)
      PROVE  InformedInv'
  <2>1. UNCHANGED <<conf, loaded>> /\ \A q \in Procs : Owes(q) => Owes(q)'
    BY <1>3 DEF StoreServers, StoreSilently, WanDown, ForgetServers, FileLock,
                FileUnlock, Goto, Owes, TypeOK, files, locals
  <2>2. QED
    BY <2>1, <1>1
<1>4. ASSUME NEW p \in Procs, Open(p) PROVE InformedInv'
  <2>1. CASE is_first_run[p]
    BY <1>4, <2>1 DEF Open, InformedInv
  <2>2. CASE ~is_first_run[p]
    <3>1. UNCHANGED <<conf, loaded>> /\ \A q \in Procs : Owes(q) => Owes(q)'
      BY <1>4, <2>2 DEF Open, Goto, Owes, TypeOK
    <3>2. QED
      BY <3>1, <1>1
  <2>3. QED
    BY <2>1, <2>2
<1>5. ASSUME NEW p \in Procs, PrintServers(p) PROVE InformedInv'
  <2>1. CASE is_first_run[p] /\ dns_static
    <3>1. pc'[p] = "unlock" /\ resolv_changed'[p]
      BY <1>5, <2>1 DEF PrintServers, Goto, TypeOK
    <3>2. QED
      BY <3>1 DEF InformedInv
  <2>2. CASE is_first_run[p] /\ ~dns_static
    <3>1. out[p] = <<>>
      BY <1>5, <2>2 DEF PrintServers, Goto, FirstInv
    <3>2. Complete(is_first_run[p], out[p]) = <<Google>>
      BY <2>2, <3>1 DEF Complete, WanServers
    <3>3. conf' = <<Google>>
      BY <1>5, <2>2, <3>2 DEF PrintServers
    <3>4. QED
      BY <3>3 DEF InformedInv
  <2>3. CASE ~is_first_run[p]
    <3>1. UNCHANGED <<conf, loaded>> /\ \A q \in Procs : Owes(q) => Owes(q)'
      BY <1>5, <2>3 DEF PrintServers, Goto, Owes, TypeOK
    <3>2. QED
      BY <3>1, <1>1
  <2>4. QED
    BY <2>1, <2>2, <2>3
<1>6. ASSUME NEW p \in Procs, Rename(p) PROVE InformedInv'
  <2>1. CASE conf # temp
    <3>1. pc'[p] = "unlock" /\ resolv_changed'[p]
      BY <1>6, <2>1 DEF Rename, Goto, TypeOK
    <3>2. QED
      BY <3>1 DEF InformedInv
  <2>2. CASE conf = temp
    <3>1. UNCHANGED <<conf, loaded>> /\ \A q \in Procs : Owes(q) => Owes(q)'
      BY <1>6, <2>2 DEF Rename, Goto, Owes, TypeOK
    <3>2. QED
      BY <3>1, <1>1
  <2>3. QED
    BY <2>1, <2>2
<1>7. ASSUME NEW p \in Procs, Notify(p) PROVE InformedInv'
  <2>1. CASE resolv_changed[p] \/ modem
    BY <1>7, <2>1 DEF Notify, InformedInv, files
  <2>2. CASE ~(resolv_changed[p] \/ modem)
    <3>1. UNCHANGED <<conf, loaded>> /\ \A q \in Procs : Owes(q) => Owes(q)'
      BY <1>7, <2>2 DEF Notify, Goto, Owes, TypeOK, files
    <3>2. QED
      BY <3>1, <1>1
  <2>3. QED
    BY <2>1, <2>2
<1>8. CASE UNCHANGED vars
  BY <1>8 DEF vars, files, locals, InformedInv
<1>9. QED
  BY <1>2, <1>3, <1>4, <1>5, <1>6, <1>7, <1>8 DEF Next, Update

(* Scripts that outlive their clients included, dnsmasq ends with the       *)
(* resolv.conf that is there, or that is the fallback only.                 *)
THEOREM DnsmasqEndsInformed == Spec => []DnsmasqInformed
<1>1. Init => FirstInv /\ InformedInv
  BY DEF Init, FirstInv, InformedInv, Procs
<1>2. InformedInv => DnsmasqInformed
  BY DEF InformedInv, DnsmasqInformed, AllIdle
<1>3. QED
  BY <1>1, <1>2, FirstStep, InformedStep, TypeCorrect, PTL DEF Spec
=============================================================================
