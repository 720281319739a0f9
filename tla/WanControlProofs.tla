-------------------------- MODULE WanControlProofs --------------------------
(* Proofs about the WAN life cycle, for every protocol and every set of     *)
(* requests, whether or not the scripts end in time.                        *)
EXTENDS WanControl, TLAPS

(* The steps of the scripts and of the clients keep every type.             *)
LEMMA ScriptTypes ==
  ASSUME TypeOK, NEW s \in ScriptSteps \ {"none"}, ScriptEffect(s)
  PROVE  /\ markers' \subseteq Events
         /\ wan' \subseteq WanFlags /\ services' \subseteq Services
         /\ After(s) \in ScriptSteps
<1> USE DEF TypeOK, setting, ScriptEffect, UdhcpcEffect, WanUpEffect, WanDownEffect,
           After, Up, WanFlags, Services
<1>1. CASE s = "bound_addr"
  BY <1>1 DEF ScriptSteps
<1>2. CASE s = "bound_up"
  BY <1>2 DEF ScriptSteps
<1>3. CASE s = "bound_notify"
  BY <1>3 DEF ScriptSteps, Events
<1>4. CASE s = "deconf_addr"
  BY <1>4 DEF ScriptSteps
<1>5. CASE s = "deconf_notify"
  BY <1>5 DEF ScriptSteps, Events
<1>6. CASE s = "deconf_down"
  BY <1>6 DEF ScriptSteps
<1>7. CASE s = "bound_conflict"
  BY <1>7 DEF ScriptSteps
<1>8. CASE s = "conflict_err"
  BY <1>8 DEF ScriptSteps
<1>9. QED
  BY <1>1, <1>2, <1>3, <1>4, <1>5, <1>6, <1>7, <1>8 DEF ScriptSteps

(* A script never starts or stops the L2TP server or the watchdog.          *)
LEMMA EffectFrame ==
  ASSUME NEW s \in ScriptSteps \ {"none"}, ScriptEffect(s)
  PROVE  /\ ("l2tp_server" \in services' <=> "l2tp_server" \in services)
         /\ ("watchdog" \in services' <=> "watchdog" \in services)
<1> USE DEF ScriptEffect, UdhcpcEffect, WanUpEffect, WanDownEffect
<1>1. CASE s = "bound_addr"
  BY <1>1
<1>2. CASE s = "bound_up"
  BY <1>2
<1>3. CASE s = "bound_notify"
  BY <1>3
<1>4. CASE s = "deconf_addr"
  BY <1>4
<1>5. CASE s = "deconf_notify"
  BY <1>5
<1>6. CASE s = "deconf_down"
  BY <1>6
<1>7. CASE s \in {"bound_conflict", "conflict_err"}
  BY <1>7
<1>8. QED
  BY <1>1, <1>2, <1>3, <1>4, <1>5, <1>6, <1>7 DEF ScriptSteps

(* A script touches init's program counter no more than the links, the      *)
(* timer, the L2TP server or the watchdog.                                  *)
LEMMA ScriptFrame ==
  ASSUME TypeOK, ScriptStep \/ OrphanStep
  PROVE  /\ UNCHANGED <<setting, proto, init, links, deferred, client, release>>
         /\ ("l2tp_server" \in services' <=> "l2tp_server" \in services)
         /\ ("watchdog" \in services' <=> "watchdog" \in services)
<1>1. CASE ScriptStep
  BY <1>1, EffectFrame DEF ScriptStep, TypeOK
<1>2. CASE OrphanStep
  BY <1>2, EffectFrame DEF OrphanStep, TypeOK
<1>3. QED
  BY <1>1, <1>2

(* Every variable keeps its type; init is always at a known step.           *)
THEOREM TypeCorrect == Spec => []TypeOK
<1>1. Init => TypeOK
  BY DEF Init, TypeOK, PCs, StopSteps, PppStopSteps, StartSteps, FlashSteps, ScriptSteps,
     Services
<1>2. TypeOK /\ [Next]_vars => TypeOK'
  <2> SUFFICES ASSUME TypeOK, [Next]_vars PROVE TypeOK'
    OBVIOUS
  <2> USE DEF TypeOK, setting
  <2>1. CASE InitStep
    <3> USE DEF Goto, Return, daemon
    <3>0. /\ {"idle", "reset", "defer", "ppp_wait", "release", "kill", "ifdown",
              "unlink", "pppstop_wait", "links", "launch", "restore", "flash_kill",
              "flash_write"} \subseteq PCs
          /\ {"none", "deconf_addr", "deconf_notify"} \subseteq ScriptSteps
      BY DEF PCs, StopSteps, PppStopSteps, StartSteps, FlashSteps, ScriptSteps
    <3>1. CASE StopBegin
      BY <3>0, <3>1 DEF StopBegin, PppDies
    <3>2. CASE StopPppWait
      BY <3>0, <3>2 DEF StopPppWait
    <3>3. CASE StopRelease
      BY <3>0, <3>3 DEF StopRelease
    <3>4. CASE StopKill
      BY <3>0, <3>4 DEF StopKill
    <3>5. CASE StopIfDown
      BY <3>0, <3>5 DEF StopIfDown
    <3>6. CASE StopUnlink
      BY <3>0, <3>6 DEF StopUnlink
    <3>7. CASE PppStopBegin
      BY <3>0, <3>7 DEF PppStopBegin, PppDies
    <3>8. CASE PppStopEnd
      BY <3>0, <3>8 DEF PppStopEnd
    <3>9. CASE ResetVars
      BY <3>0, <3>9 DEF ResetVars
    <3>10. CASE Defer
      BY <3>0, <3>10 DEF Defer, Services
    <3>11. CASE Undefer
      BY <3>0, <3>11 DEF Undefer
    <3>12. CASE StartLinks
      BY <3>0, <3>12 DEF StartLinks, Services
    <3>13. CASE StartLaunch
      BY <3>0, <3>13 DEF StartLaunch, Up, WanFlags, Events
    <3>14. CASE RestoreL2tp
      BY <3>0, <3>14 DEF RestoreL2tp, Services
    <3>15. CASE FlashBegin
      BY <3>0, <3>15 DEF FlashBegin
    <3>16. CASE FlashKill
      BY <3>0, <3>16 DEF FlashKill, PppHangsUp
    <3>17. CASE FlashFails
      BY <3>0, <3>17 DEF FlashFails, Services
    <3>18. QED
      BY <2>1, <3>1, <3>2, <3>3, <3>4, <3>5, <3>6, <3>7, <3>8, <3>9, <3>10,
         <3>11, <3>12, <3>13, <3>14, <3>15, <3>16, <3>17 DEF InitStep
  <2>2. ASSUME NEW e \in Events, Take(e) PROVE TypeOK'
    <3> USE <2>2 DEF Take, Call, init, daemon
    <3>0. {"stop", "pppstop", "undefer", "flash"} \subseteq PCs
      BY DEF PCs, StopSteps, PppStopSteps, StartSteps, FlashSteps
    <3>1. CASE TakeRestart(e)
      BY <3>0, <3>1 DEF TakeRestart
    <3>2. CASE TakeDisconnect(e)
      BY <3>0, <3>2 DEF TakeDisconnect
    <3>3. CASE TakeDeferred(e)
      BY <3>0, <3>3 DEF TakeDeferred
    <3>4. CASE TakeVpn(e)
      BY <3>0, <3>4 DEF TakeVpn, Services
    <3>5. CASE TakeFlash(e)
      BY <3>0, <3>5 DEF TakeFlash
    <3>6. QED
      BY <3>1, <3>2, <3>3, <3>4, <3>5
  <2>3. CASE ScriptStep
    BY <2>3, ScriptTypes, ScriptFrame DEF ScriptStep, init
  <2>4. CASE OrphanStep
    BY <2>4, ScriptTypes, ScriptFrame DEF OrphanStep, init
  <2>5. CASE ClientBound
    BY <2>5 DEF ClientBound, ScriptSteps, WanFlags, init
  <2>6. CASE ClientLost
    BY <2>6 DEF ClientLost, ScriptSteps, init
  <2>7. CASE ClientRelease
    <3>1. {"none", "deconf_addr"} \subseteq ScriptSteps
      BY DEF ScriptSteps
    <3>2. QED
      BY <2>7, <3>1 DEF ClientRelease, init
  <2>8. CASE LinkRestored
    BY <2>8 DEF LinkRestored, init
  <2>9. ASSUME NEW e \in Events, Post(e) PROVE TypeOK'
    BY <2>9 DEF Post, init, daemon
  <2>10. CASE UNCHANGED vars
    BY <2>10 DEF vars, init, daemon
  <2>11. CASE ClientRenew
    BY <2>11 DEF ClientRenew, ScriptSteps, init
  <2>12. QED
    BY <2>1, <2>2, <2>3, <2>4, <2>5, <2>6, <2>7, <2>8, <2>9, <2>10, <2>11,
       RequestsAssumption
       DEF Next, Request, WatchdogResumes, InternetLost, Events
<1>3. QED
  BY <1>1, <1>2, PTL DEF Spec

(* The steps of the processes other than init leave init, the links, the    *)
(* timer, the L2TP server and the watchdog alone.                           *)
LEMMA OthersFrame ==
  ASSUME TypeOK,
         \/ ScriptStep \/ OrphanStep
         \/ ClientBound \/ ClientRenew \/ ClientLost \/ ClientRelease \/ LinkRestored
         \/ Request \/ WatchdogResumes \/ InternetLost
         \/ UNCHANGED vars
  PROVE  /\ UNCHANGED <<setting, proto, pc, op, flashed, links, deferred>>
         /\ ("l2tp_server" \in services' <=> "l2tp_server" \in services)
         /\ ("watchdog" \in services' <=> "watchdog" \in services)
BY ScriptFrame DEF init, ClientBound, ClientRenew, ClientLost, ClientRelease, LinkRestored,
   Request, WatchdogResumes, InternetLost, Post, vars

(* The watchdog's timer runs only while the WAN is stopped, so the request  *)
(* it posts is never ignored.                                               *)
THEOREM TimerOnlyWhenStopped == Spec => []DeferredOnlyWhenStopped
<1>1. Init => DeferredInv
  BY DEF Init, DeferredInv, DeferredOnlyWhenStopped
<1>2. TypeOK /\ DeferredInv /\ [Next]_vars => DeferredInv'
  <2> SUFFICES ASSUME TypeOK, DeferredInv, [Next]_vars PROVE DeferredInv'
    OBVIOUS
  <2> USE DEF DeferredInv, DeferredOnlyWhenStopped
  <2>1. CASE InitStep
    <3> USE DEF Goto, Return
    <3>1. CASE StopBegin
      BY <3>1 DEF StopBegin
    <3>2. CASE StopPppWait
      BY <3>2 DEF StopPppWait
    <3>3. CASE StopRelease
      BY <3>3 DEF StopRelease
    <3>4. CASE StopKill
      BY <3>4 DEF StopKill
    <3>5. CASE StopIfDown
      BY <3>5 DEF StopIfDown
    <3>6. CASE StopUnlink
      BY <3>6 DEF StopUnlink
    <3>7. CASE PppStopBegin
      BY <3>7 DEF PppStopBegin
    <3>8. CASE PppStopEnd
      BY <3>8 DEF PppStopEnd
    <3>9. CASE ResetVars
      BY <3>9 DEF ResetVars
    <3>10. CASE Defer
      BY <3>10 DEF Defer
    <3>11. CASE Undefer
      BY <3>11 DEF Undefer
    <3>12. CASE StartLinks
      BY <3>12 DEF StartLinks
    <3>13. CASE StartLaunch
      BY <3>13 DEF StartLaunch
    <3>14. CASE RestoreL2tp
      BY <3>14 DEF RestoreL2tp
    <3>15. CASE FlashBegin
      BY <3>15 DEF FlashBegin
    <3>16. CASE FlashKill
      BY <3>16 DEF FlashKill, PppHangsUp
    <3>17. CASE FlashFails
      BY <3>17 DEF FlashFails
    <3>18. QED
      BY <2>1, <3>1, <3>2, <3>3, <3>4, <3>5, <3>6, <3>7, <3>8, <3>9, <3>10,
         <3>11, <3>12, <3>13, <3>14, <3>15, <3>16, <3>17 DEF InitStep
  <2>2. ASSUME NEW e \in Events, Take(e) PROVE DeferredInv'
    BY <2>2 DEF Take, TakeRestart, TakeDisconnect, TakeDeferred, TakeVpn, TakeFlash,
       Call, init
  <2>3. CASE ~InitStep /\ ~(\E e \in Events : Take(e))
    <3>1. pc' = pc /\ links' = links /\ deferred' = deferred
      BY <2>3, OthersFrame DEF Next
    <3>2. QED
      BY <3>1
  <2>4. QED
    BY <2>1, <2>2, <2>3
<1>3. DeferredInv => DeferredOnlyWhenStopped
  BY DEF DeferredInv
<1>4. QED
  BY <1>1, <1>2, <1>3, TypeCorrect, PTL DEF Spec

(* The scripts post the VPN client's requests only.                         *)
LEMMA ScriptPosts ==
  ASSUME TypeOK, ScriptStep \/ OrphanStep
  PROVE  markers' \subseteq markers \cup {"start_vpn_client", "stop_vpn_client"}
<1>1. \A s : ScriptEffect(s)
         => markers' \subseteq markers \cup {"start_vpn_client", "stop_vpn_client"}
  BY DEF ScriptEffect, UdhcpcEffect, WanUpEffect, WanDownEffect
<1>2. QED
  BY <1>1 DEF ScriptStep, OrphanStep

(* Whatever restarts, pauses or flashes, init never goes back to its loop   *)
(* with a stopped WAN that nobody watches, as long as nobody disconnects it *)
(* (try_wan_reconnect and deferred_wan_connect, net_wan.c).                 *)
THEOREM StoppedWanWatched ==
  ASSUME (Requests \cup LostRequests) \cap Disconnects = {}
  PROVE  Spec => []StoppedIsWatched
<1>1. Init => WatchInv
  BY DEF Init, WatchInv, StoppedIsWatched, Disconnects, PppStopSteps, FlashSteps
<1>2. TypeOK /\ WatchInv /\ [Next]_vars => WatchInv'
  <2> SUFFICES ASSUME TypeOK, WatchInv, [Next]_vars PROVE WatchInv'
    OBVIOUS
  <2> USE DEF WatchInv, StoppedIsWatched, Disconnects, PppStopSteps, FlashSteps
  <2>1. CASE InitStep
    <3> USE DEF Goto, Return
    <3>1. CASE StopBegin
      BY <3>1 DEF StopBegin, PppDies
    <3>2. CASE StopPppWait
      BY <3>2 DEF StopPppWait
    <3>3. CASE StopRelease
      BY <3>3 DEF StopRelease
    <3>4. CASE StopKill
      BY <3>4 DEF StopKill
    <3>5. CASE StopIfDown
      BY <3>5 DEF StopIfDown
    <3>6. CASE StopUnlink
      BY <3>6 DEF StopUnlink
    <3>7. CASE PppStopBegin
      BY <3>7 DEF PppStopBegin, PppDies
    <3>8. CASE PppStopEnd
      BY <3>8 DEF PppStopEnd
    <3>9. CASE ResetVars
      BY <3>9 DEF ResetVars
    <3>10. CASE Defer
      BY <3>10 DEF Defer
    <3>11. CASE Undefer
      BY <3>11 DEF Undefer
    <3>12. CASE StartLinks
      BY <3>12 DEF StartLinks
    <3>13. CASE StartLaunch
      BY <3>13 DEF StartLaunch
    <3>14. CASE RestoreL2tp
      BY <3>14 DEF RestoreL2tp
    <3>15. CASE FlashBegin
      BY <3>15 DEF FlashBegin
    <3>16. CASE FlashKill
      BY <3>16 DEF FlashKill, PppHangsUp
    <3>17. CASE FlashFails
      BY <3>17 DEF FlashFails
    <3>18. QED
      BY <2>1, <3>1, <3>2, <3>3, <3>4, <3>5, <3>6, <3>7, <3>8, <3>9, <3>10,
         <3>11, <3>12, <3>13, <3>14, <3>15, <3>16, <3>17 DEF InitStep
  <2>2. ASSUME NEW e \in Events, Take(e) PROVE WatchInv'
    BY <2>2 DEF Take, TakeRestart, TakeDisconnect, TakeDeferred, TakeVpn, TakeFlash,
       Call, init
  <2>3. CASE ~InitStep /\ ~(\E e \in Events : Take(e))
    <3>1. pc' = pc /\ op' = op /\ links' = links /\ deferred' = deferred
      BY <2>3, OthersFrame DEF Next
    <3>2. "watchdog" \in services' <=> "watchdog" \in services
      BY <2>3, OthersFrame DEF Next
    <3>3. markers' \cap Disconnects = {}
      <4>1. CASE ScriptStep \/ OrphanStep
        BY <4>1, ScriptPosts
      <4>2. CASE Request \/ WatchdogResumes \/ InternetLost
        BY <4>2 DEF Request, WatchdogResumes, InternetLost, Post
      <4>3. CASE ~(ScriptStep \/ OrphanStep \/ Request \/ WatchdogResumes \/ InternetLost)
        BY <2>3, <4>3 DEF Next, ClientBound, ClientRenew, ClientLost, ClientRelease, LinkRestored, vars
      <4>4. QED
        BY <4>1, <4>2, <4>3
    <3>4. QED
      BY <3>1, <3>2, <3>3
  <2>4. QED
    BY <2>1, <2>2, <2>3
<1>3. WatchInv => StoppedIsWatched
  BY DEF WatchInv
<1>4. QED
  BY <1>1, <1>2, <1>3, TypeCorrect, PTL DEF Spec

(* No path of init leaves a started WAN with the L2TP server killed.        *)
THEOREM ServerRestored == Spec => []L2tpServerRestored
<1>1. Init => L2tpInv
  BY DEF Init, L2tpInv, L2tpServerRestored, PppStopSteps
<1>2. TypeOK /\ L2tpInv /\ [Next]_vars => L2tpInv'
  <2> SUFFICES ASSUME TypeOK, L2tpInv, [Next]_vars PROVE L2tpInv'
    OBVIOUS
  <2> USE DEF L2tpInv, L2tpServerRestored, PppStopSteps
  <2>1. CASE InitStep
    <3> USE DEF Goto, Return, daemon
    <3>1. CASE StopBegin
      BY <3>1 DEF StopBegin
    <3>2. CASE StopPppWait
      BY <3>2 DEF StopPppWait
    <3>3. CASE StopRelease
      BY <3>3 DEF StopRelease
    <3>4. CASE StopKill
      BY <3>4 DEF StopKill
    <3>5. CASE StopIfDown
      BY <3>5 DEF StopIfDown
    <3>6. CASE StopUnlink
      BY <3>6 DEF StopUnlink
    <3>7. CASE PppStopBegin
      BY <3>7 DEF PppStopBegin, PppDies
    <3>8. CASE PppStopEnd
      BY <3>8 DEF PppStopEnd
    <3>9. CASE ResetVars
      BY <3>9 DEF ResetVars
    <3>10. CASE Defer
      BY <3>10 DEF Defer
    <3>11. CASE Undefer
      BY <3>11 DEF Undefer
    <3>12. CASE StartLinks
      BY <3>12 DEF StartLinks
    <3>13. CASE StartLaunch
      BY <3>13 DEF StartLaunch
    <3>14. CASE RestoreL2tp
      BY <3>14 DEF RestoreL2tp
    <3>15. CASE FlashBegin
      BY <3>15 DEF FlashBegin
    <3>16. CASE FlashKill
      BY <3>16 DEF FlashKill, PppHangsUp
    <3>17. CASE FlashFails
      BY <3>17 DEF FlashFails
    <3>18. QED
      BY <2>1, <3>1, <3>2, <3>3, <3>4, <3>5, <3>6, <3>7, <3>8, <3>9, <3>10,
         <3>11, <3>12, <3>13, <3>14, <3>15, <3>16, <3>17 DEF InitStep
  <2>2. ASSUME NEW e \in Events, Take(e) PROVE L2tpInv'
    BY <2>2 DEF Take, TakeRestart, TakeDisconnect, TakeDeferred, TakeVpn, TakeFlash,
       Call, init,
       daemon
  <2>3. CASE ~InitStep /\ ~(\E e \in Events : Take(e))
    <3>1. /\ proto' = proto /\ pc' = pc /\ links' = links /\ flashed' = flashed
          /\ ("l2tp_server" \in services' <=> "l2tp_server" \in services)
      BY <2>3, OthersFrame DEF Next
    <3>2. /\ pc = "kill" \/ client # "none" \/ client' = client
          /\ release' => release
      <4>1. CASE ClientRelease
        BY <4>1 DEF ClientRelease
      <4>2. CASE ~ClientRelease
        <5>1. CASE ScriptStep \/ OrphanStep
          BY <5>1, ScriptFrame
        <5>2. CASE ~ScriptStep /\ ~OrphanStep
          BY <2>3, <4>2, <5>2
             DEF Next, ClientBound, ClientRenew, ClientLost, LinkRestored, Request,
                 WatchdogResumes, InternetLost, Post, vars, daemon
        <5>3. QED
          BY <5>1, <5>2
      <4>3. QED
        BY <4>1, <4>2
    <3>3. L2tpServerRestored'
      BY <3>1, <3>2
    <3>4. /\ pc' \in {"reset", "defer", "undefer"} => ~links'
          /\ pc' \in PppStopSteps => proto' = "ppp"
      BY <3>1
    <3>5. pc' = "pppstop_wait" => client' = "none"
      BY <3>1, <3>2
    <3>6. release' => pc' = "kill"
      BY <3>1, <3>2
    <3>7. QED
      BY <3>3, <3>4, <3>5, <3>6
  <2>4. QED
    BY <2>1, <2>2, <2>3
<1>3. L2tpInv => L2tpServerRestored
  BY DEF L2tpInv
<1>4. QED
  BY <1>1, <1>2, <1>3, TypeCorrect, PTL DEF Spec
-----------------------------------------------------------------------------
(* There is a client only while the links are there.                        *)
LEMMA ClientInvHolds == Spec => []ClientInv
<1>1. Init => ClientInv
  BY DEF Init, ClientInv
<1>2. TypeOK /\ ClientInv /\ [Next]_vars => ClientInv'
  <2> SUFFICES ASSUME TypeOK, ClientInv, [Next]_vars PROVE ClientInv'
    OBVIOUS
  <2> USE DEF ClientInv
  <2>1. CASE InitStep
    <3> USE DEF Goto, Return, daemon
    <3>1. CASE StopBegin
      BY <3>1 DEF StopBegin, PppDies
    <3>2. CASE StopPppWait
      BY <3>2 DEF StopPppWait
    <3>3. CASE StopRelease
      BY <3>3 DEF StopRelease
    <3>4. CASE StopKill
      BY <3>4 DEF StopKill
    <3>5. CASE StopIfDown
      BY <3>5 DEF StopIfDown
    <3>6. CASE StopUnlink
      BY <3>6 DEF StopUnlink
    <3>7. CASE PppStopBegin
      BY <3>7 DEF PppStopBegin, PppDies
    <3>8. CASE PppStopEnd
      BY <3>8 DEF PppStopEnd
    <3>9. CASE ResetVars
      BY <3>9 DEF ResetVars
    <3>10. CASE Defer
      BY <3>10 DEF Defer
    <3>11. CASE Undefer
      BY <3>11 DEF Undefer
    <3>12. CASE StartLinks
      BY <3>12 DEF StartLinks
    <3>13. CASE StartLaunch
      BY <3>13 DEF StartLaunch
    <3>14. CASE RestoreL2tp
      BY <3>14 DEF RestoreL2tp
    <3>15. CASE FlashBegin
      BY <3>15 DEF FlashBegin
    <3>16. CASE FlashKill
      BY <3>16 DEF FlashKill, PppHangsUp
    <3>17. CASE FlashFails
      BY <3>17 DEF FlashFails
    <3>18. QED
      BY <2>1, <3>1, <3>2, <3>3, <3>4, <3>5, <3>6, <3>7, <3>8, <3>9, <3>10,
         <3>11, <3>12, <3>13, <3>14, <3>15, <3>16, <3>17 DEF InitStep
  <2>2. ASSUME NEW e \in Events, Take(e) PROVE ClientInv'
    BY <2>2 DEF Take, TakeRestart, TakeDisconnect, TakeDeferred, TakeVpn, TakeFlash,
       Call, init, daemon
  <2>3. CASE ScriptStep \/ OrphanStep
    BY <2>3, ScriptFrame DEF init
  <2>4. CASE ClientBound
    BY <2>4 DEF ClientBound, init
  <2>5. CASE ClientLost
    BY <2>5 DEF ClientLost, init
  <2>6. CASE ClientRelease
    BY <2>6 DEF ClientRelease, init
  <2>7. CASE LinkRestored
    BY <2>7 DEF LinkRestored, init
  <2>8. CASE Request \/ WatchdogResumes \/ InternetLost
    BY <2>8 DEF Request, WatchdogResumes, InternetLost, Post, init, daemon
  <2>9. CASE UNCHANGED vars
    BY <2>9 DEF vars, init, daemon
  <2>10. CASE ClientRenew
    BY <2>10 DEF ClientRenew, init
  <2>11. QED
    BY <2>1, <2>2, <2>3, <2>4, <2>5, <2>6, <2>7, <2>8, <2>9, <2>10 DEF Next
<1>3. QED
  BY <1>1, <1>2, TypeCorrect, PTL DEF Spec

(* start_wan never starts a client beside another one, even when scripts    *)
(* outlive the clients that stop_wan has killed.                            *)
THEOREM OneClientOnly == Spec => OneClient
<1>1. ClientInv /\ [Next]_vars => [StartLaunch => client = "none"]_vars
  BY DEF ClientInv, StartLaunch
<1>2. QED
  BY <1>1, ClientInvHolds, PTL DEF Spec, OneClient

-----------------------------------------------------------------------------
(* What a step of a script does, step by step.                              *)
LEMMA EffectCases ==
  ASSUME NEW s \in ScriptSteps \ {"none"}, ScriptEffect(s)
  PROVE  /\ s = "bound_addr" => /\ After(s) = "bound_up"
                                /\ \/ wan' = wan \cup {"address"}
                                   \/ wan' = (wan \ {"route"}) \cup {"address"}
         /\ s = "bound_up" => After(s) = "bound_notify" /\ wan' \in Up(wan)
         /\ s = "bound_notify" => After(s) = "none" /\ (wan' = wan \ {"err"} \/ wan' = wan)
         /\ s = "bound_conflict" => /\ After(s) = "conflict_err"
                                    /\ wan' = wan \ {"address", "route"}
         /\ s = "conflict_err" => After(s) = "none" /\ wan' = wan \cup {"err"}
         /\ s = "deconf_addr" => /\ After(s) = "deconf_notify"
                                 /\ wan' = wan \ {"address", "route"}
         /\ s = "deconf_notify" => After(s) = "deconf_down" /\ wan' = wan
         /\ s = "deconf_down" => After(s) = "none" /\ wan' = wan \ {"uptime", "route"}
BY DEF ScriptEffect, UdhcpcEffect, WanUpEffect, WanDownEffect, After

LEMMA TimelyInvHolds == Spec => []TimelyInv
<1>1. Init => TimelyInv
  BY DEF Init, TimelyInv, Down, ClientAgrees, PppStopSteps
<1>2. TypeOK /\ TimelyInv /\ [Next]_vars => TimelyInv'
  <2> SUFFICES ASSUME TypeOK, TimelyInv, [Next]_vars PROVE TimelyInv'
    OBVIOUS
  <2> USE DEF TimelyInv, Down, ClientAgrees, InOrder, Cleared, Up, WanFlags,
             PppStopSteps
  <2>0. wan \subseteq WanFlags
    BY DEF TypeOK
  <2>1. CASE InitStep
    <3> USE DEF Goto, Return, daemon, setting
    <3>1. CASE StopBegin
      BY <3>1 DEF StopBegin, PppDies
    <3>2. CASE StopPppWait
      BY <3>2 DEF StopPppWait
    <3>3. CASE StopRelease
      BY <3>3 DEF StopRelease
    <3>4. CASE StopKill
      BY <3>4 DEF StopKill
    <3>5. CASE StopIfDown
      BY <2>0, <3>5 DEF StopIfDown
    <3>6. CASE StopUnlink
      BY <3>6 DEF StopUnlink
    <3>7. CASE PppStopBegin
      BY <3>7 DEF PppStopBegin, PppDies
    <3>8. CASE PppStopEnd
      BY <3>8 DEF PppStopEnd
    <3>9. CASE ResetVars
      BY <3>9 DEF ResetVars
    <3>10. CASE Defer
      BY <3>10 DEF Defer
    <3>11. CASE Undefer
      BY <3>11 DEF Undefer
    <3>12. CASE StartLinks
      BY <3>12 DEF StartLinks
    <3>13. CASE StartLaunch
      <4> SUFFICES ASSUME timely PROVE TimelyInv'
        BY <3>13 DEF StartLaunch
      <4>1. /\ pc' = "restore" /\ links /\ links' /\ ~release /\ ~release'
            /\ orphan' = "none" /\ wan = {} /\ script = "none" /\ client = "none"
            /\ proto' = proto
        BY <3>13 DEF StartLaunch
      <4>2. CASE proto = "static"
        BY <3>13, <4>1, <4>2 DEF StartLaunch
      <4>3. CASE proto # "static"
        BY <3>13, <4>1, <4>3 DEF StartLaunch
      <4>4. QED
        BY <4>2, <4>3
    <3>14. CASE RestoreL2tp
      BY <3>14 DEF RestoreL2tp
    <3>15. CASE FlashBegin
      BY <3>15 DEF FlashBegin
    <3>16. CASE FlashKill
      <4> SUFFICES ASSUME timely PROVE TimelyInv'
        BY <3>16 DEF FlashKill
      <4>1. ClientAgrees /\ pc' = "flash_write" /\ UNCHANGED <<proto, links, release>>
        BY <3>16 DEF FlashKill
      <4>2. CASE proto = "ppp" /\ client # "none"
        <5>1. /\ client' = "none" /\ wan' = wan \ {"address", "route"}
              /\ script = "none" /\ orphan' = orphan
              /\ script' = IF client = "bound" THEN "deconf_notify" ELSE "none"
          BY <3>16, <4>2 DEF FlashKill, PppHangsUp
        <5>2. client # "bound" => client \in {"selecting", "released"}
          BY <4>2 DEF TypeOK
        <5>3. script' = "none" => Cleared'
          BY <4>1, <5>1, <5>2
        <5>4. links
          BY <4>2
        <5>5. QED
          BY <3>16, <4>1, <4>2, <5>1, <5>3, <5>4 DEF FlashKill
      <4>3. CASE ~(proto = "ppp" /\ client # "none")
        BY <3>16, <4>1, <4>3 DEF FlashKill
      <4>4. QED
        BY <4>2, <4>3
    <3>17. CASE FlashFails
      BY <3>17 DEF FlashFails
    <3>18. QED
      BY <2>1, <3>1, <3>2, <3>3, <3>4, <3>5, <3>6, <3>7, <3>8, <3>9, <3>10,
         <3>11, <3>12, <3>13, <3>14, <3>15, <3>16, <3>17 DEF InitStep
  <2>2. ASSUME NEW e \in Events, Take(e) PROVE TimelyInv'
    BY <2>2 DEF Take, TakeRestart, TakeDisconnect, TakeDeferred, TakeVpn, TakeFlash,
       Call, init,
       daemon, setting
  <2>3. CASE ScriptStep
    <3>1. script \in ScriptSteps \ {"none"} /\ ScriptEffect(script) /\ script' = After(script)
      BY <2>3 DEF ScriptStep, TypeOK
    <3>2. UNCHANGED <<setting, proto, pc, links, client, release, orphan>>
      BY <2>3 DEF ScriptStep, init
    <3>3. QED
      BY <2>0, <3>1, <3>2, EffectCases DEF setting, ScriptSteps
  <2>4. CASE OrphanStep
    <3>1. ~timely
      BY <2>4 DEF OrphanStep
    <3>2. QED
      BY <2>4, <3>1 DEF OrphanStep, setting
  <2>5. CASE ClientBound
    <3>1. proto \in {"dhcp", "static", "ppp"}
      BY ProtoSetsAssumption DEF TypeOK
    <3>2. QED
      BY <2>0, <2>5, <3>1 DEF ClientBound, init, setting
  <2>6. CASE ClientLost
    BY <2>6 DEF ClientLost, init, setting
  <2>7. CASE ClientRelease
    BY <2>7 DEF ClientRelease, init, setting
  <2>8. CASE LinkRestored
    BY <2>8 DEF LinkRestored, init, setting
  <2>9. ASSUME NEW e \in Events \ {"start_vpn_client", "stop_vpn_client"}, Post(e)
        PROVE  TimelyInv'
    BY <2>9 DEF Post, init, daemon, setting
  <2>10. CASE UNCHANGED vars
    BY <2>10 DEF vars, init, daemon, setting
  <2>11. CASE ClientRenew
    BY <2>11 DEF ClientRenew, init, setting
  <2>12. QED
    BY <2>1, <2>2, <2>3, <2>4, <2>5, <2>6, <2>7, <2>8, <2>9, <2>10, <2>11,
       RequestsAssumption
       DEF Next, Request, WatchdogResumes, InternetLost, Events
<1>3. QED
  BY <1>1, <1>2, TypeCorrect, PTL DEF Spec

(* With scripts that end in time, nothing is left of a stopped WAN.         *)
THEOREM StoppedDown == Spec => []StoppedIsDown
<1>1. TimelyInv => StoppedIsDown
  BY DEF TimelyInv, StoppedIsDown, Down
<1>2. QED
  BY <1>1, TimelyInvHolds, PTL

(* With scripts that end in time, a WAN that counts as up is connected and   *)
(* has an address, a route is there only for an up WAN, and a connected WAN *)
(* that is not up shows the error, after any leases, renews and conflicts.  *)
THEOREM UpConfigured == Spec => []UpIsConfigured
<1>1. TypeOK /\ TimelyInv => UpIsConfigured
  BY DEF TypeOK, TimelyInv, UpIsConfigured, Connected, ClientAgrees, InOrder, Cleared,
     Quiet, WanFlags
<1>2. QED
  BY <1>1, TypeCorrect, TimelyInvHolds, PTL

(* Only start_wan and the end of stop_wan change what the WAN runs over;    *)
(* the setting is copied while there is nothing that runs.                  *)
LEMMA CarrierFrame ==
  ASSUME TypeOK, ClientInv, [Next]_vars, ~StartLinks, ~StopUnlink
  PROVE  UNCHANGED <<timely, links>> /\ (links => proto' = proto)
<1>1. CASE InitStep
  BY <1>1 DEF InitStep, StopBegin, StopPppWait, StopRelease, StopKill, StopIfDown,
     PppStopBegin, PppStopEnd, ResetVars, Defer, Undefer, StartLaunch, RestoreL2tp,
     FlashBegin, FlashKill, FlashFails, ClientInv, setting
<1>2. CASE \E e \in Events : Take(e)
  BY <1>2 DEF Take, setting
<1>3. CASE ~InitStep /\ ~(\E e \in Events : Take(e))
  BY <1>3, OthersFrame DEF Next, setting
<1>4. QED
  BY <1>1, <1>2, <1>3

(* The life cycle implements the link: one protocol at a time, stopped      *)
(* before it is started over another, and up only while it is started.      *)
THEOREM WanIsLink == Spec => ImplementsLink
<1> DEFINE carrier == IF links THEN {proto} ELSE {}
           up == timely /\ "uptime" \in wan
<1>1. Init => Link!Init
  BY DEF Init, Link!Init
<1>2. TypeOK /\ ClientInv /\ TimelyInv /\ TimelyInv' /\ [Next]_vars
        => [Link!Next]_Link!vars
  <2> SUFFICES ASSUME TypeOK, ClientInv, TimelyInv, TimelyInv', [Next]_vars
               PROVE  [Link!Next]_Link!vars
    OBVIOUS
  <2> USE DEF Link!vars
  <2>1. CASE StartLinks
    <3>1. carrier = {} /\ carrier' = {proto} /\ up' = up
      BY <2>1 DEF StartLinks, ClientInv, setting
    <3>2. up' = FALSE
      BY <2>1, <3>1 DEF StartLinks, ClientInv, TimelyInv
    <3>3. proto \in {"dhcp", "static", "ppp"}
      BY ProtoSetsAssumption DEF TypeOK
    <3>4. Link!Start(proto)
      BY <3>1, <3>2 DEF Link!Start
    <3>5. QED
      BY <3>3, <3>4 DEF Link!Next
  <2>2. CASE StopUnlink
    <3>1. carrier' = {} /\ up' = FALSE
      BY <2>2 DEF StopUnlink
    <3>2. CASE links
      BY <3>1, <3>2 DEF Link!Stop, Link!Next
    <3>3. CASE ~links
      BY <3>1, <3>3 DEF Link!Down, Link!Next
    <3>4. QED
      BY <3>2, <3>3
  <2>3. CASE ~StartLinks /\ ~StopUnlink
    <3>1. carrier' = carrier
      BY <2>3, CarrierFrame
    <3>2. CASE up'
      <4>1. carrier # {}
        BY <3>1, <3>2 DEF TimelyInv
      <4>2. QED
        BY <3>1, <3>2, <4>1 DEF Link!Up, Link!Next
    <3>3. CASE ~up'
      BY <3>1, <3>3 DEF Link!Down, Link!Next
    <3>4. QED
      BY <3>2, <3>3
  <2>4. QED
    BY <2>1, <2>2, <2>3
<1>3. QED
  BY <1>1, <1>2, TypeCorrect, ClientInvHolds, TimelyInvHolds, PTL
     DEF Spec, ImplementsLink, Link!Spec

-----------------------------------------------------------------------------
(* For a static address the VPN client runs when the WAN is up and all      *)
(* requests are handled.                                                    *)
THEOREM VpnFollowsStatic == Spec => []VpnFollowsStaticWan
<1>1. Init => StaticInv
  BY DEF Init, StaticInv
<1>2. TypeOK /\ StaticInv /\ [Next]_vars => StaticInv'
  <2> SUFFICES ASSUME TypeOK, StaticInv, [Next]_vars PROVE StaticInv'
    OBVIOUS
  <2> USE DEF StaticInv, FlashSteps
  <2>1. CASE InitStep
    <3> USE DEF Goto, Return, daemon, setting
    <3>1. CASE StopBegin
      BY <3>1 DEF StopBegin, PppDies
    <3>2. CASE StopPppWait
      BY <3>2 DEF StopPppWait
    <3>3. CASE StopRelease
      BY <3>3 DEF StopRelease
    <3>4. CASE StopKill
      BY <3>4 DEF StopKill
    <3>5. CASE StopIfDown
      BY <3>5 DEF StopIfDown
    <3>6. CASE StopUnlink
      BY <3>6 DEF StopUnlink
    <3>7. CASE PppStopBegin
      BY <3>7 DEF PppStopBegin, PppDies
    <3>8. CASE PppStopEnd
      BY <3>8 DEF PppStopEnd
    <3>9. CASE ResetVars
      BY <3>9 DEF ResetVars
    <3>10. CASE Defer
      BY <3>10 DEF Defer
    <3>11. CASE Undefer
      BY <3>11 DEF Undefer
    <3>12. CASE StartLinks
      BY <3>12 DEF StartLinks
    <3>13. CASE StartLaunch
      BY <3>13 DEF StartLaunch
    <3>14. CASE RestoreL2tp
      BY <3>14 DEF RestoreL2tp
    <3>15. CASE FlashBegin
      BY <3>15 DEF FlashBegin
    <3>16. CASE FlashKill
      BY <3>16 DEF FlashKill, PppHangsUp
    <3>17. CASE FlashFails
      BY <3>17 DEF FlashFails
    <3>18. QED
      BY <2>1, <3>1, <3>2, <3>3, <3>4, <3>5, <3>6, <3>7, <3>8, <3>9, <3>10,
         <3>11, <3>12, <3>13, <3>14, <3>15, <3>16, <3>17 DEF InitStep
  <2>2. ASSUME NEW e \in Events, Take(e) PROVE StaticInv'
    BY <2>2 DEF Take, TakeRestart, TakeDisconnect, TakeDeferred, TakeVpn, TakeFlash,
       Call, init,
       daemon, setting
  <2>3. CASE ScriptStep
    <3>1. script \in ScriptSteps \ {"none"} /\ ScriptEffect(script) /\ script' = After(script)
      BY <2>3 DEF ScriptStep, TypeOK
    <3>2. UNCHANGED <<setting, proto, pc, links, client, release, orphan>>
      BY <2>3 DEF ScriptStep, init
    <3>3. QED
      BY <3>1, <3>2, EffectCases DEF setting
  <2>4. CASE OrphanStep
    <3>1. protos # {"static"}
      BY <2>4 DEF OrphanStep
    <3>2. QED
      BY <2>4, <3>1 DEF OrphanStep, setting
  <2>5. CASE ClientBound
    BY <2>5 DEF ClientBound, init, setting
  <2>6. CASE ClientLost
    BY <2>6 DEF ClientLost, init, setting
  <2>7. CASE ClientRelease
    BY <2>7 DEF ClientRelease, init, setting
  <2>8. CASE LinkRestored
    BY <2>8 DEF LinkRestored, init, setting
  <2>9. ASSUME NEW e \in Events \ {"start_vpn_client", "stop_vpn_client"}, Post(e)
        PROVE  StaticInv'
    BY <2>9 DEF Post, init, daemon, setting
  <2>10. CASE UNCHANGED vars
    BY <2>10 DEF vars, init, daemon, setting
  <2>11. CASE ClientRenew
    BY <2>11 DEF ClientRenew, init, setting
  <2>12. QED
    BY <2>1, <2>2, <2>3, <2>4, <2>5, <2>6, <2>7, <2>8, <2>9, <2>10, <2>11,
       RequestsAssumption
       DEF Next, Request, WatchdogResumes, InternetLost, Events
<1>3. StaticInv => VpnFollowsStaticWan
  BY DEF StaticInv, FlashSteps, VpnFollowsStaticWan, VpnFollowsWan, Quiet
<1>4. QED
  BY <1>1, <1>2, <1>3, TypeCorrect, PTL DEF Spec
=============================================================================
