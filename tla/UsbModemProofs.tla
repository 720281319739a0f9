--------------------------- MODULE UsbModemProofs ---------------------------
(* Proofs about the USB modem, for any set of types of serial modems.       *)
EXTENDS UsbModem, TLAPS

(* The modules of a modem that is used are one of two, and only a network   *)
(* device has usbnet.                                                       *)
LEMMA DriverValues ==
  /\ \A ty : /\ Driver(ty) \in {"ras", "usbnet"}
             /\ Driver(ty) = "usbnet" <=> ty = Usbnet
             /\ DriverFor(TRUE, ty) = Driver(ty)
             /\ DriverFor(FALSE, ty) = "none"
BY DEF Driver, DriverFor

(* Every variable keeps its type; there is no modem without its modules.    *)
THEOREM TypeCorrect == Spec => []TypeOK
<1> USE DEF TypeOK, settings, copies, modem, link, locals, lost, Types, Events
<1>1. Init => TypeOK
  BY DEF Init, DriverFor, Driver
<1>2. TypeOK /\ [Next]_vars => TypeOK'
  <2> SUFFICES ASSUME TypeOK, [Next]_vars PROVE TypeOK'
    OBVIOUS
  <2>1. CASE TakeRestartModem
    <3>1. markers' \subseteq Events /\ need' \in BOOLEAN
      BY <2>1 DEF TakeRestartModem
    <3>2. /\ reloaded' \in BOOLEAN /\ pc' = "read_rule"
          /\ UNCHANGED <<rule, type, prio, edited, nvram_rule, nvram_type, drivers, device,
                         modem_wan, wan, r, t, det, lost_on, report, failed>>
      BY <2>1 DEF TakeRestartModem
    <3>3. QED
      BY <3>1, <3>2
  <2>2. CASE ReadRule
    BY <2>2 DEF ReadRule
  <2>3. CASE ReadType
    BY <2>3 DEF ReadType
  <2>4. CASE RuleChanged
    BY <2>4 DEF RuleChanged
  <2>5. CASE RuleModules
    <3>1. drivers' \in {"none", "ras", "usbnet"}
          /\ device' \in BOOLEAN /\ (device' => drivers' # "none")
      BY <2>5 DEF RuleModules, Load, DriverFor, Driver
    <3>2. reloaded' \in BOOLEAN /\ failed' = "none"
      BY <2>5 DEF RuleModules, Load
    <3>3. UNCHANGED <<rule, type, prio, edited, nvram_rule, nvram_type, modem_wan, wan,
                      markers, need, r, t, det, lost_on, report>> /\ pc' = "type"
      BY <2>5 DEF RuleModules, Load
    <3>4. QED
      BY <3>1, <3>2, <3>3
  <2>6. CASE TypeChanged
    BY <2>6 DEF TypeChanged
  <2>7. CASE TypeModules
    <3>1. drivers' \in {"none", "ras", "usbnet"}
          /\ device' \in BOOLEAN /\ (device' => drivers' # "none")
      BY <2>7 DEF TypeModules, Load, Driver
    <3>2. UNCHANGED <<rule, type, prio, edited, nvram_rule, nvram_type, modem_wan, wan,
                      markers, need, r, t, reloaded, det, lost_on, report>>
          /\ pc' = "end" /\ failed' = "none"
      BY <2>7 DEF TypeModules, Load
    <3>3. QED
      BY <3>1, <3>2
  <2>8. CASE EndOfHandler
    BY <2>8 DEF EndOfHandler
  <2>9. CASE TakeReconnect
    BY <2>9 DEF TakeReconnect
  <2>10. CASE StopWan
    BY <2>10 DEF StopWan
  <2>11. CASE Select
    BY <2>11 DEF Select, Ready
  <2>12. CASE StartWan
    BY <2>12 DEF StartWan, Driver
  <2>13. CASE Disconnect
    BY <2>13 DEF Disconnect
  <2>14. CASE Edit
    <3>1. rule' \in BOOLEAN /\ type' \in Types /\ prio' \in 0..2
      BY <2>14 DEF Edit
    <3>2. QED
      BY <2>14, <3>1 DEF Edit
  <2>15. CASE Notify
    <3>1. markers' \subseteq Events
      BY <2>15 DEF Notify
    <3>2. edited' \in BOOLEAN
          /\ UNCHANGED <<rule, type, prio, nvram_rule, nvram_type, drivers, device,
                         modem_wan, wan, pc, need, r, t, reloaded, det, lost_on, report,
                         failed>>
      BY <2>15 DEF Notify
    <3>3. QED
      BY <3>1, <3>2
  <2>16. CASE Request
    BY <2>16 DEF Request
  <2>17. CASE Hotplug
    BY <2>17 DEF Hotplug
  <2>18. CASE InternetLost
    BY <2>18 DEF InternetLost, OnModem
  <2>19. CASE CheckModem
    BY <2>19 DEF CheckModem
  <2>20. CASE ReadLink
    BY <2>20 DEF ReadLink
  <2>21. CASE PreferOther
    BY <2>21 DEF PreferOther
  <2>22. CASE PostReconnect
    <3>1. markers' \subseteq Events
      BY <2>22 DEF PostReconnect
    <3>2. /\ det' = "idle"
          /\ UNCHANGED <<rule, type, prio, edited, nvram_rule, nvram_type, drivers, device,
                         modem_wan, wan, pc, need, r, t, reloaded, lost_on, report, failed>>
      BY <2>22 DEF PostReconnect
    <3>3. QED
      BY <3>1, <3>2
  <2>23. CASE UNCHANGED vars
    BY <2>23 DEF vars
  <2>24. QED
    BY <2>1, <2>2, <2>3, <2>4, <2>5, <2>6, <2>7, <2>8, <2>9, <2>10, <2>11, <2>12,
       <2>13, <2>14, <2>15, <2>16, <2>17, <2>18, <2>19, <2>20, <2>21, <2>22, <2>23
       DEF Next, InitStep, DetectInternet
<1>3. QED
  BY <1>1, <1>2, PTL DEF Spec

-----------------------------------------------------------------------------
(* Init's copies and the modules follow the settings.                       *)
LEMMA DriversInvHolds == Spec => []DriversInv
<1> USE DEF DriversInv, Applied, InHandler, Reading
<1>1. Init => DriversInv
  BY DEF Init
<1>2. TypeOK /\ DriversInv /\ [Next]_vars => DriversInv'
  <2> SUFFICES ASSUME TypeOK, DriversInv, [Next]_vars PROVE DriversInv'
    OBVIOUS
  <2> USE DEF settings, copies, modem, link, locals, lost
  <2>1. CASE TakeRestartModem
    BY <2>1 DEF TakeRestartModem
  <2>2. CASE ReadRule
    BY <2>2 DEF ReadRule
  <2>3. CASE ReadType
    BY <2>3 DEF ReadType
  <2>4. CASE RuleChanged
    BY <2>4 DEF RuleChanged
  <2>5. CASE RuleModules
    BY <2>5, DriverValues DEF RuleModules, Load, TypeOK
  <2>6. CASE TypeChanged
    <3>1. drivers' = drivers /\ nvram_rule' = nvram_rule /\ nvram_type' = t
          /\ r' = r /\ t' = t /\ reloaded' = reloaded /\ nvram_rule = r
      BY <2>6 DEF TypeChanged
    <3>2. CASE nvram_type # t /\ Usbnet \in {nvram_type, t} /\ r /\ ~reloaded
      <4>1. pc' = "reload"
        BY <2>6, <3>2 DEF TypeChanged
      <4>2. UNCHANGED <<rule, type, edited, markers>> /\ pc = "type"
        BY <2>6 DEF TypeChanged
      <4>3. Applied' => r' = rule' /\ t' = type'
        BY <3>1, <4>2
      <4>4. QED
        BY <3>1, <3>2, <4>1, <4>3
    <3>3. CASE ~(nvram_type # t /\ Usbnet \in {nvram_type, t} /\ r /\ ~reloaded)
      <4>1. pc' = "end" /\ pc = "type"
        BY <2>6, <3>3 DEF TypeChanged
      <4>2. drivers = DriverFor(r, t)
        BY <3>1, <3>3, <4>1 DEF DriverFor, Driver, TypeOK
      <4>3. QED
        BY <2>6, <3>1, <4>1, <4>2 DEF TypeChanged
    <3>4. QED
      BY <3>2, <3>3
  <2>7. CASE TypeModules
    BY <2>7, DriverValues DEF TypeModules, Load, TypeOK
  <2>8. CASE EndOfHandler
    BY <2>8 DEF EndOfHandler
  <2>9. CASE TakeReconnect
    BY <2>9 DEF TakeReconnect
  <2>10. CASE StopWan
    BY <2>10 DEF StopWan
  <2>11. CASE Select
    BY <2>11 DEF Select
  <2>12. CASE StartWan
    BY <2>12 DEF StartWan
  <2>13. CASE Disconnect
    BY <2>13 DEF Disconnect
  <2>14. CASE Edit
    BY <2>14 DEF Edit
  <2>15. CASE Notify
    BY <2>15 DEF Notify
  <2>16. CASE Request
    BY <2>16 DEF Request
  <2>17. CASE Hotplug
    BY <2>17 DEF Hotplug
  <2>18. CASE InternetLost
    BY <2>18 DEF InternetLost
  <2>19. CASE CheckModem
    BY <2>19 DEF CheckModem
  <2>20. CASE ReadLink
    BY <2>20 DEF ReadLink
  <2>21. CASE PreferOther
    BY <2>21 DEF PreferOther
  <2>22. CASE PostReconnect
    BY <2>22 DEF PostReconnect
  <2>23. CASE UNCHANGED vars
    BY <2>23 DEF vars
  <2>24. QED
    BY <2>1, <2>2, <2>3, <2>4, <2>5, <2>6, <2>7, <2>8, <2>9, <2>10, <2>11, <2>12,
       <2>13, <2>14, <2>15, <2>16, <2>17, <2>18, <2>19, <2>20, <2>21, <2>22, <2>23
       DEF Next, InitStep, DetectInternet
<1>3. QED
  BY <1>1, <1>2, TypeCorrect, PTL DEF Spec

-----------------------------------------------------------------------------
(* The handler knows of every WAN on the modem, and stops it before it      *)
(* changes the modules.                                                     *)
LEMMA WanInvHolds == Spec => []WanInv
<1> USE DEF WanInv, Applied, InHandler, Reading, OnModem
<1>1. Init => WanInv
  BY DEF Init
<1>2. TypeOK /\ DriversInv /\ WanInv /\ [Next]_vars => WanInv'
  <2> SUFFICES ASSUME TypeOK, DriversInv, WanInv, [Next]_vars PROVE WanInv'
    OBVIOUS
  <2> USE DEF settings, copies, modem, link, locals, lost
  <2>1. CASE TakeRestartModem
    BY <2>1 DEF TakeRestartModem
  <2>2. CASE ReadRule
    BY <2>2 DEF ReadRule
  <2>3. CASE ReadType
    BY <2>3 DEF ReadType
  <2>4. CASE RuleChanged
    BY <2>4 DEF RuleChanged
  <2>5. CASE RuleModules
    BY <2>5 DEF RuleModules, Load
  <2>6. CASE TypeChanged
    BY <2>6 DEF TypeChanged
  <2>7. CASE TypeModules
    BY <2>7 DEF TypeModules, Load
  <2>8. CASE EndOfHandler
    BY <2>8 DEF EndOfHandler
  <2>9. CASE TakeReconnect
    BY <2>9 DEF TakeReconnect
  <2>10. CASE StopWan
    BY <2>10 DEF StopWan
  <2>11. CASE Select
    BY <2>11 DEF Select, Ready
  <2>12. CASE StartWan
    BY <2>12, DriverValues DEF StartWan
  <2>13. CASE Disconnect
    BY <2>13 DEF Disconnect
  <2>14. CASE Edit
    BY <2>14 DEF Edit
  <2>15. CASE Notify
    BY <2>15 DEF Notify
  <2>16. CASE Request
    BY <2>16 DEF Request
  <2>17. CASE Hotplug
    BY <2>17 DEF Hotplug
  <2>18. CASE InternetLost
    BY <2>18 DEF InternetLost
  <2>19. CASE CheckModem
    BY <2>19 DEF CheckModem
  <2>20. CASE ReadLink
    BY <2>20 DEF ReadLink
  <2>21. CASE PreferOther
    BY <2>21 DEF PreferOther
  <2>22. CASE PostReconnect
    BY <2>22 DEF PostReconnect
  <2>23. CASE UNCHANGED vars
    BY <2>23 DEF vars
  <2>24. QED
    BY <2>1, <2>2, <2>3, <2>4, <2>5, <2>6, <2>7, <2>8, <2>9, <2>10, <2>11, <2>12,
       <2>13, <2>14, <2>15, <2>16, <2>17, <2>18, <2>19, <2>20, <2>21, <2>22, <2>23
       DEF Next, InitStep, DetectInternet
<1>3. QED
  BY <1>1, <1>2, TypeCorrect, DriversInvHolds, PTL DEF Spec

(* Whatever was edited when, the modules are in the end those of the        *)
(* settings, and a WAN on the modem runs over them.                         *)
THEOREM ModemFollows == Spec => []ModemFollowsSettings
<1>1. DriversInv /\ WanInv => ModemFollowsSettings
  BY DriverValues DEF DriversInv, WanInv, ModemFollowsSettings, InHandler, Reading
<1>2. QED
  BY <1>1, DriversInvHolds, WanInvHolds, PTL

(* The modules change only while no WAN runs over them.                     *)
THEOREM ModulesFree == Spec => ModulesFreeWhenChanged
<1>1. WanInv /\ [Next]_vars => [drivers' # drivers => ~OnModem]_vars
  <2> SUFFICES ASSUME WanInv, Next, drivers' # drivers PROVE ~OnModem
    OBVIOUS
  <2>1. RuleModules \/ TypeModules
    BY DEF Next, InitStep, TakeRestartModem, RuleChanged, TypeChanged, EndOfHandler,
           TakeReconnect, StopWan, Select, StartWan, Disconnect, Edit, Notify, Request,
           Hotplug, DetectInternet, InternetLost, CheckModem, ReadLink, PreferOther,
           PostReconnect, ReadRule, ReadType, modem
  <2>2. QED
    BY <2>1 DEF WanInv, RuleModules, TypeModules
<1>2. QED
  BY <1>1, WanInvHolds, PTL DEF Spec, ModulesFreeWhenChanged

(* A manual disconnect stops the WAN when no edit waits to be applied:      *)
(* modem_type is then the one the WAN was started with.                     *)
THEOREM DisconnectWorks == Spec => DisconnectStops
<1>1. TypeOK /\ WanInv /\ [Next]_vars =>
        [(Applied /\ "manual_wan_disconnect" \in markers \ markers') => wan' = "none"]_vars
  <2> SUFFICES ASSUME TypeOK, WanInv, Next, Applied,
                      "manual_wan_disconnect" \in markers \ markers'
               PROVE  wan' = "none"
    OBVIOUS
  <2>1. Disconnect
    BY DEF Next, InitStep, TakeRestartModem, RuleChanged, RuleModules, TypeChanged,
           TypeModules, EndOfHandler, TakeReconnect, StopWan, Select, StartWan, Edit,
           Notify, Request, Hotplug, DetectInternet, InternetLost, CheckModem, ReadLink,
           PreferOther, PostReconnect, ReadRule, ReadType
  <2>2. wan = "usbnet" => type = Usbnet
    BY <2>1, DriverValues DEF WanInv, OnModem, Disconnect
  <2>3. QED
    BY <2>1, <2>2 DEF Disconnect
<1>2. QED
  BY <1>1, TypeCorrect, WanInvHolds, PTL DEF Spec, DisconnectStops

-----------------------------------------------------------------------------
(* The preference stays against the link that failed, and WAN follows it.   *)
LEMMA FailoverInvHolds == Spec => []FailoverInv
<1> USE DEF FailoverInv, Ready, InHandler, Reading, OnModem
<1>1. Init => FailoverInv
  BY DEF Init
<1>2. TypeOK /\ WanInv /\ FailoverInv /\ [Next]_vars => FailoverInv'
  <2> SUFFICES ASSUME TypeOK, WanInv, FailoverInv, [Next]_vars PROVE FailoverInv'
    OBVIOUS
  <2> USE DEF settings, copies, modem, link, locals, lost
  <2>1. CASE TakeRestartModem
    BY <2>1 DEF TakeRestartModem
  <2>2. CASE ReadRule
    BY <2>2 DEF ReadRule
  <2>3. CASE ReadType
    BY <2>3 DEF ReadType
  <2>4. CASE RuleChanged
    BY <2>4 DEF RuleChanged
  <2>5. CASE RuleModules
    BY <2>5 DEF RuleModules, Load
  <2>6. CASE TypeChanged
    BY <2>6 DEF TypeChanged
  <2>7. CASE TypeModules
    BY <2>7 DEF TypeModules, Load
  <2>8. CASE EndOfHandler
    BY <2>8 DEF EndOfHandler
  <2>9. CASE TakeReconnect
    BY <2>9 DEF TakeReconnect
  <2>10. CASE StopWan
    BY <2>10 DEF StopWan
  <2>11. CASE Select
    <3>1. UNCHANGED <<rule, type, prio, drivers, device, markers, wan, failed>>
          /\ pc' = "start"
      BY <2>11 DEF Select
    <3>2. failed # "none" => (modem_wan' <=> failed = "eth")
      <4>1. PICK has_link \in BOOLEAN :
              modem_wan' = (Ready /\ (prio = 1 \/ (prio = 2 /\ ~has_link)))
        BY <2>11 DEF Select
      <4>2. failed # "none" => Ready /\ prio = IF failed = "modem" THEN 0 ELSE 1
        OBVIOUS
      <4>3. failed = "eth" => modem_wan'
        BY <4>1, <4>2
      <4>4. failed = "modem" => ~modem_wan'
        <5>1. failed = "modem" => prio # 1 /\ prio # 2
          BY <4>2
        <5>2. QED
          BY <4>1, <5>1, Zenon
      <4>5. failed \in {"none", "eth", "modem"}
        BY DEF TypeOK
      <4>6. QED
        BY <4>3, <4>4, <4>5
    <3>3. QED
      BY <3>1, <3>2
  <2>12. CASE StartWan
    BY <2>12, DriverValues DEF StartWan
  <2>13. CASE Disconnect
    BY <2>13 DEF Disconnect
  <2>14. CASE Edit
    BY <2>14 DEF Edit
  <2>15. CASE Notify
    BY <2>15 DEF Notify
  <2>16. CASE Request
    BY <2>16 DEF Request
  <2>17. CASE Hotplug
    BY <2>17 DEF Hotplug
  <2>18. CASE InternetLost
    BY <2>18 DEF InternetLost
  <2>19. CASE CheckModem
    BY <2>19 DEF CheckModem
  <2>20. CASE ReadLink
    BY <2>20 DEF ReadLink
  <2>21. CASE PreferOther
    BY <2>21 DEF PreferOther, TypeOK
  <2>22. CASE PostReconnect
    BY <2>22 DEF PostReconnect
  <2>23. CASE UNCHANGED vars
    BY <2>23 DEF vars
  <2>24. QED
    BY <2>1, <2>2, <2>3, <2>4, <2>5, <2>6, <2>7, <2>8, <2>9, <2>10, <2>11, <2>12,
       <2>13, <2>14, <2>15, <2>16, <2>17, <2>18, <2>19, <2>20, <2>21, <2>22, <2>23
       DEF Next, InitStep, DetectInternet
<1>3. QED
  BY <1>1, <1>2, TypeCorrect, WanInvHolds, PTL DEF Spec

(* A failover ends on the other link, however often the loss was reported   *)
(* and whatever came in between, if the link that was lost is the one that  *)
(* detect_internet found selected.                                          *)
THEOREM FailoverSwitched == Spec => []FailoverSwitches
<1>1. FailoverInv => FailoverSwitches
  BY DEF FailoverInv, FailoverSwitches
<1>2. QED
  BY <1>1, FailoverInvHolds, PTL
=============================================================================
