--------------------------- MODULE WanVlanProofs ----------------------------
(* Proofs about the VLAN interfaces of the WAN port, for every set of VIDs  *)
(* and every build.                                                         *)
EXTENDS WanVlan, TLAPS

(* A VID in use is one of those configured or the port's own, never Off.    *)
LEMMA EffectiveVid ==
  ASSUME NEW is \in BOOLEAN, NEW v \in Vids \cup {Off}
  PROVE  Effective(is, v) \in Ifs
BY DEF Effective, Ifs

(* Every variable keeps its type; only VIDs that can be configured become   *)
(* interfaces.                                                              *)
THEOREM TypeCorrect == Spec => []TypeOK
<1> USE DEF TypeOK, nvram, names, locals
<1>1. Init => TypeOK
  <2> SUFFICES ASSUME Init PROVE TypeOK
    OBVIOUS
  <2>1. tx_map \in (Ifs \cup {Off}) \X (Ifs \cup {Off})
    BY DEF Init
  <2>2. /\ filter \in BOOLEAN /\ is_filter \in BOOLEAN /\ edited \in BOOLEAN
        /\ vid_cpu \in Vids \cup {Off} /\ vid_iptv \in Vids \cup {Off}
    BY DEF Init
  <2>3. QED
    BY <2>1, <2>2 DEF Init, Steps
<1>2. TypeOK /\ [Next]_vars => TypeOK'
  <2> SUFFICES ASSUME TypeOK, [Next]_vars PROVE TypeOK'
    OBVIOUS
  <2>1. CASE Edit
    BY <2>1 DEF Edit
  <2>2. CASE StartWan
    BY <2>2 DEF StartWan, Steps
  <2>3. CASE ReadFilter
    BY <2>3 DEF ReadFilter, Steps
  <2>4. CASE ReadCpuVid
    BY <2>4, EffectiveVid DEF ReadCpuVid, Steps
  <2>5. CASE ConfigVinet
    BY <2>5, EffectiveVid DEF ConfigVinet, Steps
  <2>6. CASE LaunchViptv
    BY <2>6, EffectiveVid DEF LaunchViptv, Steps
  <2>7. CASE UNCHANGED vars
    BY <2>7 DEF vars
  <2>8. QED
    BY <2>1, <2>2, <2>3, <2>4, <2>5, <2>6, <2>7 DEF Next
<1>3. QED
  BY <1>1, <1>2, PTL DEF Spec

(* Only the two functions that build the interfaces touch them or the names *)
(* under which they are known.                                              *)
LEMMA OthersKeepVlans ==
  ASSUME Edit \/ StartWan \/ ReadFilter \/ ReadCpuVid \/ UNCHANGED vars
  PROVE  UNCHANGED <<viflast, viptv, vlans, tx_map>>
BY DEF Edit, StartWan, ReadFilter, ReadCpuVid, vars, names

(* No VLAN interface is ever left behind.                                   *)
THEOREM NoLeak == Spec => []NoVlanLeak
<1> USE DEF NoVlanLeak
<1>1. Init => NoVlanLeak
  BY DEF Init
<1>2. NoVlanLeak /\ [Next]_vars => NoVlanLeak'
  <2> SUFFICES ASSUME NoVlanLeak, [Next]_vars PROVE NoVlanLeak'
    OBVIOUS
  <2>1. CASE ConfigVinet
    BY <2>1 DEF ConfigVinet
  <2>2. CASE LaunchViptv
    BY <2>2 DEF LaunchViptv
  <2>3. QED
    BY <2>1, <2>2, OthersKeepVlans DEF Next
<1>3. QED
  BY <1>1, <1>2, PTL DEF Spec

(* What a start removes for IPTV is never Internet's interface, and IPTV's  *)
(* exists when the start is over.                                           *)
THEOREM NamedExist == Spec => []NamedIfacesExist
<1> USE DEF NamedIfacesExist
<1>1. Init => NamedIfacesExist
  BY DEF Init
<1>2. NamedIfacesExist /\ [Next]_vars => NamedIfacesExist'
  <2> SUFFICES ASSUME NamedIfacesExist, [Next]_vars PROVE NamedIfacesExist'
    OBVIOUS
  <2>1. CASE Edit
    BY <2>1 DEF Edit, names
  <2>2. CASE StartWan \/ ReadFilter \/ ReadCpuVid
    BY <2>2 DEF StartWan, ReadFilter, ReadCpuVid, names
  <2>3. CASE ConfigVinet
    BY <2>3 DEF ConfigVinet
  <2>4. CASE LaunchViptv
    BY <2>4 DEF LaunchViptv
  <2>5. CASE UNCHANGED vars
    BY <2>5 DEF vars, names
  <2>6. QED
    BY <2>1, <2>2, <2>3, <2>4, <2>5 DEF Next
<1>3. QED
  BY <1>1, <1>2, PTL DEF Spec

(* Read twice, the VIDs give one picture when nobody edits them meanwhile.  *)
THEOREM SamePicture == Spec => []InetAndIptvAgree
<1>1. Init => AgreeInv
  BY DEF Init, AgreeInv
<1>2. TypeOK /\ AgreeInv /\ [Next]_vars => AgreeInv'
  <2> SUFFICES ASSUME TypeOK, AgreeInv, [Next]_vars PROVE AgreeInv'
    OBVIOUS
  <2> USE DEF AgreeInv, nvram, names, locals, Untagged
  <2>1. CASE Edit
    BY <2>1 DEF Edit
  <2>2. CASE StartWan
    BY <2>2 DEF StartWan
  <2>3. CASE ReadFilter
    BY <2>3 DEF ReadFilter
  <2>4. CASE ReadCpuVid
    BY <2>4 DEF ReadCpuVid
  <2>5. CASE ConfigVinet
    BY <2>5 DEF ConfigVinet
  <2>6. CASE LaunchViptv
    BY <2>6 DEF LaunchViptv
  <2>7. CASE UNCHANGED vars
    BY <2>7 DEF vars
  <2>8. QED
    BY <2>1, <2>2, <2>3, <2>4, <2>5, <2>6, <2>7 DEF Next
<1>3. TypeOK /\ AgreeInv => InetAndIptvAgree
  BY OffAssumption DEF AgreeInv, InetAndIptvAgree, TypeOK
<1>4. QED
  BY <1>1, <1>2, <1>3, TypeCorrect, PTL DEF Spec
=============================================================================
