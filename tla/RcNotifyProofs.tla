--------------------------- MODULE RcNotifyProofs ---------------------------
(* Proofs about handle_notifications, for every set of events and posters.  *)
EXTENDS RcNotify, TLAPS

(* The variables keep their types: in particular the loop counter never     *)
(* leaves 0 .. Limit and the handler is inside an iteration only with the   *)
(* name of an event in hand.                                                *)
THEOREM TypeCorrect == Spec => []TypeOK
<1>1. Init => TypeOK
  <2> SUFFICES ASSUME Init PROVE TypeOK
    OBVIOUS
  <2>1. 0 \in 0 .. Dots /\ Limit \in 0 .. Limit
    BY BoundsAssumption
  <2>2. \A p \in Posters : ppc[p] = "idle"
    BY DEF Init
  <2>3. QED
    BY <2>1, <2>2 DEF Init, TypeOK
<1>2. TypeOK /\ [Next]_vars => TypeOK'
  <2> SUFFICES ASSUME TypeOK, [Next]_vars PROVE TypeOK'
    OBVIOUS
  <2> USE EventsAssumption, StoppersAssumption, BoundsAssumption DEF TypeOK
  <2>0. Dots \in 0 .. Dots /\ Limit \in 0 .. Limit /\ 0 \in 0 .. Dots
    BY BoundsAssumption
  <2>1. CASE StartPass
    BY <2>0, <2>1 DEF StartPass, dirs, poster
  <2>2. CASE ReadDot
    BY <2>2 DEF ReadDot, dirs, poster
  <2>3. ASSUME NEW e \in Events, ReadEvent(e) PROVE TypeOK'
    BY <2>3 DEF ReadEvent, poster
  <2>4. CASE EndOfDir
    BY <2>4 DEF EndOfDir, dirs, poster
  <2>5. CASE PassFull
    BY <2>5 DEF PassFull, dirs, poster
  <2>6. CASE BeginAction
    BY <2>6 DEF BeginAction, dirs, poster
  <2>7. CASE EndAction
    BY <2>7 DEF EndAction, dirs, poster
  <2>8. CASE TestMarker
    BY <2>8 DEF TestMarker, dirs, poster
  <2>9. CASE RemoveIncomplete
    BY <2>9 DEF RemoveIncomplete, poster
  <2>10. CASE NextIteration
    <3>1. CASE ev \in Stoppers
      BY <2>0, <2>10, <3>1 DEF NextIteration, dirs, poster
    <3>2. CASE ev \notin Stoppers
      BY <2>10, <3>2 DEF NextIteration, dirs, poster
    <3>3. QED
      BY <3>1, <3>2
  <2>11. ASSUME NEW p \in Posters, NEW e \in Events, PostIncomplete(p, e)
         PROVE  TypeOK'
    BY <2>11 DEF PostIncomplete, handler
  <2>12. ASSUME NEW p \in Posters, PostNotify(p) PROVE TypeOK'
    BY <2>12 DEF PostNotify, handler
  <2>13. ASSUME NEW p \in Posters, PostSignal(p) PROVE TypeOK'
    BY <2>13 DEF PostSignal, dirs, handler
  <2>14. CASE UNCHANGED vars
    BY <2>14 DEF vars, dirs, handler, poster
  <2>15. QED
    BY <2>1, <2>2, <2>3, <2>4, <2>5, <2>6, <2>7, <2>8, <2>9, <2>10, <2>11,
       <2>12, <2>13, <2>14 DEF Next, Handler, Post
<1>3. QED
  BY <1>1, <1>2, PTL DEF Spec

(* A request is never lost: its marker is in the directory, or in init's    *)
(* hands, until an action starts after it.                                  *)
THEOREM RequestsKept == Spec => []NoLostRequest
<1>1. Init => NoLostRequest
  BY DEF Init, NoLostRequest
<1>2. TypeOK /\ NoLostRequest /\ [Next]_vars => NoLostRequest'
  <2> SUFFICES ASSUME TypeOK, NoLostRequest, [Next]_vars
               PROVE  NoLostRequest'
    OBVIOUS
  <2> USE DEF NoLostRequest
  <2>1. CASE StartPass
    BY <2>1 DEF StartPass, dirs
  <2>2. CASE ReadDot
    BY <2>2 DEF ReadDot, dirs
  <2>3. ASSUME NEW e \in Events, ReadEvent(e) PROVE NoLostRequest'
    BY <2>3 DEF ReadEvent
  <2>4. CASE EndOfDir
    BY <2>4 DEF EndOfDir, dirs
  <2>5. CASE PassFull
    BY <2>5 DEF PassFull, dirs
  <2>6. CASE BeginAction
    BY <2>6 DEF BeginAction, dirs
  <2>7. CASE EndAction
    BY <2>7 DEF EndAction, dirs
  <2>8. CASE TestMarker
    BY <2>8 DEF TestMarker, dirs
  <2>9. CASE RemoveIncomplete
    BY <2>9 DEF RemoveIncomplete
  <2>10. CASE NextIteration
    BY <2>10 DEF NextIteration, dirs
  <2>11. ASSUME NEW p \in Posters, NEW e \in Events, PostIncomplete(p, e)
         PROVE  NoLostRequest'
    BY <2>11 DEF PostIncomplete, handler
  <2>12. ASSUME NEW p \in Posters, PostNotify(p) PROVE NoLostRequest'
    BY <2>12 DEF PostNotify, handler
  <2>13. ASSUME NEW p \in Posters, PostSignal(p) PROVE NoLostRequest'
    BY <2>13 DEF PostSignal, dirs, handler
  <2>14. CASE UNCHANGED vars
    BY <2>14 DEF vars, dirs, handler
  <2>15. QED
    BY <2>1, <2>2, <2>3, <2>4, <2>5, <2>6, <2>7, <2>8, <2>9, <2>10, <2>11,
       <2>12, <2>13, <2>14 DEF Next, Handler, Post
<1>3. QED
  BY <1>1, <1>2, TypeCorrect, PTL DEF Spec

(* A requester that waits for its incomplete marker is never forgotten: the *)
(* marker goes away only after some request for its event, or an iteration  *)
(* that has begun on one, has been dealt with.                              *)
THEOREM WaitersCovered == Spec => []WaiterCovered
<1>1. Init => WaiterCovered
  BY DEF Init, WaiterCovered
<1>2. TypeOK /\ WaiterCovered /\ [Next]_vars => WaiterCovered'
  <2> SUFFICES ASSUME TypeOK, WaiterCovered, [Next]_vars
               PROVE  WaiterCovered'
    OBVIOUS
  <2> USE DEF WaiterCovered, Requesting
  <2>1. CASE StartPass
    BY <2>1 DEF StartPass, dirs, poster
  <2>2. CASE ReadDot
    BY <2>2 DEF ReadDot, dirs, poster
  <2>3. ASSUME NEW e \in Events, ReadEvent(e) PROVE WaiterCovered'
    BY <2>3 DEF ReadEvent, poster
  <2>4. CASE EndOfDir
    BY <2>4 DEF EndOfDir, dirs, poster
  <2>5. CASE PassFull
    BY <2>5 DEF PassFull, dirs, poster
  <2>6. CASE BeginAction
    BY <2>6 DEF BeginAction, dirs, poster
  <2>7. CASE EndAction
    BY <2>7 DEF EndAction, dirs, poster
  <2>8. CASE TestMarker
    BY <2>8 DEF TestMarker, dirs, poster
  <2>9. CASE RemoveIncomplete
    BY <2>9 DEF RemoveIncomplete, poster
  <2>10. CASE NextIteration
    BY <2>10 DEF NextIteration, dirs, poster
  <2>11. ASSUME NEW p \in Posters, NEW e \in Events, PostIncomplete(p, e)
         PROVE  WaiterCovered'
    <3>1. /\ ppc' = [ppc EXCEPT ![p] = "marked"] /\ pev' = [pev EXCEPT ![p] = e]
          /\ ppc[p] = "idle" /\ incomplete' = incomplete \cup {e}
          /\ UNCHANGED <<notify, hpc, ev>>
      BY <2>11 DEF PostIncomplete, handler
    <3>2. ppc'[p] = "marked" /\ pev'[p] = e
      BY <3>1 DEF TypeOK
    <3>3. \A q \in Posters : ppc[q] = "marked" => ppc'[q] = "marked" /\ pev'[q] = pev[q]
      BY <3>1 DEF TypeOK
    <3>4. QED
      BY <3>1, <3>2, <3>3
  <2>12. ASSUME NEW p \in Posters, PostNotify(p) PROVE WaiterCovered'
    <3>1. /\ ppc' = [ppc EXCEPT ![p] = "posted"] /\ notify' = notify \cup {pev[p]}
          /\ UNCHANGED <<incomplete, hpc, ev, pev>>
      BY <2>12 DEF PostNotify, handler
    <3>2. \A q \in Posters \ {p} : ppc'[q] = ppc[q]
      BY <3>1 DEF TypeOK
    <3>3. QED
      BY <3>1, <3>2
  <2>13. ASSUME NEW p \in Posters, PostSignal(p) PROVE WaiterCovered'
    <3>1. \A q \in Posters : ppc[q] = "marked" => ppc'[q] = "marked"
      BY <2>13 DEF PostSignal, TypeOK
    <3>2. QED
      BY <2>13, <3>1 DEF PostSignal, dirs, handler
  <2>14. CASE UNCHANGED vars
    BY <2>14 DEF vars, dirs, handler, poster
  <2>15. QED
    BY <2>1, <2>2, <2>3, <2>4, <2>5, <2>6, <2>7, <2>8, <2>9, <2>10, <2>11,
       <2>12, <2>13, <2>14 DEF Next, Handler, Post
<1>3. QED
  BY <1>1, <1>2, TypeCorrect, PTL DEF Spec

(* SignalComing survives every step but the one that takes the signal.      *)
LEMMA SignalComingKept ==
  ASSUME TypeOK, [Next]_vars, SignalComing, ~StartPass
  PROVE  SignalComing'
<1> USE DEF SignalComing, TypeOK
<1>1. CASE Handler
  <2>1. UNCHANGED <<signal, ppc>>
    BY <1>1 DEF Handler, StartPass, ReadDot, ReadEvent, EndOfDir, PassFull,
       BeginAction, EndAction, TestMarker, RemoveIncomplete, NextIteration,
       dirs, poster
  <2>2. QED
    BY <2>1
<1>2. ASSUME NEW p \in Posters, NEW e \in Events, PostIncomplete(p, e)
      PROVE  SignalComing'
  BY <1>2 DEF PostIncomplete
<1>3. ASSUME NEW p \in Posters, PostNotify(p) PROVE SignalComing'
  BY <1>3 DEF PostNotify
<1>4. ASSUME NEW p \in Posters, PostSignal(p) PROVE SignalComing'
  BY <1>4 DEF PostSignal
<1>5. CASE UNCHANGED vars
  BY <1>5 DEF vars, poster
<1>6. QED
  BY <1>1, <1>2, <1>3, <1>4, <1>5 DEF Next, Post

(* During a pass that has iterations left, a signal is coming or readdir has *)
(* not yet returned any of the markers that are left.                        *)
THEOREM PassSees == Spec => []PassSeesMarkers
<1> USE DEF PassSeesMarkers, StrandedOnlyByFullPass, NoStrandedMarker
<1>1. Init => PassSeesMarkers
  BY DEF Init
<1>2. TypeOK /\ PassSeesMarkers /\ [Next]_vars => PassSeesMarkers'
  <2> SUFFICES ASSUME TypeOK, PassSeesMarkers, [Next]_vars
               PROVE  PassSeesMarkers'
    OBVIOUS
  <2>1. CASE StartPass
    BY <2>1 DEF StartPass, dirs
  <2>2. CASE SignalComing /\ ~StartPass
    BY <2>2, SignalComingKept
  <2>3. ASSUME ~SignalComing, ~StartPass PROVE PassSeesMarkers'
    <3> USE <2>3
    <3>1. CASE ReadDot
      BY <3>1 DEF ReadDot, dirs
    <3>2. ASSUME NEW e \in Events, ReadEvent(e) PROVE PassSeesMarkers'
      BY <3>2 DEF ReadEvent
    <3>3. CASE EndOfDir
      BY <3>3 DEF EndOfDir, dirs
    <3>4. CASE PassFull
      BY <3>4 DEF PassFull, dirs
    <3>5. CASE BeginAction
      BY <3>5 DEF BeginAction, dirs
    <3>6. CASE EndAction
      BY <3>6 DEF EndAction, dirs
    <3>7. CASE TestMarker
      BY <3>7 DEF TestMarker, dirs
    <3>8. CASE RemoveIncomplete
      BY <3>8 DEF RemoveIncomplete
    <3>9. CASE NextIteration
      BY <3>9 DEF NextIteration, dirs
    <3>10. ASSUME NEW p \in Posters, NEW e \in Events, PostIncomplete(p, e)
           PROVE  PassSeesMarkers'
      BY <3>10 DEF PostIncomplete, handler
    <3>11. ASSUME NEW p \in Posters, PostNotify(p) PROVE PassSeesMarkers'
      BY <3>11 DEF PostNotify, SignalComing, TypeOK
    <3>12. ASSUME NEW p \in Posters, PostSignal(p) PROVE PassSeesMarkers'
      BY <3>12 DEF PostSignal, SignalComing
    <3>13. CASE UNCHANGED vars
      BY <3>13 DEF vars, dirs, handler
    <3>14. QED
      BY <2>3, <3>1, <3>2, <3>3, <3>4, <3>5, <3>6, <3>7, <3>8, <3>9, <3>10,
         <3>11, <3>12, <3>13 DEF Next, Handler, Post
  <2>4. QED
    BY <2>1, <2>2, <2>3
<1>3. QED
  BY <1>1, <1>2, TypeCorrect, PTL DEF Spec

(* Init sleeps on a marker without a signal coming only after a pass that   *)
(* used up its iterations, or that a failed flash broke: whatever the       *)
(* events, the requesters and the limit, nothing else puts it to sleep.     *)
THEOREM StrandedOnlyThen == Spec => []StrandedOnlyByFullPass
<1>1. PassSeesMarkers => StrandedOnlyByFullPass
  BY DEF PassSeesMarkers
<1>2. QED
  BY <1>1, PassSees, PTL

(* The channel implements the box of requests: marker files, signals and    *)
(* directory passes show the rest of the router nothing but requests made,  *)
(* taken one at a time, and done.                                           *)
THEOREM ChannelIsBox == Spec => ImplementsBox
<1> USE DEF Box!vars
<1>1. Init => Box!Init
  BY DEF Init, Box!Init
<1>2. TypeOK /\ [Next]_vars => [Box!Next]_Box!vars
  <2> SUFFICES ASSUME TypeOK, [Next]_vars PROVE [Box!Next]_Box!vars
    OBVIOUS
  <2>1. CASE StartPass
    BY <2>1 DEF StartPass, dirs
  <2>2. CASE ReadDot
    BY <2>2 DEF ReadDot, dirs
  <2>3. ASSUME NEW e \in Events, ReadEvent(e) PROVE Box!Take(e)
    BY <2>3 DEF ReadEvent, Box!Take
  <2>4. CASE EndOfDir
    BY <2>4 DEF EndOfDir, dirs
  <2>5. CASE PassFull
    BY <2>5 DEF PassFull, dirs
  <2>6. CASE BeginAction
    BY <2>6 DEF BeginAction, dirs
  <2>7. CASE EndAction
    <3>1. Box!Done
      BY <2>7 DEF EndAction, dirs, Box!Done
    <3>2. QED
      BY <3>1 DEF Box!Next
  <2>8. CASE TestMarker
    BY <2>8 DEF TestMarker, dirs
  <2>9. CASE RemoveIncomplete
    BY <2>9 DEF RemoveIncomplete
  <2>10. CASE NextIteration
    BY <2>10 DEF NextIteration, dirs
  <2>11. ASSUME NEW p \in Posters, NEW e \in Events, PostIncomplete(p, e)
         PROVE  UNCHANGED Box!vars
    BY <2>11 DEF PostIncomplete, handler
  <2>12. ASSUME NEW p \in Posters, PostNotify(p) PROVE Box!Make(pev[p])
    BY <2>12 DEF PostNotify, handler, Box!Make
  <2>13. ASSUME NEW p \in Posters, PostNotify(p) PROVE pev[p] \in Events
    BY <2>13 DEF PostNotify, TypeOK
  <2>14. ASSUME NEW p \in Posters, PostSignal(p) PROVE UNCHANGED Box!vars
    BY <2>14 DEF PostSignal, dirs, handler
  <2>15. CASE UNCHANGED vars
    BY <2>15 DEF vars, dirs, handler
  <2>16. QED
    BY <2>1, <2>2, <2>3, <2>4, <2>5, <2>6, <2>7, <2>8, <2>9, <2>10, <2>11,
       <2>12, <2>13, <2>14, <2>15 DEF Next, Handler, Post, Box!Next
<1>3. QED
  BY <1>1, <1>2, TypeCorrect, PTL DEF Spec, ImplementsBox, Box!Spec
=============================================================================
