------------------------------ MODULE RcNotify ------------------------------
(***************************************************************************)
(* The notification channel of the rc daemon (rc.c, handle_notifications). *)
(*                                                                         *)
(* A process that wants an action from init creates two marker files named *)
(* after the event, one in DIR_RC_INCOMPLETE and one in DIR_RC_NOTIFY, and *)
(* signals pid 1.  Signals of one kind coalesce.  Init then makes one pass *)
(* over DIR_RC_NOTIFY: it reads at most Limit directory entries, removes a *)
(* marker before it runs the marker's action, and removes the incomplete   *)
(* marker after the action unless the event was requested again meanwhile. *)
(*                                                                         *)
(* What one action does is left out here: the other modules model the      *)
(* actions that have state of their own.                                   *)
(***************************************************************************)
EXTENDS Naturals, FiniteSets

CONSTANTS
  Events,     (* the names the dispatch of handle_notifications knows      *)
  Stoppers,   (* the events after which the pass stops: reboot and flash   *)
  Posters,    (* processes that call notify_rc                             *)
  Limit,      (* directory entries read in one pass; 10 in the source      *)
  Dots        (* entries of the directory that are no marker: "." and ".." *)

None == "none"

ASSUME EventsAssumption == IsFiniteSet(Events) /\ None \notin Events
ASSUME StoppersAssumption == Stoppers \subseteq Events
ASSUME BoundsAssumption == Limit \in Nat /\ Dots \in Nat

VARIABLES
  notify,     (* markers in DIR_RC_NOTIFY                                  *)
  incomplete, (* markers in DIR_RC_INCOMPLETE                              *)
  signal,     (* a SIGUSR1 is pending at init                              *)
  hpc,        (* where handle_notifications is                             *)
  ev,         (* the entry it is handling, entry->d_name                   *)
  listing,    (* markers that were there at opendir and are not yet read   *)
  dots,       (* entries "." and ".." not yet read                         *)
  budget,     (* iterations the for loop has left                          *)
  stopped,    (* stop_handle was set in an earlier pass                    *)
  down,       (* init left its main loop: reboot, or firmware written      *)
  ppc,        (* where each poster is in notify_rc                         *)
  pev,        (* the event each poster requests                            *)
  owed        (* history: requested, and no action started since           *)

dirs == <<notify, incomplete>>
handler == <<hpc, ev, listing, dots, budget, stopped, down>>
poster == <<ppc, pev>>
vars == <<dirs, signal, handler, poster, owed>>

Init ==
  /\ notify = {} /\ incomplete = {} /\ owed = {}
  /\ signal = FALSE
  /\ hpc = "idle" /\ ev = None
  /\ listing = {} /\ dots = 0 /\ budget = Limit
  /\ stopped = FALSE /\ down = FALSE
  /\ ppc = [p \in Posters |-> "idle"]
  /\ pev = [p \in Posters |-> None]

-----------------------------------------------------------------------------
(* notify_rc(event), called by the scripts of udhcpc and pppd, by httpd and *)
(* by the watchdog: three system calls between which init can run.          *)

PostIncomplete(p, e) ==
  /\ ppc[p] = "idle"
  /\ ppc' = [ppc EXCEPT ![p] = "marked"]
  /\ pev' = [pev EXCEPT ![p] = e]
  /\ incomplete' = incomplete \cup {e}
  /\ UNCHANGED <<notify, signal, handler, owed>>

PostNotify(p) ==
  /\ ppc[p] = "marked"
  /\ ppc' = [ppc EXCEPT ![p] = "posted"]
  /\ notify' = notify \cup {pev[p]}
  /\ owed' = owed \cup {pev[p]}
  /\ UNCHANGED <<incomplete, signal, handler, pev>>

PostSignal(p) ==
  /\ ppc[p] = "posted"
  /\ ppc' = [ppc EXCEPT ![p] = "idle"]
  /\ pev' = [pev EXCEPT ![p] = None]
  /\ signal' = TRUE
  /\ UNCHANGED <<dirs, handler, owed>>

-----------------------------------------------------------------------------
(* Init's main loop takes the signal and calls handle_notifications.        *)

StartPass ==
  /\ hpc = "idle" /\ ~down /\ signal
  /\ signal' = FALSE
  /\ hpc' = "read"
  /\ listing' = notify /\ dots' = Dots /\ budget' = Limit
  /\ UNCHANGED <<dirs, ev, stopped, down, poster, owed>>

(* An iteration of the loop spent on "." or "..".                           *)
ReadDot ==
  /\ hpc = "read" /\ budget > 0 /\ dots > 0
  /\ dots' = dots - 1 /\ budget' = budget - 1
  /\ UNCHANGED <<dirs, signal, hpc, ev, listing, stopped, down, poster, owed>>

(* Mutant: the limit of the loop is tested only for "." and "..".           *)
ReadEventNoLimit(e) ==
  /\ hpc = "read" /\ e \in notify
  /\ budget' = budget - 1
  /\ listing' = listing \ {e}
  /\ ev' = e /\ hpc' = "removed"
  /\ notify' = notify \ {e}
  /\ UNCHANGED <<incomplete, signal, dots, stopped, down, poster, owed>>

(* readdir returns a marker, in no particular order: one of those that were *)
(* there at opendir, or one created since.  The marker is removed first.    *)
ReadEvent(e) ==
  /\ hpc = "read" /\ budget > 0 /\ e \in notify
  /\ budget' = budget - 1
  /\ listing' = listing \ {e}
  /\ ev' = e /\ hpc' = "removed"
  /\ notify' = notify \ {e}
  /\ UNCHANGED <<incomplete, signal, dots, stopped, down, poster, owed>>

(* Mutant: the pending signal is cleared after the pass, not before it.     *)
EndOfDirClearsSignal ==
  /\ hpc = "read" /\ budget > 0 /\ dots = 0 /\ listing = {}
  /\ hpc' = "idle" /\ signal' = FALSE
  /\ UNCHANGED <<dirs, ev, listing, dots, budget, stopped, down, poster, owed>>

(* readdir returns NULL; entries created since opendir need not be seen.    *)
EndOfDir ==
  /\ hpc = "read" /\ budget > 0 /\ dots = 0 /\ listing = {}
  /\ hpc' = "idle"
  /\ UNCHANGED <<dirs, signal, ev, listing, dots, budget, stopped, down,
                 poster, owed>>

(* The for loop has run Limit times.                                        *)
PassFull ==
  /\ hpc = "read" /\ budget = 0
  /\ hpc' = "idle" /\ listing' = {} /\ dots' = 0
  /\ UNCHANGED <<dirs, signal, ev, budget, stopped, down, poster, owed>>

(* The dispatch calls the action: it now sees what the requester wrote.     *)
BeginAction ==
  /\ hpc = "removed"
  /\ hpc' = "acting"
  /\ owed' = owed \ {ev}
  /\ UNCHANGED <<dirs, signal, ev, listing, dots, budget, stopped, down,
                 poster>>

EndAction ==
  /\ hpc = "acting"
  /\ hpc' = "test"
  /\ UNCHANGED <<dirs, signal, ev, listing, dots, budget, stopped, down,
                 poster, owed>>

(* Mutant: the request marker is removed when the action is over.           *)
TestMarkerRemovesRequest ==
  /\ hpc = "test"
  /\ hpc' = "unmark"
  /\ notify' = notify \ {ev}
  /\ UNCHANGED <<incomplete, signal, ev, listing, dots, budget, stopped, down,
                 poster, owed>>

(* Mutant: the test of fopen's result is inverted.                          *)
TestMarkerInverted ==
  /\ hpc = "test"
  /\ hpc' = IF ev \in notify THEN "unmark" ELSE "next"
  /\ UNCHANGED <<dirs, signal, ev, listing, dots, budget, stopped, down,
                 poster, owed>>

(* fopen(notify_name): was the same event requested again?                  *)
TestMarker ==
  /\ hpc = "test"
  /\ hpc' = IF ev \in notify THEN "next" ELSE "unmark"
  /\ UNCHANGED <<dirs, signal, ev, listing, dots, budget, stopped, down,
                 poster, owed>>

RemoveIncomplete ==
  /\ hpc = "unmark"
  /\ hpc' = "next"
  /\ incomplete' = incomplete \ {ev}
  /\ UNCHANGED <<notify, signal, ev, listing, dots, budget, stopped, down,
                 poster, owed>>

(* The next iteration, or the break on stop_handle.  A reboot takes init    *)
(* down; a flash does unless mtd_write fails, and then init goes on.        *)
NextIteration ==
  /\ hpc = "next"
  /\ ev' = None
  /\ IF ev \in Stoppers
     THEN /\ hpc' = "idle" /\ listing' = {} /\ dots' = 0
          /\ stopped' = TRUE
          /\ down' \in BOOLEAN
     ELSE hpc' = "read" /\ UNCHANGED <<listing, dots, stopped, down>>
  /\ UNCHANGED <<dirs, signal, budget, poster, owed>>

Handler ==
  \/ StartPass \/ ReadDot \/ EndOfDir \/ PassFull
  \/ \E e \in Events : ReadEvent(e)
  \/ BeginAction \/ EndAction \/ TestMarker \/ RemoveIncomplete
  \/ NextIteration

Post(p) == (\E e \in Events : PostIncomplete(p, e)) \/ PostNotify(p) \/ PostSignal(p)

Next == Handler \/ \E p \in Posters : Post(p)

(* Init runs whenever it can; a poster that has made the first marker also  *)
(* makes the second and sends the signal.                                   *)
Fairness ==
  /\ WF_vars(Handler)
  /\ \A p \in Posters : WF_vars(PostNotify(p) \/ PostSignal(p))

Spec == Init /\ [][Next]_vars
FairSpec == Spec /\ Fairness

-----------------------------------------------------------------------------
TypeOK ==
  /\ notify \subseteq Events /\ incomplete \subseteq Events
  /\ owed \subseteq Events /\ listing \subseteq Events
  /\ signal \in BOOLEAN /\ stopped \in BOOLEAN /\ down \in BOOLEAN
  /\ hpc \in {"idle", "read", "removed", "acting", "test", "unmark", "next"}
  /\ ev \in Events \cup {None}
  /\ dots \in 0 .. Dots /\ budget \in 0 .. Limit
  /\ ppc \in [Posters -> {"idle", "marked", "posted"}]
  /\ pev \in [Posters -> Events \cup {None}]
  /\ (hpc \notin {"idle", "read"}) => ev \in Events
  /\ \A p \in Posters : ppc[p] # "idle" => pev[p] \in Events

(* A request is never lost: from the moment its marker exists until an      *)
(* action that starts after it, the marker is there or init has just taken  *)
(* it to start that action (remove() precedes the dispatch, rc.c:1047-1055).*)
NoLostRequest ==
  owed \subseteq notify \cup (IF hpc = "removed" THEN {ev} ELSE {})

SignalComing == signal \/ \E p \in Posters : ppc[p] = "posted"

(* "We leave the marker because we'll go through here again" (rc.c:1481):   *)
(* when init is back in its loop and a marker is left, a signal is pending  *)
(* or its sender is about to send it.  The code keeps this only as long as a *)
(* pass has an iteration left for every marker.                             *)
NoStrandedMarker ==
  (hpc = "idle" /\ ~stopped /\ notify # {}) => SignalComing

(* What the code does keep, however many events there are: the one way to   *)
(* put init to sleep on a marker is a pass that used up its iterations      *)
(* (rc.c:1034).  A signal that comes while init is in a pass, however late, *)
(* and a marker that readdir no longer returns always lead to another pass. *)
StrandedOnlyByFullPass == NoStrandedMarker \/ budget = 0

(* Why it holds, as an inductive invariant: during a pass that still has    *)
(* iterations either a signal is coming or every marker was there at opendir.*)
PassSeesMarkers ==
  /\ StrandedOnlyByFullPass
  /\ hpc # "idle" => SignalComing \/ notify \subseteq listing

(* A notify_rc call for e is between its two markers.                       *)
Requesting(e) == \E p \in Posters : ppc[p] = "marked" /\ pev[p] = e

(* A requester that waits for its incomplete marker to go away does not wait *)
(* for nothing: some other request, init's iteration or a notify_rc call    *)
(* half way through still answers for the marker (rc.c:1479-1491).          *)
WaiterCovered ==
  \A e \in incomplete :
    \/ e \in notify
    \/ ev = e /\ hpc \in {"removed", "acting", "test", "unmark"}
    \/ Requesting(e)

(* "If there hasn't been another request for the same event made since we   *)
(* started, we can safely remove the incomplete marker. Otherwise, we leave *)
(* the marker" (rc.c:1479-1486): the incomplete marker of an event that has *)
(* been requested again is never removed.                                   *)
IncompleteKeptForNewRequest ==
  [][\A e \in incomplete \ incomplete' : e \notin notify]_vars

(* The pass has an iteration left for each entry it found at opendir.       *)
PassFits ==
  /\ ~stopped
  /\ hpc # "idle" => Cardinality(listing) + dots <= budget

(* As long as the passes have room, a requester that waits for its incomplete*)
(* marker waits until the requests of the same event stop, and no longer,   *)
(* whatever else is requested for ever beside it (rc.c:1479-1497).          *)
WaitersReleased ==
  []PassFits =>
    \A e \in Events : <>[]~Requesting(e) => (e \in incomplete ~> e \notin incomplete)

(* The channel implements the box: a request is pending while its marker is *)
(* in DIR_RC_NOTIFY, and served from there to the end of its action.        *)
Box == INSTANCE RequestBox WITH
         pending <- notify,
         serving <- IF hpc \in {"removed", "acting"} THEN {ev} ELSE {}

(* Every step of the pass and of the requesters is one of the box or none:  *)
(* no marker disappears but by being taken, and none is taken while another *)
(* is served (rc.c:1047-1055).                                              *)
ImplementsBox == Box!Spec

(* And as long as the passes have room (rc.c:1034) every service ends and   *)
(* every request is taken, whatever is requested for ever beside it.        *)
ImplementsFairBox == Box!Spec /\ ([]PassFits => Box!Fairness)
=============================================================================
