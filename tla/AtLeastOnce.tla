---------------------------- MODULE AtLeastOnce ----------------------------
(* What the delivery of events promises: the system holds an event from its
   publication until it has processed it or has given it up, and does neither
   to an event it does not hold.  An event may be held again after that: the
   promise is at least once. *)
CONSTANT Events

VARIABLES
  held,      \* events of which a copy is queued or worked on
  processed, \* events that were processed
  givenUp    \* events of which a copy was dropped unprocessed

vars == <<held, processed, givenUp>>

Init == held = {} /\ processed = {} /\ givenUp = {}

(* Any number of events move in one step. *)
Process == processed \subseteq processed' /\ processed' \ processed \subseteq held
GiveUp  == givenUp \subseteq givenUp' /\ givenUp' \ givenUp \subseteq held
LetGo   == held \ held' \subseteq processed' \cup givenUp'
Accept  == held' \subseteq Events

Next == Process /\ GiveUp /\ LetGo /\ Accept

Spec == Init /\ [][Next]_vars
============================================================================
