------------------------------- MODULE Events -------------------------------
(***************************************************************************)
(* Software-triggered events (libUDB/events.c) at EVENT_PRIORITY_MEDIUM:   *)
(* one interrupt (level 2) scans the registered handlers in the order of   *)
(* their registration and calls those that are pending.  The handlers are  *)
(* never preempted by each other, only by higher levels, which may trigger *)
(* more events during the scan.                                            *)
(*                                                                         *)
(* The interrupt's flag is set after a handler was made pending and is     *)
(* cleared before a scan, so that a handler that became pending behind the *)
(* scan is called by the next one: scan follows scan until none is         *)
(* pending.  The step from one pending handler to the next is atomic.      *)
(***************************************************************************)
EXTENDS Naturals, Sequences

CONSTANT Handlers   \* the handlers, in order of registration

ASSUME EventsAssumption == Handlers \in Seq(STRING) /\ Len(Handlers) > 0

VARIABLES
  eventPending,  \* the handlers whose eventPending is set
  eventIndex     \* the handler called last; 0 when the interrupt is over

evVars == <<eventPending, eventIndex>>

HandlerSet == {Handlers[i] : i \in 1 .. Len(Handlers)}

EventsInit == eventPending = {} /\ eventIndex = 0

(* trigger_event, for several handlers at once.                            *)
trigger_event(hs) ==
  /\ eventPending' = eventPending \cup hs
  /\ UNCHANGED eventIndex

(* The i-th handler is the first of the pending ones, after the one called *)
(* last or, when there is none after it, from the beginning.               *)
Turn(i, pending) ==
  LET Ahead(j) == j > eventIndex
      Waiting  == {j \in 1 .. Len(Handlers) : Handlers[j] \in pending}
  IN  /\ i \in Waiting
      /\ \A j \in Waiting : (Ahead(i) = Ahead(j)) => i <= j
      /\ Ahead(i) \/ \A j \in Waiting : ~Ahead(j)

(* eventPending is cleared before the handler is called ...                *)
Call(h, pending) ==
  \E i \in 1 .. Len(Handlers) :
    /\ Handlers[i] = h /\ Turn(i, pending)
    /\ eventPending' = pending \ {h}
    /\ eventIndex' = i

Called(h) == Call(h, eventPending)

(* ... and after it returns the interrupt ends if no other is pending.     *)
Returned ==
  /\ eventIndex' = IF eventPending = {} THEN 0 ELSE eventIndex
  /\ UNCHANGED eventPending

(* A handler that nothing can come in between.                             *)
CallAndReturn(h, pending) ==
  /\ \E i \in 1 .. Len(Handlers) : Handlers[i] = h /\ Turn(i, pending)
       /\ eventIndex' = IF pending = {h} THEN 0 ELSE i
  /\ eventPending' = pending \ {h}

CalledAndReturned(h) == CallAndReturn(h, eventPending)

(* An event that is triggered at any time is called when its turn comes.   *)
TriggeredAndReturned(h) == CallAndReturn(h, eventPending \cup {h})

EventsTypeOK ==
  /\ eventPending \subseteq HandlerSet
  /\ eventIndex \in 0 .. Len(Handlers)
=============================================================================
