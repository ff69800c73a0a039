------------------------------ MODULE Missions ------------------------------
(***************************************************************************)
(* Missions over MAVLink (MatrixPilot/MAVMission.c), composed with the     *)
(* flight plan they are read from and written to.  The ground station is   *)
(* external: the link loses, repeats and delays what it sends, so any      *)
(* message may come at any time.                                           *)
(*                                                                         *)
(* Messages are handled at level 2, with the index and the flags that the  *)
(* output of the pulse (level 3) reads and clears.  Whom the answers are   *)
(* addressed to, and the announcements of waypoints reached and changed,   *)
(* are left out.                                                           *)
(***************************************************************************)
EXTENDS FlightPlan, Sequences

CONSTANTS
  MAVLINK_WAYPOINT_TIMEOUT,  \* in outputs
  Counts,                    \* the sizes of missions that are uploaded
  Seqs                       \* the waypoints the ground station makes current

ASSUME MissionsAssumption ==
  /\ MAVLINK_WAYPOINT_TIMEOUT \in Nat \ {0}
  /\ Counts \subseteq Nat

ASSUME SeqsAssumption == \A seq \in Seqs : seq \in Nat /\ seq < 65536

VARIABLES
  sending_waypoints, receiving_waypoints,
  waypoint_timeout,
  waypoint_request_i,
  wp_total,            \* params[PARAM_WP_TOTAL]
  toSend,              \* what the output is to send: request, count, item
  accepted,            \* the items taken since the last count: history
  acked,               \* the size of the mission that was acknowledged, or None
  asked,               \* the item asked for last, or None
  askedEarly,          \* the output overtook the handler of a count
  quiet,               \* outputs since the upload made progress
  ackSeen,             \* a message ACK came since then
  messages             \* that may yet come

flagVars    == <<sending_waypoints, receiving_waypoints, waypoint_timeout>>
historyVars == <<accepted, acked, asked, askedEarly, quiet, ackSeen>>
missionVars == <<flagVars, waypoint_request_i, wp_total, toSend, historyVars>>
planAll     == <<planVars, waypointIndex, goalVars, liveVars, modeVars, runVars>>
vars == <<planAll, missionVars, messages>>

None == -1

Init ==
  /\ PlanInit
  /\ sending_waypoints = FALSE /\ receiving_waypoints = FALSE
  /\ waypoint_timeout = 0 /\ waypoint_request_i = 0 /\ wp_total = 0
  /\ toSend = {}
  /\ accepted = <<>> /\ acked = None /\ asked = None /\ askedEarly = FALSE
  /\ quiet = 0 /\ ackSeen = FALSE
  /\ \E b \in Budgets : messages = b[1] /\ lives = b[2] /\ flies = b[3]

-----------------------------------------------------------------------------
(* A message is handled when no level above runs.                          *)
Handles ==
  /\ Turn("cmd", "idle")
  /\ messages > 0 /\ messages' = messages - 1

GoalUnchanged == UNCHANGED <<waypointIndex, goalVars, liveVars, modeVars>>
PlanUnchanged == UNCHANGED planAll

(* The history of an upload ends with it.                                  *)
NoHistory ==
  /\ accepted' = <<>> /\ acked' = None /\ asked' = None /\ askedEarly' = FALSE
  /\ quiet' = 0 /\ ackSeen' = FALSE

(* Mutant: the timeout runs on. *)
Restart_Not == UNCHANGED waypoint_timeout

Restart == waypoint_timeout' = MAVLINK_WAYPOINT_TIMEOUT

(* Mutant: the next item is not asked for. *)
AskForItem_Not == UNCHANGED toSend

AskForItem == toSend' = toSend \cup {"request"}

MissionRequestList ==
  /\ Handles
  /\ Restart
  /\ sending_waypoints' = TRUE /\ receiving_waypoints' = FALSE
  /\ toSend' = toSend \cup {"count"}
  /\ UNCHANGED <<waypoint_request_i, wp_total, historyVars>> /\ PlanUnchanged

MissionRequest ==
  /\ Handles /\ sending_waypoints
  /\ Restart
  /\ toSend' = toSend \cup {"item"}
  /\ UNCHANGED <<sending_waypoints, receiving_waypoints, waypoint_request_i, wp_total,
                 historyVars>>
  /\ PlanUnchanged

MissionAck ==
  /\ Handles
  /\ sending_waypoints' = FALSE
  /\ waypoint_timeout' = 0
  /\ ackSeen' = receiving_waypoints
  /\ UNCHANGED <<receiving_waypoints, waypoint_request_i, wp_total, toSend,
                 accepted, acked, asked, askedEarly, quiet>>
  /\ PlanUnchanged

MissionClearAll ==
  /\ Handles
  /\ wp_total' = 0
  /\ clear_flightplan
  /\ UNCHANGED <<flagVars, waypoint_request_i, toSend, historyVars, pc, reg>>
  /\ GoalUnchanged

(* The sequence number, unsigned, is handed over as an index with a sign.  *)
Int16(n) == IF n < 32768 THEN n ELSE n - 65536

(* set_waypoint goes on step by step; then the acknowledgement is sent.    *)
MissionSetCurrent(seq) ==
  /\ Handles
  /\ Goes("cmd", "check")
  /\ reg' = [reg EXCEPT !["cmd"] = [NoReg EXCEPT !.index = Int16(seq)]]
  /\ UNCHANGED <<missionVars, planVars, spoiled>> /\ GoalUnchanged

(* The index is reset last: the output may see the request before.         *)
MissionCountEnds ==
  /\ Turn("cmd", "count")
  /\ Goes("cmd", "idle")
  /\ waypoint_request_i' = 0
  /\ UNCHANGED <<flagVars, wp_total, toSend, historyVars, messages, planVars,
                 reg, spoiled>>
  /\ GoalUnchanged

(* Mutant: a mission may be larger than the list. *)
Total_Any(count) == count

Total(count) == IF count > MAX_WAYPOINTS THEN MAX_WAYPOINTS ELSE count

MissionCount(count) ==
  /\ Handles
  /\ wp_total' = Total(count)
  /\ Restart
  /\ receiving_waypoints' = TRUE /\ sending_waypoints' = FALSE
  /\ AskForItem
  /\ Goes("cmd", "count")
  /\ NoHistory
  /\ UNCHANGED <<waypoint_request_i, planVars, reg, spoiled>> /\ GoalUnchanged

(* Mutant: an item that was not asked for is taken. *)
TakesItem_Any(seq) == receiving_waypoints

(* An item of a command that is not supported is ignored like one that was *)
(* not asked for.                                                          *)
TakesItem(seq) == receiving_waypoints /\ seq = waypoint_request_i

MissionItem(seq) ==
  /\ Handles /\ TakesItem(seq)
  /\ Goes("cmd", "item")
  /\ reg' = [reg EXCEPT !["cmd"] = [NoReg EXCEPT !.index = seq]]
  /\ UNCHANGED <<missionVars, planVars, spoiled>> /\ GoalUnchanged

(* The upload may have timed out since the item was found to be the one.   *)
MissionItemStored ==
  /\ Turn("cmd", "item")
  /\ Goes("cmd", "idle") /\ reg' = [reg EXCEPT !["cmd"] = NoReg]
  /\ add_waypoint(Waypoint("item", reg["cmd"].index))
  /\ Restart
  /\ waypoint_request_i' = waypoint_request_i + 1
  /\ accepted' = Append(accepted, reg["cmd"].index)
  /\ quiet' = 0 /\ ackSeen' = FALSE /\ askedEarly' = FALSE
  /\ IF waypoint_request_i' = wp_total
     THEN receiving_waypoints' = FALSE /\ acked' = wp_total /\ UNCHANGED toSend
     ELSE AskForItem /\ UNCHANGED <<receiving_waypoints, acked>>
  /\ UNCHANGED <<sending_waypoints, wp_total, asked, spoiled, messages>>
  /\ GoalUnchanged

(* Bound: items behind the list, which only a mission of no items asks     *)
(* for, do not come.                                                       *)
Items == 0 .. MAX_WAYPOINTS - 1

handleMessage ==
  \/ MissionRequestList \/ MissionRequest \/ MissionAck \/ MissionClearAll
  \/ \E seq \in Seqs : MissionSetCurrent(seq)
  \/ \E seq \in Items : MissionItem(seq)
  \/ \E count \in Counts : MissionCount(count)

Command ==
  \/ MissionCountEnds \/ MissionItemStored
  \/ SetSteps("cmd") /\ UNCHANGED <<missionVars, messages>>

-----------------------------------------------------------------------------
(* Mutant: only a download times out. *)
StillReceiving_Always == receiving_waypoints

StillReceiving == receiving_waypoints /\ waypoint_timeout > 0

(* The output at the end of the pulse: time out, send what is to be sent.  *)
MAVMissionOutput_40hz ==
  /\ Turn("nav", "output") /\ Goes("nav", "idle")
  /\ sending_waypoints' = (sending_waypoints /\ waypoint_timeout > 0)
  /\ receiving_waypoints' = StillReceiving
  /\ toSend' = {}
  /\ waypoint_timeout' = IF waypoint_timeout > 0 THEN waypoint_timeout - 1 ELSE 0
  /\ IF receiving_waypoints
     THEN /\ asked' = IF "request" \in toSend THEN waypoint_request_i ELSE asked
          /\ askedEarly' = (askedEarly \/ ("request" \in toSend /\ pc["cmd"] = "count"))
          /\ quiet' = IF quiet < MAVLINK_WAYPOINT_TIMEOUT THEN quiet + 1 ELSE quiet
          /\ UNCHANGED <<accepted, acked, ackSeen>>
     ELSE IF pc["cmd"] = "item" THEN UNCHANGED historyVars ELSE NoHistory
  /\ UNCHANGED <<waypoint_request_i, wp_total, messages, planVars, reg, spoiled>>
  /\ GoalUnchanged

Pulse == MAVMissionOutput_40hz \/ (Update /\ UNCHANGED <<missionVars, messages>>)

Next ==
  \/ handleMessage \/ Command \/ Pulse
  \/ (UartByte \/ ModeChanges) /\ UNCHANGED <<missionVars, messages>>

Spec == Init /\ [][Next]_vars

(* The pulse goes on, and leaves time to the messages; a plane that steers *)
(* has GPS and arrives again and again.                                    *)
Fairness ==
  /\ WF_vars(Pulse) /\ SF_vars(Command)
  /\ SF_vars((LiveReady \/ Arrival) /\ UNCHANGED <<missionVars, messages>>)

FairSpec == Spec /\ Fairness

-----------------------------------------------------------------------------
MissionTypeOK ==
  /\ sending_waypoints \in BOOLEAN /\ receiving_waypoints \in BOOLEAN
  /\ waypoint_timeout \in 0 .. MAVLINK_WAYPOINT_TIMEOUT
  /\ waypoint_request_i \in Nat /\ wp_total \in 0 .. MAX_WAYPOINTS
  /\ toSend \subseteq {"request", "count", "item"}
  /\ messages \in Nat

(***************************************************************************)
(* Every variable has its type.                                            *)
(***************************************************************************)
TypeOK == PlanTypeOK /\ MissionTypeOK

(***************************************************************************)
(* A mission is acknowledged only when each of its items was taken once,   *)
(* in order, since the last count, whatever the link lost or repeated, and *)
(* although the timeout may pass while an item is being stored             *)
(* (MAVMission.c:278, 286, 372).                                           *)
(***************************************************************************)
AckedInOrder ==
  acked # None => accepted = [i \in 1 .. acked |-> i - 1]

(***************************************************************************)
(* While an upload waits, the item it waits for was asked for, or is about *)
(* to be, unless the output sent the request before the handler of the     *)
(* count had reset the index (MAVMission.c:264-265).                       *)
(***************************************************************************)
NextItemAsked ==
  receiving_waypoints /\ pc["cmd"] # "count" /\ ~askedEarly =>
    "request" \in toSend \/ asked = waypoint_request_i

(***************************************************************************)
(* An upload is only given up after the timeout without a new item, after  *)
(* an ACK, which is also one of a download before it, or at once when the  *)
(* ground station asks for the list (MAVMission.c:88-89, 193, 447): no     *)
(* other message, no output and no overtaking of a handler ends it.        *)
(***************************************************************************)
GivenUpLate ==
  [][receiving_waypoints /\ ~receiving_waypoints' /\ acked' = None =>
       quiet = MAVLINK_WAYPOINT_TIMEOUT \/ ackSeen \/ MissionRequestList]_vars

(***************************************************************************)
(* When the ground station falls silent no transfer stays open.            *)
(***************************************************************************)
TransfersEnd == <>[](~sending_waypoints /\ ~receiving_waypoints)

(***************************************************************************)
(* A plane that keeps steering by the main plan, as it was compiled, flies *)
(* to each of its waypoints again and again, whatever commands, live       *)
(* waypoints and changes of mode there were before: unless the flags in    *)
(* force make it loiter, or may, being those of a torn waypoint or, after  *)
(* a sequence number of 0x8000 or more (MAVMission.c:235), of what lies    *)
(* before the plan.                                                        *)
(***************************************************************************)
OnMainPlan ==
  /\ GPS_steering /\ begun = "main"
  /\ numPoints = Points["main"]
  /\ \A i \in 0 .. numPoints - 1 : waypoints[i] = Waypoint("main", i)
  /\ behaviour \notin Loiters \cup Undefined

RoundTrip ==
  <>[]OnMainPlan /\ <>[][~\E p \in Plans : flightplan_begin(p)]_vars =>
    \A i \in 0 .. Points["main"] - 1 : []<>(navgoal.point = Waypoint("main", i))
=============================================================================
