--------------------------- MODULE MissionsProofs ---------------------------
(***************************************************************************)
(* Theorems about uploads and live waypoints, for every plan, every        *)
(* mission, every timeout and any number of messages.                      *)
(***************************************************************************)
EXTENDS Missions, TLAPS

(* The numbers of 16 bits.                                                 *)
LEMMA Numbers ==
  /\ \A i \in Int : -32768 <= i /\ i <= 32767 => i \in INT16
  /\ \A i \in INT16 : i \in Int /\ -32768 <= i /\ i <= 32767
BY DEF INT16

LEMMA ZeroIsNumber == 0 \in INT16
BY DEF INT16

(* The types of waypoints and plans.                                       *)
LEMMA WaypointTypes ==
  /\ \A p \in Plans, i \in Nat : Waypoint(p, i) \in Placed
  /\ \A i \in Nat : Waypoint("item", i) \in Placed /\ Waypoint("live", i) \in Flown
  /\ Nowhere \in Flown /\ Torn \in Flown
  /\ Beyond \in Placed
  /\ Placed \subseteq Flown
BY DEF Plans, Waypoint, Placed, Flown, Nowhere, Torn, Beyond

LEMMA AtType ==
  ASSUME PlanTypeOK, NEW i \in Int
  PROVE  At(i) \in Flown
BY WaypointTypes DEF PlanTypeOK, At

LEMMA ReceivedType ==
  ASSUME PlanTypeOK
  PROVE  Received \in Flown
BY WaypointTypes, FlightPlanAssumption DEF PlanTypeOK, Received

LEMMA LoadType ==
  ASSUME NEW ws \in [Places -> Placed], NEW p \in Plans
  PROVE  load_flightplan(ws, p) \in [Places -> Placed]
BY WaypointTypes DEF load_flightplan, Places

LEMMA NoRegType == NoReg \in Registers
BY WaypointTypes, ZeroIsNumber DEF NoReg, Registers

LEMMA TypeInit == Init => TypeOK
<1> SUFFICES ASSUME Init
             PROVE  TypeOK
  OBVIOUS
<1>1. [i \in Places |-> Beyond] \in [Places -> Placed]
  BY WaypointTypes
<1>2. waypoints \in [Places -> Placed] /\ numPoints \in 0 .. MAX_WAYPOINTS
  BY <1>1, LoadType, FlightPlanAssumption DEF Init, PlanInit, Plans
<1>3. /\ current_waypoint \in Flown /\ behaviour \in Flown
      /\ navgoal \in [point: Flown, course: Flown]
  BY WaypointTypes DEF Init, PlanInit
<1>4. messages \in Nat /\ lives \in Nat /\ flies \in BOOLEAN
  BY FlightPlanAssumption DEF Init
<1>5. /\ wp_inject \in [0 .. LiveBytes - 1 -> Nat]
      /\ wp_inject_pos \in 0 .. READY
      /\ sio \in [message: Nat, sent: 0 .. LiveBytes]
  BY FlightPlanAssumption DEF Init, PlanInit, READY
<1>6. pc \in [Levels -> Steps] /\ reg \in [Levels -> Registers]
  BY NoRegType DEF Init, PlanInit, Steps
<1>7. waypointIndex \in INT16 /\ GPS_steering \in BOOLEAN
      /\ begun \in {"none", "main", "rtl"} /\ spoiled \in BOOLEAN
  <2>1. waypointIndex = 0 /\ GPS_steering = FALSE /\ begun = "none" /\ spoiled = FALSE
    BY DEF Init, PlanInit
  <2> QED BY <2>1, ZeroIsNumber
<1>8. PlanTypeOK
  BY <1>2, <1>3, <1>4, <1>5, <1>6, <1>7 DEF PlanTypeOK
<1>9. waypoint_timeout \in 0 .. MAVLINK_WAYPOINT_TIMEOUT /\ wp_total \in 0 .. MAX_WAYPOINTS
  BY MissionsAssumption, FlightPlanAssumption DEF Init
<1> QED
  BY <1>4, <1>8, <1>9 DEF Init, TypeOK, MissionTypeOK

(* The steps of set_waypoint, at either level.                             *)
LEMMA SetStepsType ==
  ASSUME PlanTypeOK, NEW l \in Levels, SetSteps(l)
  PROVE  PlanTypeOK'
<1> USE DEF PlanTypeOK, planVars, goalVars, liveVars, modeVars
<1>1. pc' \in [Levels -> Steps]
  BY DEF SetSteps, set_waypoint_check, set_waypoint_assign, set_waypoint_fetch,
         navigate_set_goal_point, navigate_set_goal_course, setBehavior,
         Goes, Ends, Sets, Steps
<1>2. At(waypointIndex) \in Flown /\ At(0) \in Flown
  BY AtType, Numbers
<1>3. reg' \in [Levels -> Registers]
  <2>1. \A to \in Flown, f \in {"first", "current"} :
          [reg[l] EXCEPT !.to = to, !.flags = f] \in Registers
    BY DEF Registers
  <2>2. CASE set_waypoint_fetch(l)
    <3> DEFINE f == IF waypointIndex = 0 THEN "first" ELSE "current"
    <3>1. reg' = [reg EXCEPT ![l] = [reg[l] EXCEPT !.to = At(waypointIndex), !.flags = f]]
      BY <2>2 DEF set_waypoint_fetch
    <3> QED BY <1>2, <2>1, <3>1
  <2>3. CASE ~set_waypoint_fetch(l)
    BY <2>3, NoRegType
       DEF SetSteps, set_waypoint_check, set_waypoint_assign,
           navigate_set_goal_point, navigate_set_goal_course, setBehavior, Sets
  <2> QED BY <2>2, <2>3
<1>4. spoiled' \in BOOLEAN
  <2>1. reg[l].cut \in BOOLEAN
    BY DEF Registers
  <2> QED BY <2>1
    DEF SetSteps, set_waypoint_check, set_waypoint_assign, set_waypoint_fetch,
        navigate_set_goal_point, navigate_set_goal_course, setBehavior, Sets
<1>5. reg[l].to \in Flown /\ reg[l].index \in INT16
  BY DEF Registers
<1>6. CASE set_waypoint_check(l) \/ set_waypoint_assign(l) \/ set_waypoint_fetch(l)
  BY <1>1, <1>2, <1>3, <1>4, <1>5, <1>6
     DEF set_waypoint_check, set_waypoint_assign, set_waypoint_fetch
<1>7. CASE navigate_set_goal_point(l) \/ navigate_set_goal_course(l)
  BY <1>1, <1>3, <1>4, <1>5, <1>7
     DEF navigate_set_goal_point, navigate_set_goal_course
<1>8. CASE setBehavior(l)
  <2>1. wp_inject_pos' \in 0 .. READY
    BY <1>8, FlightPlanAssumption DEF setBehavior, READY
  <2> QED BY <1>1, <1>2, <1>3, <1>4, <1>8, <2>1 DEF setBehavior
<1> QED BY <1>6, <1>7, <1>8 DEF SetSteps

(* An update that starts, with registers of the right type.                *)
LEMMA UpdateStartsType ==
  ASSUME PlanTypeOK, NEW step \in {"live", "wrap", "point"}, NEW r \in Registers,
         UpdateStarts(step, r),
         waypointIndex' \in INT16, current_waypoint' \in Flown
  PROVE  PlanTypeOK'
<1> USE DEF PlanTypeOK, UpdateStarts
<1>1. pc' \in [Levels -> Steps]
  BY DEF Goes, Steps
<1>2. reg' \in [Levels -> Registers]
  <2>1. [reg["cmd"] EXCEPT !.cut = (pc["cmd"] # "idle")] \in Registers
    BY DEF Levels, Registers
  <2> QED BY <2>1 DEF Levels
<1> QED BY <1>1, <1>2 DEF planVars, liveVars, modeVars

(* The index never passes the end of the list, although it is increased    *)
(* before it is compared: so it does not overflow.                         *)
IndexInv ==
  /\ waypointIndex <= MAX_WAYPOINTS
  /\ pc["nav"] # "wrap" => waypointIndex < MAX_WAYPOINTS
  /\ \A l \in Levels : pc[l] = "assign" => reg[l].index < MAX_WAYPOINTS
  /\ pc["cmd"] = "item" => reg["cmd"].index \in Nat
  /\ pc["cmd"] # "wrap"

LEMMA UpdateType ==
  ASSUME PlanTypeOK, IndexInv, Update
  PROVE  PlanTypeOK'
<1>1. CASE LiveReady
  BY <1>1, NoRegType, UpdateStartsType DEF LiveReady, PlanTypeOK
<1>7. CASE FlyLive
  <2>1. Received \in Flown
    BY ReceivedType
  <2>2. [reg["nav"] EXCEPT !.to = Received, !.flags = "live"] \in Registers
    BY <2>1 DEF PlanTypeOK, Levels, Registers
  <2>3. reg' \in [Levels -> Registers]
    BY <1>7, <2>2 DEF FlyLive, PlanTypeOK, Levels
  <2>4. pc' \in [Levels -> Steps]
    BY <1>7 DEF FlyLive, PlanTypeOK, Goes, Steps
  <2> QED BY <1>7, <2>1, <2>3, <2>4
          DEF FlyLive, PlanTypeOK, planVars, liveVars, modeVars
<1>2. CASE Loiter
  <2> DEFINE r == [NoReg EXCEPT !.to = At(waypointIndex)]
  <2>1. At(waypointIndex) \in Flown
    BY AtType, Numbers DEF PlanTypeOK
  <2>2. r \in Registers
    BY <2>1, NoRegType DEF Registers
  <2> QED BY <1>2, <2>2, UpdateStartsType DEF Loiter, PlanTypeOK
<1>3. CASE next_waypoint
  <2>1. waypointIndex' \in INT16
    <3>1. waypointIndex < MAX_WAYPOINTS
      BY <1>3 DEF next_waypoint, UpdateStarts, Turn, IndexInv
    <3>2. MAX_WAYPOINTS \in INT16 /\ waypointIndex \in INT16
      BY FlightPlanAssumption DEF PlanTypeOK
    <3>3. waypointIndex' = waypointIndex + 1
      BY <1>3 DEF next_waypoint
    <3> QED BY <3>1, <3>2, <3>3, Numbers
  <2> QED BY <1>3, <2>1, NoRegType, UpdateStartsType DEF next_waypoint, PlanTypeOK
<1>4. CASE WrapAround
  <2>1. Wrapped \in INT16
    BY Numbers DEF Wrapped, PlanTypeOK
  <2>2. reg' \in [Levels -> Registers]
    <3>1. [reg["nav"] EXCEPT !.index = Wrapped] \in Registers
      BY <2>1 DEF PlanTypeOK, Levels, Registers
    <3> QED BY <1>4, <3>1 DEF WrapAround, PlanTypeOK
  <2>3. pc' \in [Levels -> Steps]
    BY <1>4 DEF WrapAround, PlanTypeOK, Goes, Steps
  <2> QED BY <1>4, <2>1, <2>2, <2>3
          DEF WrapAround, PlanTypeOK, planVars, goalVars, liveVars, modeVars
<1>5. CASE NothingToUpdate
  <2>1. pc' \in [Levels -> Steps]
    BY <1>5 DEF NothingToUpdate, PlanTypeOK, Goes, Steps
  <2> QED BY <1>5, <2>1
          DEF NothingToUpdate, PlanTypeOK, planVars, goalVars, liveVars, modeVars
<1>6. CASE SetSteps("nav")
  BY <1>6, SetStepsType DEF Levels
<1> QED BY <1>1, <1>2, <1>3, <1>4, <1>5, <1>6, <1>7 DEF Update, Arrival

LEMMA ModeChangesType ==
  ASSUME PlanTypeOK, ModeChanges
  PROVE  PlanTypeOK'
<1>1. CASE StopSteering
  BY <1>1 DEF StopSteering, PlanTypeOK, planVars, goalVars, liveVars, runVars
<1>2. ASSUME NEW p \in Plans, flightplan_begin(p)
      PROVE  PlanTypeOK'
  <2>1. waypoints' \in [Places -> Placed]
    <3>1. load_flightplan(waypoints, "main") \in [Places -> Placed]
      BY LoadType DEF PlanTypeOK, Plans
    <3> QED BY <1>2, <3>1, LoadType DEF flightplan_begin
  <2>2. numPoints' \in 0 .. MAX_WAYPOINTS
    BY <1>2, FlightPlanAssumption DEF flightplan_begin, Plans
  <2>6. waypointIndex' \in INT16
    BY <1>2, ZeroIsNumber DEF flightplan_begin
  <2>3. Waypoint(p, 0) \in Flown
    BY WaypointTypes
  <2>4. reg' \in [Levels -> Registers]
    <3>1. \A l \in Levels : [reg[l] EXCEPT !.cut = TRUE] \in Registers
      BY DEF PlanTypeOK, Registers
    <3> QED BY <1>2, <3>1 DEF flightplan_begin, Overtakes, PlanTypeOK
  <2>5. begun' \in {"none", "main", "rtl"}
    BY <1>2 DEF flightplan_begin, Plans
  <2> QED BY <1>2, <2>1, <2>2, <2>3, <2>4, <2>5, <2>6
          DEF flightplan_begin, PlanTypeOK, liveVars
<1> QED BY <1>1, <1>2 DEF ModeChanges

LEMMA UartType ==
  ASSUME PlanTypeOK, UartByte
  PROVE  PlanTypeOK'
<1>1. UartOnly
  BY DEF UartByte, flightplan_live_begin, flightplan_live_received_byte,
         flightplan_live_commit, BadByte
<1>2. /\ lives' \in Nat /\ sio' \in [message: Nat, sent: 0 .. LiveBytes]
      /\ wp_inject' \in [0 .. LiveBytes - 1 -> Nat]
      /\ wp_inject_pos' \in 0 .. READY
  <2>1. /\ lives \in Nat /\ sio \in [message: Nat, sent: 0 .. LiveBytes]
        /\ wp_inject \in [0 .. LiveBytes - 1 -> Nat]
        /\ wp_inject_pos \in 0 .. READY
    BY DEF PlanTypeOK
  <2>2. CASE flightplan_live_begin
    BY <2>1, <2>2, FlightPlanAssumption DEF flightplan_live_begin, READY
  <2>3. CASE flightplan_live_received_byte
    <3>1. wp_inject' \in [0 .. LiveBytes - 1 -> Nat]
      BY <2>1, <2>3 DEF flightplan_live_received_byte
    <3>2. wp_inject_pos' \in 0 .. READY
      BY <2>1, <2>3, FlightPlanAssumption DEF flightplan_live_received_byte, READY
    <3>3. sio' \in [message: Nat, sent: 0 .. LiveBytes]
      BY <2>1, <2>3, FlightPlanAssumption DEF flightplan_live_received_byte
    <3> QED BY <2>1, <2>3, <3>1, <3>2, <3>3 DEF flightplan_live_received_byte
  <2>4. CASE flightplan_live_commit \/ BadByte
    BY <2>1, <2>4, FlightPlanAssumption
       DEF flightplan_live_commit, BadByte, NoMessage, READY
  <2> QED BY <2>2, <2>3, <2>4 DEF UartByte
<1> QED
  BY <1>1, <1>2
     DEF PlanTypeOK, UartOnly, planVars, goalVars, modeVars, runVars

(* Most messages change the plan little or not at all.                     *)
LEMMA MessagePlanType ==
  ASSUME PlanTypeOK, handleMessage
  PROVE  PlanTypeOK'
<1> USE DEF PlanTypeOK, Goes, GoalUnchanged, planVars, goalVars, liveVars, modeVars
<1>1. CASE MissionRequestList \/ MissionRequest \/ MissionAck
  BY <1>1 DEF MissionRequestList, MissionRequest, MissionAck, PlanUnchanged,
              planAll, runVars
<1>2. CASE MissionClearAll
  BY <1>2, FlightPlanAssumption DEF MissionClearAll, clear_flightplan
<1>3. ASSUME NEW seq \in Seqs, MissionSetCurrent(seq)
      PROVE  PlanTypeOK'
  <2>1. Int16(seq) \in INT16
    BY SeqsAssumption, Numbers DEF Int16
  <2>3. [NoReg EXCEPT !.index = Int16(seq)] \in Registers
    BY <2>1, NoRegType DEF Registers
  <2>2. reg' \in [Levels -> Registers]
    BY <1>3, <2>3 DEF MissionSetCurrent
  <2> QED BY <1>3, <2>2 DEF MissionSetCurrent, Steps
<1>4. ASSUME NEW i \in Items, MissionItem(i)
      PROVE  PlanTypeOK'
  <2>1. [NoReg EXCEPT !.index = i] \in Registers
    <3>1. i \in INT16
      BY FlightPlanAssumption, Numbers DEF Items
    <3> QED BY <3>1, NoRegType DEF Registers
  <2>2. reg' \in [Levels -> Registers]
    BY <1>4, <2>1 DEF MissionItem
  <2> QED BY <1>4, <2>2 DEF MissionItem, Steps
<1>5. ASSUME NEW count \in Counts, MissionCount(count)
      PROVE  PlanTypeOK'
  BY <1>5 DEF MissionCount, Steps
<1> QED BY <1>1, <1>2, <1>3, <1>4, <1>5 DEF handleMessage

LEMMA StoredPlanType ==
  ASSUME PlanTypeOK, IndexInv, MissionItemStored
  PROVE  PlanTypeOK'
<1>1. reg["cmd"].index \in Nat
  BY DEF MissionItemStored, Turn, IndexInv
<1>2. Waypoint("item", reg["cmd"].index) \in Placed
  BY <1>1, WaypointTypes
<1>3. waypoints' \in [Places -> Placed] /\ numPoints' \in 0 .. MAX_WAYPOINTS
  <2>1. add_waypoint(Waypoint("item", reg["cmd"].index))
    BY DEF MissionItemStored
  <2>2. /\ MAX_WAYPOINTS \in Nat /\ numPoints \in 0 .. MAX_WAYPOINTS
        /\ waypoints \in [Places -> Placed]
    BY FlightPlanAssumption DEF PlanTypeOK
  <2> QED BY <1>2, <2>1, <2>2 DEF add_waypoint, planVars
<1>4. pc' \in [Levels -> Steps] /\ reg' \in [Levels -> Registers]
  BY NoRegType DEF MissionItemStored, Goes, PlanTypeOK, Steps
<1> QED
  BY <1>3, <1>4
     DEF MissionItemStored, PlanTypeOK, GoalUnchanged, goalVars, liveVars, modeVars

LEMMA MessageType ==
  ASSUME MissionTypeOK, handleMessage \/ MissionItemStored
  PROVE  MissionTypeOK'
<1> USE DEF handleMessage, MissionRequestList, MissionRequest, MissionAck,
            MissionClearAll, MissionSetCurrent, MissionItem, MissionItemStored,
            MissionCount, missionVars, flagVars
<1>1. sending_waypoints' \in BOOLEAN /\ receiving_waypoints' \in BOOLEAN
  BY DEF MissionTypeOK
<1>2. waypoint_timeout' \in 0 .. MAVLINK_WAYPOINT_TIMEOUT
  BY MissionsAssumption DEF MissionTypeOK, Restart
<1>3. waypoint_request_i' \in Nat
  BY DEF MissionTypeOK
<1>4. wp_total' \in 0 .. MAX_WAYPOINTS
  <2>1. \A count \in Counts : Total(count) \in 0 .. MAX_WAYPOINTS
    BY MissionsAssumption, FlightPlanAssumption DEF Total
  <2> QED BY <2>1, FlightPlanAssumption DEF MissionTypeOK
<1>5. toSend' \subseteq {"request", "count", "item"}
  BY DEF MissionTypeOK, AskForItem
<1>6. messages' \in Nat
  BY DEF MissionTypeOK, Handles
<1> QED BY <1>1, <1>2, <1>3, <1>4, <1>5, <1>6 DEF MissionTypeOK

LEMMA TypeStep ==
  ASSUME TypeOK, IndexInv, [Next]_vars
  PROVE  TypeOK'
<1> USE DEF GoalUnchanged, planVars, goalVars, liveVars, modeVars, flagVars
<1>1. PlanTypeOK /\ MissionTypeOK
  BY DEF TypeOK
<1>2. SUFFICES PlanTypeOK' /\ MissionTypeOK'
  BY DEF TypeOK
<1>3. CASE handleMessage \/ MissionItemStored
  BY <1>1, <1>3, MessagePlanType, StoredPlanType, MessageType
<1>4. CASE MissionCountEnds
  BY <1>1, <1>4 DEF MissionCountEnds, Goes, PlanTypeOK, MissionTypeOK, Steps
<1>5. CASE MAVMissionOutput_40hz
  <2>1. PlanTypeOK'
    BY <1>1, <1>5 DEF MAVMissionOutput_40hz, Goes, PlanTypeOK, Steps
  <2>2. MissionTypeOK'
    BY <1>1, <1>5, MissionsAssumption
       DEF MAVMissionOutput_40hz, MissionTypeOK, StillReceiving
  <2> QED BY <2>1, <2>2
<1>6. CASE (SetSteps("cmd") \/ Update \/ UartByte \/ ModeChanges)
             /\ UNCHANGED <<missionVars, messages>>
  <2>1. PlanTypeOK'
    BY <1>1, <1>6, SetStepsType, UpdateType, UartType, ModeChangesType
       DEF Levels
  <2> QED BY <1>1, <1>6, <2>1 DEF MissionTypeOK, missionVars
<1>7. CASE UNCHANGED vars
  BY <1>1, <1>7 DEF vars, planAll, missionVars, runVars, MissionTypeOK, PlanTypeOK
<1> QED BY <1>3, <1>4, <1>5, <1>6, <1>7 DEF Next, Command, Pulse

LEMMA IndexStep ==
  ASSUME TypeOK, IndexInv, [Next]_vars
  PROVE  IndexInv'
<1> USE DEF IndexInv, Levels, Turn, Goes, Ends
<1>0. /\ waypointIndex \in Int /\ numPoints \in 0 .. MAX_WAYPOINTS
      /\ MAX_WAYPOINTS \in Nat \ {0}
      /\ pc \in [{"nav", "cmd"} -> Steps] /\ reg \in [{"nav", "cmd"} -> Registers]
      /\ \A l \in {"nav", "cmd"} : reg[l].index \in Int
  <2>1. PlanTypeOK /\ MAX_WAYPOINTS \in Nat \ {0}
    BY FlightPlanAssumption DEF TypeOK
  <2>2. \A l \in {"nav", "cmd"} : reg[l].index \in INT16
    BY <2>1 DEF PlanTypeOK, Registers
  <2>3. waypointIndex \in INT16
    BY <2>1 DEF PlanTypeOK
  <2>4. waypointIndex \in Int /\ \A l \in {"nav", "cmd"} : reg[l].index \in Int
    BY <2>2, <2>3, Numbers
  <2> QED BY <2>1, <2>4 DEF PlanTypeOK
<1>1. CASE handleMessage
  <2> USE DEF Handles, GoalUnchanged
  <2>1. CASE MissionRequestList \/ MissionRequest \/ MissionAck \/ MissionClearAll
    BY <2>1 DEF MissionRequestList, MissionRequest, MissionAck, MissionClearAll,
                PlanUnchanged, planAll, runVars
  <2>2. ASSUME NEW seq \in Seqs, MissionSetCurrent(seq)
        PROVE  IndexInv'
    BY <1>0, <2>2 DEF MissionSetCurrent
  <2>3. ASSUME NEW i \in Items, MissionItem(i)
        PROVE  IndexInv'
    <3>1. reg'["cmd"].index = i /\ i \in Nat
      BY <1>0, <2>3 DEF MissionItem, NoReg, Items
    <3> QED BY <1>0, <2>3, <3>1 DEF MissionItem
  <2>4. ASSUME NEW count \in Counts, MissionCount(count)
        PROVE  IndexInv'
    BY <1>0, <2>4 DEF MissionCount
  <2> QED BY <1>1, <2>1, <2>2, <2>3, <2>4 DEF handleMessage
<1>2. CASE MissionCountEnds \/ MissionItemStored \/ MAVMissionOutput_40hz
  BY <1>0, <1>2
     DEF MissionCountEnds, MissionItemStored, MAVMissionOutput_40hz, GoalUnchanged
<1>3. ASSUME NEW l \in Levels, SetSteps(l)
      PROVE  IndexInv'
  <2>1. CASE set_waypoint_check(l)
    BY <1>0, <1>3, <2>1 DEF set_waypoint_check
  <2>2. CASE set_waypoint_assign(l)
    BY <1>0, <1>3, <2>2 DEF set_waypoint_assign
  <2>3. CASE set_waypoint_fetch(l)
    BY <1>0, <1>3, <2>3 DEF set_waypoint_fetch
  <2>4. CASE navigate_set_goal_point(l) \/ navigate_set_goal_course(l) \/ setBehavior(l)
    BY <1>0, <1>3, <2>4
       DEF navigate_set_goal_point, navigate_set_goal_course, setBehavior, Sets
  <2> QED BY <1>3, <2>1, <2>2, <2>3, <2>4 DEF SetSteps
<1>4. CASE Update
  <2>1. CASE LiveReady \/ Loiter \/ next_waypoint
    <3>1. /\ pc'["cmd"] = pc["cmd"] /\ pc["nav"] = "idle"
          /\ pc'["nav"] \in {"live", "point", "wrap"}
          /\ \/ waypointIndex' = waypointIndex
             \/ pc'["nav"] = "wrap" /\ waypointIndex' = waypointIndex + 1
      BY <1>0, <2>1 DEF LiveReady, Loiter, next_waypoint, UpdateStarts
    <3>2. reg'["cmd"].index = reg["cmd"].index
      BY <1>0, <2>1 DEF LiveReady, Loiter, next_waypoint, UpdateStarts, Registers
    <3> QED BY <1>0, <3>1, <3>2
  <2>2. CASE WrapAround
    <3>1. Wrapped \in Int /\ Wrapped < MAX_WAYPOINTS
      BY <1>0 DEF Wrapped
    <3>2. /\ pc'["cmd"] = pc["cmd"] /\ pc'["nav"] = "check"
          /\ reg'["cmd"] = reg["cmd"] /\ waypointIndex' = Wrapped
      BY <1>0, <2>2 DEF WrapAround
    <3> QED BY <1>0, <3>1, <3>2
  <2>3. CASE FlyLive \/ NothingToUpdate
    BY <1>0, <2>3 DEF FlyLive, NothingToUpdate
  <2> QED BY <1>3, <1>4, <2>1, <2>2, <2>3 DEF Update, Arrival
<1>5. CASE ModeChanges
  <2>1. /\ pc' = pc /\ \A l \in Levels : reg'[l].index = reg[l].index
        /\ waypointIndex' \in {waypointIndex, 0}
    BY <1>0, <1>5
       DEF ModeChanges, StopSteering, flightplan_begin, runVars, Overtakes, Registers
  <2> QED BY <1>0, <2>1
<1>6. CASE UartByte \/ UNCHANGED vars
  BY <1>6 DEF UartByte, flightplan_live_begin, flightplan_live_received_byte,
              flightplan_live_commit, BadByte, UartOnly, runVars, vars, planAll
<1> QED BY <1>1, <1>2, <1>3, <1>4, <1>5, <1>6 DEF Next, Command, Pulse

(***************************************************************************)
(* Every variable has its type: the index of the waypoint, which the       *)
(* ground station may make negative, never overflows its 16 bits; the      *)
(* sizes of the plan and of a mission fit the list of waypoints, the       *)
(* timeout never passes its start, and the position in the buffer of the   *)
(* live waypoint never passes WP_INJECT_READY.                             *)
(***************************************************************************)
THEOREM TypeCorrect == Spec => []TypeOK
<1>1. Init => TypeOK /\ IndexInv
  BY TypeInit, FlightPlanAssumption DEF Init, PlanInit, IndexInv, Levels
<1>2. TypeOK /\ IndexInv /\ [Next]_vars => TypeOK' /\ IndexInv'
  BY TypeStep, IndexStep
<1> QED BY <1>1, <1>2, PTL DEF Spec

-----------------------------------------------------------------------------
(* How the steps of the plan move the levels: the handlers of a count and  *)
(* of an item go on only by MissionCountEnds and MissionItemStored.        *)
HandlersStay ==
  /\ (pc["cmd"] = "count") <=> (pc'["cmd"] = "count")
  /\ (pc["cmd"] = "item") <=> (pc'["cmd"] = "item")
  /\ pc["cmd"] = "item" => reg'["cmd"].index = reg["cmd"].index

LEMMA CountStays ==
  ASSUME PlanTypeOK, SetSteps("cmd") \/ Update \/ UartByte \/ ModeChanges
  PROVE  HandlersStay
<1> USE DEF PlanTypeOK, Turn, Goes, Ends, Levels, HandlersStay
<1>1. ASSUME NEW l \in Levels, SetSteps(l)
      PROVE  HandlersStay
  BY <1>1 DEF SetSteps, set_waypoint_check, set_waypoint_assign, set_waypoint_fetch,
              navigate_set_goal_point, navigate_set_goal_course, setBehavior, Sets
<1>2. CASE Update
  <2>1. CASE LiveReady \/ Loiter \/ next_waypoint
    BY <2>1 DEF LiveReady, Loiter, next_waypoint, UpdateStarts, Registers
  <2>2. CASE FlyLive \/ WrapAround \/ NothingToUpdate
    BY <2>2 DEF FlyLive, WrapAround, NothingToUpdate
  <2> QED BY <1>1, <1>2, <2>1, <2>2 DEF Update, Arrival
<1>3. CASE UartByte
  BY <1>3 DEF UartByte, flightplan_live_begin, flightplan_live_received_byte,
              flightplan_live_commit, BadByte, UartOnly, runVars
<1>4. CASE ModeChanges
  BY <1>4 DEF ModeChanges, StopSteering, flightplan_begin, runVars, Overtakes, Registers
<1> QED BY <1>1, <1>2, <1>3, <1>4

(***************************************************************************)
(* AckedInOrder follows from what was taken so far: while an upload is     *)
(* open, or has been closed while an item is being stored, the items below *)
(* waypoint_request_i; and nothing, as long as the handler of the count    *)
(* has yet to reset the index.                                             *)
(***************************************************************************)
UpTo(n) == [i \in 1 .. n |-> i - 1]

UploadInv ==
  /\ receiving_waypoints \/ pc["cmd"] = "item" => acked = None
  /\ receiving_waypoints /\ pc["cmd"] = "count" => accepted = <<>>
  /\ \/ receiving_waypoints /\ pc["cmd"] # "count"
     \/ pc["cmd"] = "item"
     => accepted = UpTo(waypoint_request_i)
  /\ pc["cmd"] = "item" => reg["cmd"].index = waypoint_request_i
  /\ AckedInOrder

LEMMA UpToGrows ==
  ASSUME NEW n \in Nat
  PROVE  Append(UpTo(n), n) = UpTo(n + 1)
<1>1. UpTo(n) \in Seq(Nat) /\ Len(UpTo(n)) = n
  BY DEF UpTo
<1>2. Append(UpTo(n), n) \in Seq(Nat) /\ Len(Append(UpTo(n), n)) = n + 1
  BY <1>1
<1>3. \A i \in 1 .. n + 1 : Append(UpTo(n), n)[i] = i - 1
  BY <1>1 DEF UpTo
<1> QED BY <1>2, <1>3 DEF UpTo

LEMMA UpToNothing == UpTo(0) = <<>>
BY DEF UpTo

LEMMA UploadStep ==
  ASSUME TypeOK, UploadInv, [Next]_vars
  PROVE  UploadInv'
<1> USE DEF UploadInv, AckedInOrder
<1>1. CASE handleMessage
  <2>1. pc["cmd"] = "idle"
    BY <1>1 DEF handleMessage, MissionRequestList, MissionRequest, MissionAck,
                MissionClearAll, MissionSetCurrent, MissionItem, MissionCount,
                Handles, Turn
  <2>2. CASE MissionRequestList
    BY <2>1, <2>2 DEF MissionRequestList, historyVars, PlanUnchanged, planAll, runVars
  <2>3. CASE MissionRequest \/ MissionAck
    BY <2>1, <2>3 DEF MissionRequest, MissionAck, historyVars, PlanUnchanged,
                      planAll, runVars
  <2>4. CASE MissionClearAll
    BY <2>1, <2>4 DEF MissionClearAll, flagVars, historyVars
  <2>5. ASSUME NEW seq \in Seqs, MissionSetCurrent(seq)
        PROVE  UploadInv'
    BY <2>1, <2>5 DEF MissionSetCurrent, Goes, TypeOK, PlanTypeOK, Levels,
                      missionVars, flagVars, historyVars
  <2>6. ASSUME NEW i \in Items, MissionItem(i)
        PROVE  UploadInv'
    <3>1. i = waypoint_request_i /\ receiving_waypoints
      BY <2>6 DEF MissionItem, TakesItem
    <3>2. pc'["cmd"] = "item" /\ reg'["cmd"].index = i
      BY <2>6 DEF MissionItem, Goes, NoReg, TypeOK, PlanTypeOK, Levels
    <3> QED BY <2>1, <2>6, <3>1, <3>2
            DEF MissionItem, missionVars, flagVars, historyVars
  <2>7. ASSUME NEW count \in Counts, MissionCount(count)
        PROVE  UploadInv'
    BY <2>7 DEF MissionCount, NoHistory, Goes, TypeOK, PlanTypeOK, Levels
  <2> QED BY <1>1, <2>2, <2>3, <2>4, <2>5, <2>6, <2>7 DEF handleMessage
<1>2. CASE MissionCountEnds
  BY <1>2, UpToNothing DEF MissionCountEnds, Turn, Goes, TypeOK, PlanTypeOK, Levels,
                           flagVars, historyVars
<1>3. CASE MissionItemStored
  <2>1. /\ waypoint_request_i \in Nat /\ pc["cmd"] = "item" /\ pc'["cmd"] = "idle"
        /\ accepted' = Append(UpTo(waypoint_request_i), waypoint_request_i)
    BY <1>3 DEF MissionItemStored, Turn, Goes, TypeOK, PlanTypeOK, Levels, MissionTypeOK
  <2>2. accepted' = UpTo(waypoint_request_i')
    BY <1>3, <2>1, UpToGrows DEF MissionItemStored
  <2>3. CASE waypoint_request_i' = wp_total
    BY <1>3, <2>1, <2>2, <2>3 DEF MissionItemStored, UpTo
  <2>4. CASE waypoint_request_i' # wp_total
    BY <1>3, <2>1, <2>2, <2>4 DEF MissionItemStored
  <2> QED BY <2>3, <2>4
<1>4. CASE MAVMissionOutput_40hz
  <2>1. pc'["cmd"] = pc["cmd"] /\ reg' = reg
    BY <1>4 DEF MAVMissionOutput_40hz, Goes, TypeOK, PlanTypeOK, Levels
  <2>2. CASE receiving_waypoints \/ pc["cmd"] = "item"
    BY <1>4, <2>1, <2>2 DEF MAVMissionOutput_40hz, StillReceiving, historyVars
  <2>3. CASE ~receiving_waypoints /\ pc["cmd"] # "item"
    BY <1>4, <2>1, <2>3 DEF MAVMissionOutput_40hz, StillReceiving, NoHistory
  <2> QED BY <2>2, <2>3
<1>5. CASE (SetSteps("cmd") \/ Update \/ UartByte \/ ModeChanges)
             /\ UNCHANGED <<missionVars, messages>>
  BY <1>5, CountStays DEF TypeOK, HandlersStay, missionVars, flagVars, historyVars
<1>6. CASE UNCHANGED vars
  BY <1>6 DEF vars, planAll, runVars, missionVars, flagVars, historyVars
<1> QED BY <1>1, <1>2, <1>3, <1>4, <1>5, <1>6 DEF Next, Command, Pulse

(***************************************************************************)
(* A mission is acknowledged only when each of its items was taken once,   *)
(* in order (MAVMission.c:286, 372): for every mission, and whatever       *)
(* messages are lost, repeated or late.                                    *)
(***************************************************************************)
THEOREM MissionsAckedInOrder == Spec => []AckedInOrder
<1>1. Init => UploadInv
  BY DEF Init, PlanInit, UploadInv, AckedInOrder, None, Levels
<1>2. TypeOK /\ UploadInv /\ [Next]_vars => UploadInv'
  BY UploadStep
<1>3. UploadInv => AckedInOrder
  BY DEF UploadInv
<1> QED BY <1>1, <1>2, <1>3, TypeCorrect, PTL DEF Spec

-----------------------------------------------------------------------------
(***************************************************************************)
(* NextItemAsked also needs the request of a count to be there until the   *)
(* handler ends, or to have gone out too early.                            *)
(***************************************************************************)
AskInv ==
  /\ receiving_waypoints /\ pc["cmd"] = "count" /\ ~askedEarly => "request" \in toSend
  /\ NextItemAsked

LEMMA AskStep ==
  ASSUME TypeOK, AskInv, [Next]_vars
  PROVE  AskInv'
<1> USE DEF AskInv, NextItemAsked
<1>1. CASE handleMessage
  <2>1. pc["cmd"] = "idle"
    BY <1>1 DEF handleMessage, MissionRequestList, MissionRequest, MissionAck,
                MissionClearAll, MissionSetCurrent, MissionItem, MissionCount,
                Handles, Turn
  <2>2. CASE MissionRequestList \/ MissionRequest \/ MissionAck
    BY <2>1, <2>2 DEF MissionRequestList, MissionRequest, MissionAck, historyVars,
                      PlanUnchanged, planAll, runVars
  <2>3. CASE MissionClearAll
    BY <2>1, <2>3 DEF MissionClearAll, flagVars, historyVars
  <2>4. ASSUME NEW seq \in Seqs, MissionSetCurrent(seq)
        PROVE  AskInv'
    BY <2>1, <2>4 DEF MissionSetCurrent, Goes, TypeOK, PlanTypeOK, Levels,
                      missionVars, flagVars, historyVars
  <2>5. ASSUME NEW i \in Items, MissionItem(i)
        PROVE  AskInv'
    BY <2>1, <2>5 DEF MissionItem, Goes, TypeOK, PlanTypeOK, Levels,
                      missionVars, flagVars, historyVars
  <2>6. ASSUME NEW count \in Counts, MissionCount(count)
        PROVE  AskInv'
    BY <2>6 DEF MissionCount, AskForItem, Goes, TypeOK, PlanTypeOK, Levels
  <2> QED BY <1>1, <2>2, <2>3, <2>4, <2>5, <2>6 DEF handleMessage
<1>2. CASE MissionCountEnds \/ MissionItemStored
  BY <1>2 DEF MissionCountEnds, MissionItemStored, Turn, AskForItem, flagVars,
              historyVars, Goes, TypeOK, PlanTypeOK, Levels
<1>3. CASE MAVMissionOutput_40hz
  <2>1. pc'["cmd"] = pc["cmd"]
    BY <1>3 DEF MAVMissionOutput_40hz, Goes, TypeOK, PlanTypeOK, Levels
  <2> QED BY <1>3, <2>1 DEF MAVMissionOutput_40hz, StillReceiving, NoHistory,
                            historyVars
<1>4. CASE (SetSteps("cmd") \/ Update \/ UartByte \/ ModeChanges)
             /\ UNCHANGED <<missionVars, messages>>
  BY <1>4, CountStays DEF TypeOK, HandlersStay, missionVars, flagVars, historyVars
<1>5. CASE UNCHANGED vars
  BY <1>5 DEF vars, planAll, runVars, missionVars, flagVars, historyVars
<1> QED BY <1>1, <1>2, <1>3, <1>4, <1>5 DEF Next, Command, Pulse

(***************************************************************************)
(* While an upload waits, the item it waits for was asked for or is about  *)
(* to be, unless the output overtook the handler of the count              *)
(* (MAVMission.c:264-265).                                                 *)
(***************************************************************************)
THEOREM UploadsAskForTheNextItem == Spec => []NextItemAsked
<1>1. Init => AskInv
  BY DEF Init, PlanInit, AskInv, NextItemAsked
<1>2. TypeOK /\ AskInv /\ [Next]_vars => AskInv'
  BY AskStep
<1>3. AskInv => NextItemAsked
  BY DEF AskInv
<1> QED BY <1>1, <1>2, <1>3, TypeCorrect, PTL DEF Spec

-----------------------------------------------------------------------------
(***************************************************************************)
(* GivenUpLate: what is left of the timeout and the outputs without        *)
(* progress add up to the whole timeout, unless an ACK set it to zero.     *)
(***************************************************************************)
WaitInv ==
  /\ quiet \in 0 .. MAVLINK_WAYPOINT_TIMEOUT
  /\ receiving_waypoints /\ ~ackSeen =>
       waypoint_timeout + quiet >= MAVLINK_WAYPOINT_TIMEOUT

LEMMA WaitStep ==
  ASSUME TypeOK, WaitInv, [Next]_vars
  PROVE  WaitInv'
<1> USE MissionsAssumption DEF WaitInv
<1>1. CASE handleMessage
  <2> USE DEF TypeOK, MissionTypeOK, historyVars, flagVars, Restart
  <2>1. CASE MissionRequestList \/ MissionRequest
    BY <2>1 DEF MissionRequestList, MissionRequest
  <2>2. CASE MissionAck \/ MissionClearAll
    BY <2>2 DEF MissionAck, MissionClearAll
  <2>3. ASSUME NEW seq \in Seqs, MissionSetCurrent(seq)
        PROVE  WaitInv'
    BY <2>3 DEF MissionSetCurrent, missionVars
  <2>4. ASSUME NEW i \in Items, MissionItem(i)
        PROVE  WaitInv'
    BY <2>4 DEF MissionItem, missionVars
  <2>5. ASSUME NEW count \in Counts, MissionCount(count)
        PROVE  WaitInv'
    BY <2>5 DEF MissionCount, NoHistory
  <2> QED BY <1>1, <2>1, <2>2, <2>3, <2>4, <2>5 DEF handleMessage
<1>2. CASE MissionCountEnds \/ MissionItemStored
  BY <1>2 DEF MissionCountEnds, MissionItemStored, Restart, flagVars, historyVars
<1>3. CASE MAVMissionOutput_40hz
  <2>1. waypoint_timeout \in 0 .. MAVLINK_WAYPOINT_TIMEOUT
    BY DEF TypeOK, MissionTypeOK
  <2>2. CASE receiving_waypoints
    BY <1>3, <2>1, <2>2 DEF MAVMissionOutput_40hz, StillReceiving
  <2>3. CASE ~receiving_waypoints
    <3>1. ~receiving_waypoints'
      BY <1>3, <2>3 DEF MAVMissionOutput_40hz, StillReceiving
    <3>2. quiet' \in {0, quiet}
      BY <1>3, <2>3 DEF MAVMissionOutput_40hz, NoHistory, historyVars
    <3> QED BY <3>1, <3>2
  <2> QED BY <2>2, <2>3
<1>4. CASE UNCHANGED missionVars
  BY <1>4 DEF missionVars, flagVars, historyVars
<1> QED BY <1>1, <1>2, <1>3, <1>4 DEF Next, Command, Pulse, vars

LEMMA OnlyOutputGivesUp ==
  ASSUME TypeOK, WaitInv, [Next]_vars,
         receiving_waypoints, ~receiving_waypoints', acked' = None,
         ~MissionRequestList
  PROVE  quiet = MAVLINK_WAYPOINT_TIMEOUT \/ ackSeen
<1>1. MAVMissionOutput_40hz
  <2>1. ~handleMessage
    BY DEF handleMessage, MissionRequest, MissionAck, MissionClearAll,
           MissionSetCurrent, MissionItem, MissionCount, missionVars, flagVars
  <2>2. ~UNCHANGED missionVars /\ ~MissionCountEnds
    BY DEF missionVars, flagVars, MissionCountEnds
  <2>3. ~MissionItemStored
    <3>1. SUFFICES ASSUME MissionItemStored
                   PROVE  FALSE
      OBVIOUS
    <3>2. acked' = wp_total
      BY <3>1 DEF MissionItemStored
    <3>3. wp_total # None
      BY FlightPlanAssumption DEF TypeOK, MissionTypeOK, None
    <3> QED BY <3>2, <3>3
  <2> QED BY <2>1, <2>2, <2>3 DEF Next, Command, Pulse, vars
<1>2. waypoint_timeout = 0
  <2>1. ~(receiving_waypoints /\ waypoint_timeout > 0)
    BY <1>1 DEF MAVMissionOutput_40hz, StillReceiving
  <2>2. waypoint_timeout \in Nat
    BY MissionsAssumption DEF TypeOK, MissionTypeOK
  <2> QED BY <2>1, <2>2
<1> QED BY <1>2, MissionsAssumption DEF WaitInv

(***************************************************************************)
(* An upload is given up only after the whole timeout without a new item,  *)
(* after an ACK, or by a request for the list, which ends it at once       *)
(* (MAVMission.c:88-89, 193, 447): by no other message, for every timeout. *)
(***************************************************************************)
THEOREM UploadsGivenUpLate == Spec => GivenUpLate
<1>1. Init => WaitInv
  BY MissionsAssumption DEF Init, WaitInv
<1>2. TypeOK /\ WaitInv /\ [Next]_vars => WaitInv'
  BY WaitStep
<1>3. TypeOK /\ WaitInv /\ [Next]_vars =>
        [receiving_waypoints /\ ~receiving_waypoints' /\ acked' = None =>
           quiet = MAVLINK_WAYPOINT_TIMEOUT \/ ackSeen \/ MissionRequestList]_vars
  BY OnlyOutputGivesUp
<1> QED BY <1>1, <1>2, <1>3, TypeCorrect, PTL DEF Spec, GivenUpLate

-----------------------------------------------------------------------------
(***************************************************************************)
(* LiveIsWhole: while a live waypoint comes in, what is in the buffer is   *)
(* of that message, and no more of it than was sent; so the buffer is      *)
(* whole when it becomes READY, and it is not while the next one comes in. *)
(***************************************************************************)
LiveInv ==
  /\ Receiving => /\ wp_inject_pos <= sio.sent
                  /\ \A k \in 0 .. wp_inject_pos - 1 : wp_inject[k] = sio.message
  /\ wp_inject_pos = READY =>
       \A k \in 0 .. LiveBytes - 1 : wp_inject[k] = wp_inject[0]

(* The buffer and the UART are left alone, or the buffer is taken.         *)
LEMMA LiveKept ==
  ASSUME PlanTypeOK, LiveInv, UNCHANGED <<wp_inject, sio>>,
         wp_inject_pos' \in {wp_inject_pos, 0}
  PROVE  LiveInv'
<1>1. CASE wp_inject_pos' = wp_inject_pos
  BY <1>1 DEF LiveInv, Receiving, READY
<1>2. CASE wp_inject_pos' = 0
  <2>1. 0 # READY /\ sio.sent >= 0
    BY FlightPlanAssumption DEF READY, PlanTypeOK
  <2> QED BY <1>2, <2>1 DEF LiveInv, Receiving, READY
<1> QED BY <1>1, <1>2

LEMMA UartLive ==
  ASSUME PlanTypeOK, LiveInv, UartByte
  PROVE  LiveInv'
<1> USE FlightPlanAssumption DEF LiveInv, PlanTypeOK, READY
<1>1. CASE flightplan_live_begin
  BY <1>1 DEF flightplan_live_begin
<1>2. CASE flightplan_live_received_byte
  <2>1. wp_inject_pos < LiveBytes
    BY <1>2 DEF flightplan_live_received_byte
  <2>2. /\ wp_inject' = [wp_inject EXCEPT ![wp_inject_pos] = sio.message]
        /\ wp_inject_pos' = wp_inject_pos + 1
        /\ sio'.message = sio.message /\ sio'.sent = sio.sent + 1
    BY <1>2, <2>1 DEF flightplan_live_received_byte
  <2>3. \A k \in 0 .. wp_inject_pos : wp_inject'[k] = sio.message
    <3>1. /\ wp_inject_pos \in 0 .. LiveBytes - 1
          /\ \A k \in 0 .. wp_inject_pos - 1 : wp_inject[k] = sio.message
          /\ DOMAIN wp_inject = 0 .. LiveBytes - 1
      BY <1>2, <2>1 DEF flightplan_live_received_byte
    <3>2. wp_inject'[wp_inject_pos] = sio.message
      BY <2>2, <3>1
    <3>3. ASSUME NEW k \in 0 .. wp_inject_pos - 1
          PROVE  wp_inject'[k] = sio.message
      BY <2>2, <3>1, <3>3
    <3> QED BY <3>1, <3>2, <3>3
  <2> QED BY <1>2, <2>1, <2>2, <2>3 DEF flightplan_live_received_byte
<1>3. CASE flightplan_live_commit
  BY <1>3 DEF flightplan_live_commit, Receiving, NoMessage, Complete
<1>4. CASE BadByte
  BY <1>4 DEF BadByte, Receiving, NoMessage
<1> QED BY <1>1, <1>2, <1>3, <1>4 DEF UartByte

LEMMA LiveStep ==
  ASSUME TypeOK, LiveInv, [Next]_vars
  PROVE  LiveInv'
<1>1. PlanTypeOK
  BY DEF TypeOK
<1>2. CASE UartByte
  BY <1>1, <1>2, UartLive
<1>3. CASE ~UartByte
  <2>1. UNCHANGED <<wp_inject, sio>> /\ wp_inject_pos' \in {wp_inject_pos, 0}
    <3>1. ASSUME NEW l \in Levels, SetSteps(l)
          PROVE  UNCHANGED <<wp_inject, sio>> /\ wp_inject_pos' \in {wp_inject_pos, 0}
      BY <3>1
         DEF SetSteps, set_waypoint_check, set_waypoint_assign, set_waypoint_fetch,
             navigate_set_goal_point, navigate_set_goal_course, setBehavior, liveVars
    <3>2. CASE Update
      BY <3>1, <3>2
         DEF Update, Arrival, LiveReady, FlyLive, Loiter, next_waypoint, UpdateStarts,
             WrapAround, NothingToUpdate, liveVars, Levels
    <3>3. CASE ModeChanges \/ UNCHANGED vars
      BY <3>3 DEF ModeChanges, StopSteering, flightplan_begin, vars, planAll, liveVars
    <3>4. CASE handleMessage \/ MissionCountEnds \/ MissionItemStored
                 \/ MAVMissionOutput_40hz
      BY <3>4 DEF handleMessage, MissionRequestList, MissionRequest, MissionAck,
                  MissionClearAll, MissionSetCurrent, MissionItem, MissionCount,
                  MissionCountEnds, MissionItemStored, MAVMissionOutput_40hz,
                  PlanUnchanged, planAll, GoalUnchanged, liveVars
    <3> QED BY <1>3, <3>1, <3>2, <3>3, <3>4 DEF Next, Command, Pulse, Levels
  <2> QED BY <1>1, <2>1, LiveKept
<1> QED BY <1>2, <1>3

LEMMA LiveInvariant == Spec => []LiveInv
<1>1. Init => LiveInv
  BY FlightPlanAssumption DEF Init, PlanInit, LiveInv, Receiving, READY
<1>2. TypeOK /\ LiveInv /\ [Next]_vars => LiveInv'
  BY LiveStep
<1> QED BY <1>1, <1>2, TypeCorrect, PTL DEF Spec

LEMMA NotTorn ==
  /\ Torn \notin Placed
  /\ \A i \in Nat : Waypoint("live", i) # Torn
BY DEF Torn, Waypoint, Placed

LEMMA PlacedAt ==
  ASSUME PlanTypeOK, NEW i \in Int
  PROVE  At(i) # Torn
BY NotTorn, WaypointTypes DEF PlanTypeOK, At

(* Only the copy of the buffer takes a torn waypoint, from a torn buffer.  *)
LEMMA OnlyTheCopyTears ==
  ASSUME TypeOK, LiveInv, [Next]_vars, current_waypoint' # current_waypoint,
         current_waypoint' = Torn
  PROVE  wp_inject_pos # READY
<1>1. PlanTypeOK
  BY DEF TypeOK
<1>2. ASSUME NEW l \in Levels
      PROVE  ~SetSteps(l)
  <2>1. At(waypointIndex) # Torn
    BY <1>1, PlacedAt, Numbers DEF PlanTypeOK
  <2> QED BY <2>1
     DEF SetSteps, set_waypoint_check, set_waypoint_assign, set_waypoint_fetch,
         navigate_set_goal_point, navigate_set_goal_course, setBehavior, goalVars
<1>3. ~ModeChanges
  BY NotTorn, WaypointTypes
     DEF ModeChanges, StopSteering, flightplan_begin, goalVars, Plans, Waypoint, Torn
<1>4. ~UartByte /\ ~UNCHANGED vars
  BY DEF UartByte, flightplan_live_begin, flightplan_live_received_byte,
         flightplan_live_commit, BadByte, UartOnly, vars, planAll, goalVars
<1>5. ~(handleMessage \/ MissionCountEnds \/ MissionItemStored
          \/ MAVMissionOutput_40hz)
  BY DEF handleMessage, MissionRequestList, MissionRequest, MissionAck,
         MissionClearAll, MissionSetCurrent, MissionItem, MissionCount,
         MissionCountEnds, MissionItemStored, MAVMissionOutput_40hz,
         PlanUnchanged, planAll, GoalUnchanged, goalVars
<1>6. FlyLive
  BY <1>2, <1>3, <1>4, <1>5
     DEF Next, Command, Pulse, Update, Arrival, LiveReady, Loiter, next_waypoint,
         WrapAround, NothingToUpdate, goalVars, Levels
<1>7. SUFFICES ASSUME wp_inject_pos = READY
               PROVE  Received # Torn
  BY <1>6 DEF FlyLive
<1>8. DOMAIN wp_inject = 0 .. LiveBytes - 1 /\ wp_inject[0] \in Nat
  BY <1>1, FlightPlanAssumption DEF PlanTypeOK
<1>9. Received = Waypoint("live", wp_inject[0])
  BY <1>7, <1>8 DEF LiveInv, Received
<1> QED BY <1>8, <1>9, NotTorn

(***************************************************************************)
(* Bytes of two messages are flown only when the UART began the next live  *)
(* waypoint between the check and the copy (flightplan-waypoints.c:359,    *)
(* 361): one that was accepted as READY is whole, whatever its length and  *)
(* whatever bytes came before, or were lost, or were wrong.                *)
(***************************************************************************)
THEOREM LiveWaypointsWhole == Spec => LiveIsWhole
<1>1. TypeOK /\ LiveInv /\ [Next]_vars =>
        [current_waypoint' = Torn => wp_inject_pos # READY]_current_waypoint
  BY OnlyTheCopyTears
<1> QED BY <1>1, TypeCorrect, LiveInvariant, PTL DEF Spec, LiveIsWhole
=============================================================================
