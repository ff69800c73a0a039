----------------------------- MODULE FlightPlan -----------------------------
(***************************************************************************)
(* The flight plan of waypoints (MatrixPilot/flightplan-waypoints.c), the  *)
(* goal of the navigation (navigate.c) and the waypoint that is sent live  *)
(* (telemetry.c).  Three levels work on them without a lock:               *)
(*   "nav"  the heartbeat pulse (level 3) updates the plan;                *)
(*   "cmd"  the handler of a MAVLink message (level 2) sets the waypoint;  *)
(*   and, each in one step, the UART (level 4) and the flight-mode state   *)
(*   machine in the heartbeat (level 6).                                   *)
(* A level runs only while the levels above it do not, so setting a        *)
(* waypoint is cut into the steps between which a higher level matters.    *)
(***************************************************************************)
EXTENDS Integers

CONSTANTS
  Points,       \* plan -> NUMBER_POINTS, NUMBER_RTL_POINTS
  Loiters,      \* the waypoints with F_LOITER and without F_ALTITUDE_GOAL
  Dynamic,      \* USE_DYNAMIC_WAYPOINTS
  MAX_WAYPOINTS,
  LiveBytes,    \* sizeof(wp_inject_byte_order)
  Budgets       \* bound: <<messages, live waypoints>> that may yet come, and
                \* whether the state machine may begin a plan

(* The index and the number of points are of 16 bits.                      *)
INT16 == {i \in Int : -32768 <= i /\ i <= 32767}

ASSUME FlightPlanAssumption ==
  /\ MAX_WAYPOINTS \in Nat \ {0} /\ MAX_WAYPOINTS \in INT16
  /\ Points \in [{"main", "rtl"} -> 1 .. MAX_WAYPOINTS]
  /\ Dynamic \in BOOLEAN
  /\ LiveBytes \in Nat \ {0}
  /\ Budgets \subseteq Nat \X Nat \X BOOLEAN

VARIABLES
  waypoints,         \* currentWaypointSet
  numPoints,         \* numPointsInCurrentSet
  waypointIndex,
  current_waypoint,
  navgoal,
  behaviour,         \* desired_behavior: the waypoint whose flags it holds
  wp_inject, wp_inject_pos,
  sio,               \* the live waypoint on the UART, and how much of it came
  GPS_steering,
  begun,             \* the plan begun last
  pc, reg,           \* of the levels "nav" and "cmd"
  lives,             \* waypoints that may yet be sent live
  flies,             \* the state machine may begin a plan
  spoiled            \* the goal is what an overtaken level left: history

planVars == <<waypoints, numPoints>>
goalVars == <<current_waypoint, navgoal, behaviour>>
liveVars == <<wp_inject, wp_inject_pos, sio, lives>>
modeVars == <<GPS_steering, begun, flies>>
runVars  == <<pc, reg, spoiled>>

Levels == {"nav", "cmd"}

(* A waypoint is where it comes from and a number.                         *)
Waypoint(source, i) == <<source, i>>
Nowhere == Waypoint("none", 0)
Beyond  == Waypoint("beyond", 0)    \* what lies before or behind the plan
Torn    == Waypoint("torn", 0)      \* bytes of two messages

(* Their flags may say anything.                                           *)
Undefined == {Beyond, Torn}

IsLive(w)  == w[1] \in {"live", "torn"}
Plans  == {"main", "rtl"}
Places == 0 .. MAX_WAYPOINTS - 1

(* load_flightplan: with dynamic waypoints a plan is copied over the one   *)
(* that is there.                                                          *)
load_flightplan(ws, p) ==
  [i \in Places |-> IF i < Points[p] THEN Waypoint(p, i)
                    ELSE IF Dynamic THEN ws[i] ELSE Beyond]

(* currentWaypointSet[i].                                                  *)
At(i) == IF i \in Places THEN waypoints[i] ELSE Beyond

NoReg == [index |-> 0, to |-> Nowhere, flags |-> "none",
          cut |-> FALSE]

READY == LiveBytes + 2              \* WP_INJECT_READY

PlanInit ==
  /\ waypoints = load_flightplan([i \in Places |-> Beyond], "main") /\ numPoints = Points["main"]
  /\ waypointIndex = 0
  /\ current_waypoint = Nowhere /\ behaviour = Nowhere
  /\ navgoal = [point |-> Nowhere, course |-> Nowhere]
  /\ wp_inject = [k \in 0 .. LiveBytes - 1 |-> 0] /\ wp_inject_pos = 0
  /\ sio = [message |-> 0, sent |-> 0]
  /\ GPS_steering = FALSE /\ begun = "none"
  /\ pc = [l \in Levels |-> "idle"] /\ reg = [l \in Levels |-> NoReg]
  /\ spoiled = FALSE

-----------------------------------------------------------------------------
(* Level l goes on if no level above it is running.                        *)
Turn(l, step) ==
  /\ pc[l] = step
  /\ l = "cmd" => pc["nav"] = "idle"

Goes(l, step) == pc' = [pc EXCEPT ![l] = step]

(* After the update the pulse goes on to its output.                       *)
Ends(l) == Goes(l, IF l = "nav" THEN "output" ELSE "idle")

(* The goal is good again when a waypoint of a plan that has any was set   *)
(* without being overtaken; a live one leaves the index, loitering moves   *)
(* the goal.                                                               *)
Sets(l) ==
  /\ Ends(l)
  /\ reg' = [reg EXCEPT ![l] = NoReg]
  /\ spoiled' = \/ reg[l].cut \/ numPoints = 0
                \/ reg[l].flags \in {"none", "live"} /\ spoiled

(* The steps of set_waypoint(index).                                       *)
set_waypoint_check(l) ==
  /\ Turn(l, "check")
  /\ IF reg[l].index < numPoints
     THEN Goes(l, "assign") /\ UNCHANGED reg
     ELSE Ends(l) /\ reg' = [reg EXCEPT ![l] = NoReg]
  /\ UNCHANGED <<planVars, waypointIndex, goalVars, liveVars, modeVars, spoiled>>

set_waypoint_assign(l) ==
  /\ Turn(l, "assign")
  /\ waypointIndex' = reg[l].index
  /\ Goes(l, "fetch")
  /\ UNCHANGED <<planVars, goalVars, liveVars, modeVars, reg, spoiled>>

(* Where the leg comes from is left out.                                   *)
set_waypoint_fetch(l) ==
  /\ Turn(l, "fetch")
  /\ current_waypoint' = At(waypointIndex)
  /\ reg' = [reg EXCEPT ![l].to = At(waypointIndex),
                        ![l].flags = IF waypointIndex = 0 THEN "first" ELSE "current"]
  /\ Goes(l, "point")
  /\ UNCHANGED <<planVars, waypointIndex, navgoal, behaviour, liveVars, modeVars, spoiled>>

(* navigate_set_goal: first the point, then the course of the leg.         *)
navigate_set_goal_point(l) ==
  /\ Turn(l, "point")
  /\ navgoal' = [navgoal EXCEPT !.point = reg[l].to]
  /\ Goes(l, "course")
  /\ UNCHANGED <<planVars, waypointIndex, current_waypoint, behaviour, liveVars,
                 modeVars, reg, spoiled>>

navigate_set_goal_course(l) ==
  /\ Turn(l, "course")
  /\ navgoal' = [navgoal EXCEPT !.course = reg[l].to]
  /\ IF reg[l].flags = "none"
     THEN Sets(l)
     ELSE Goes(l, "flags") /\ UNCHANGED <<reg, spoiled>>
  /\ UNCHANGED <<planVars, waypointIndex, current_waypoint, behaviour, liveVars, modeVars>>

(* setBehavior; a live waypoint is then done with.                         *)
setBehavior(l) ==
  /\ Turn(l, "flags")
  /\ behaviour' = IF reg[l].flags = "first" THEN At(0) ELSE current_waypoint
  /\ wp_inject_pos' = IF reg[l].flags = "live" THEN 0 ELSE wp_inject_pos
  /\ Sets(l)
  /\ UNCHANGED <<planVars, waypointIndex, current_waypoint, navgoal, wp_inject, sio,
                 lives, modeVars>>

SetSteps(l) ==
  \/ set_waypoint_check(l) \/ set_waypoint_assign(l) \/ set_waypoint_fetch(l)
  \/ navigate_set_goal_point(l) \/ navigate_set_goal_course(l) \/ setBehavior(l)

-----------------------------------------------------------------------------
(* The pulse: navigate_process_flightplan, flightplan_waypoints_update.    *)
(* It overtakes a command that is being carried out.                       *)
UpdateStarts(step, r) ==
  /\ Turn("nav", "idle") /\ GPS_steering
  /\ Goes("nav", step)
  /\ reg' = [reg EXCEPT !["nav"] = r, !["cmd"].cut = (pc["cmd"] # "idle")]
  /\ UNCHANGED <<planVars, navgoal, behaviour, liveVars, modeVars, spoiled>>

(* wp_inject: whole if all its bytes are of one message.                   *)
Received ==
  IF \A k \in DOMAIN wp_inject : wp_inject[k] = wp_inject[0]
  THEN Waypoint("live", wp_inject[0]) ELSE Torn

LiveReady ==
  /\ wp_inject_pos = READY
  /\ UpdateStarts("live", NoReg)
  /\ UNCHANGED <<waypointIndex, current_waypoint>>

(* The UART may have begun the next waypoint since.  The copy is one step: *)
(* a byte that comes during it is in it or not, as one before it or after. *)
FlyLive ==
  /\ Turn("nav", "live")
  /\ current_waypoint' = Received
  /\ reg' = [reg EXCEPT !["nav"].to = Received, !["nav"].flags = "live"]
  /\ Goes("nav", "point")
  /\ UNCHANGED <<planVars, waypointIndex, navgoal, behaviour, liveVars, modeVars, spoiled>>

(* Arrived: whether the plane has reached its goal is not up to the plan.  *)
Loiter ==
  /\ wp_inject_pos # READY
  /\ behaviour \in Loiters \cup Undefined
  /\ UpdateStarts("point", [NoReg EXCEPT !.to = At(waypointIndex)])
  /\ UNCHANGED <<waypointIndex, current_waypoint>>

next_waypoint ==
  /\ wp_inject_pos # READY
  /\ behaviour \notin Loiters
  /\ waypointIndex' = waypointIndex + 1
  /\ UpdateStarts("wrap", NoReg)
  /\ UNCHANGED current_waypoint

(* Mutant: the last index plus one counts as one of the plan. *)
Wrapped_Late == IF waypointIndex > numPoints THEN 0 ELSE waypointIndex

(* Mutant: the plan ends at its last waypoint. *)
Wrapped_Stays == IF waypointIndex >= numPoints THEN waypointIndex - 1 ELSE waypointIndex

Wrapped == IF waypointIndex >= numPoints THEN 0 ELSE waypointIndex

WrapAround ==
  /\ Turn("nav", "wrap")
  /\ waypointIndex' = Wrapped
  /\ reg' = [reg EXCEPT !["nav"].index = Wrapped]
  /\ Goes("nav", "check")
  /\ UNCHANGED <<planVars, goalVars, liveVars, modeVars, spoiled>>

(* Not steering, GPS not valid, or not arrived.                            *)
NothingToUpdate ==
  /\ Turn("nav", "idle")
  /\ Goes("nav", "output")
  /\ UNCHANGED <<planVars, waypointIndex, goalVars, liveVars, modeVars, reg, spoiled>>

Arrival == next_waypoint \/ Loiter
Update  ==
  LiveReady \/ FlyLive \/ Arrival \/ WrapAround \/ NothingToUpdate \/ SetSteps("nav")

-----------------------------------------------------------------------------
(* The state machine enters waypoint mode, return or a mode that does not  *)
(* steer.                                                                  *)
Overtakes ==
  reg' = [l \in Levels |-> IF pc[l] \in {"idle", "output"} THEN reg[l]
                           ELSE [reg[l] EXCEPT !.cut = TRUE]]

(* ent_waypointS, ent_returnS: flightplan_begin.                           *)
flightplan_begin(p) ==
  /\ flies
  /\ waypoints' = load_flightplan(load_flightplan(waypoints, "main"), p)
  /\ numPoints' = Points[p]
  /\ waypointIndex' = 0
  /\ current_waypoint' = Waypoint(p, 0) /\ behaviour' = Waypoint(p, 0)
  /\ navgoal' = [point |-> Waypoint(p, 0), course |-> Waypoint(p, 0)]
  /\ GPS_steering' = TRUE /\ begun' = p
  /\ Overtakes /\ spoiled' = FALSE
  /\ UNCHANGED <<liveVars, pc, flies>>

StopSteering ==
  /\ GPS_steering
  /\ GPS_steering' = FALSE
  /\ UNCHANGED <<planVars, waypointIndex, goalVars, liveVars, begun, flies, runVars>>

ModeChanges == StopSteering \/ \E p \in Plans : flightplan_begin(p)

-----------------------------------------------------------------------------
(* A live waypoint on the UART: W, the bytes, * and the checksum.  A byte  *)
(* that is lost or wrong spoils the checksum.                              *)
UartOnly == UNCHANGED <<planVars, waypointIndex, goalVars, modeVars, runVars>>
Receiving == sio.message > 0
NoMessage == [message |-> 0, sent |-> 0]

flightplan_live_begin ==
  /\ ~Receiving /\ lives > 0
  /\ lives' = lives - 1
  /\ sio' = [message |-> lives, sent |-> 0]
  /\ wp_inject_pos' = 0
  /\ UNCHANGED wp_inject /\ UartOnly

flightplan_live_received_byte ==
  /\ Receiving /\ sio.sent < LiveBytes
  /\ sio' = [sio EXCEPT !.sent = @ + 1]
  /\ IF wp_inject_pos < LiveBytes
     THEN /\ wp_inject' = [wp_inject EXCEPT ![wp_inject_pos] = sio.message]
          /\ wp_inject_pos' = wp_inject_pos + 1
     ELSE /\ wp_inject_pos' = IF wp_inject_pos = LiveBytes THEN LiveBytes + 1
                              ELSE wp_inject_pos
          /\ UNCHANGED wp_inject
  /\ UNCHANGED lives /\ UartOnly

(* Mutant: the number of bytes is not checked. *)
Complete_Always == TRUE

Complete == wp_inject_pos = LiveBytes

flightplan_live_commit ==
  /\ Receiving /\ sio.sent = LiveBytes
  /\ sio' = NoMessage
  /\ wp_inject_pos' = IF Complete THEN READY ELSE 0
  /\ UNCHANGED <<wp_inject, lives>> /\ UartOnly

BadByte ==
  /\ Receiving
  /\ sio' = NoMessage
  /\ UNCHANGED <<wp_inject, wp_inject_pos, lives>> /\ UartOnly

UartByte ==
  flightplan_live_begin \/ flightplan_live_received_byte \/ flightplan_live_commit \/ BadByte

-----------------------------------------------------------------------------
(* What messages do to the plan.                                           *)
clear_flightplan == numPoints' = 0 /\ spoiled' = TRUE /\ UNCHANGED waypoints

add_waypoint(w) ==
  IF Dynamic /\ numPoints < MAX_WAYPOINTS
  THEN /\ waypoints' = [waypoints EXCEPT ![numPoints] = w]
       /\ numPoints' = numPoints + 1
  ELSE UNCHANGED planVars

(***************************************************************************)
(* What is flown live arrived whole, in one message, if it is still there  *)
(* when it is copied: bytes of two messages are flown only when the UART   *)
(* began the next one between the check and the copy, whatever it received *)
(* before (flightplan-waypoints.c:359, 361, 418).                          *)
(***************************************************************************)
LiveIsWhole == [][current_waypoint' = Torn => wp_inject_pos # READY]_current_waypoint

(***************************************************************************)
(* In return, with nothing sent live or by message, the goal is a waypoint *)
(* of the return plan whenever no update or command is half way through    *)
(* (flightplan-waypoints.c:224, 264).                                      *)
(***************************************************************************)
ReturnFliesRtl ==
  begun = "rtl" /\ GPS_steering /\ (\A l \in Levels : pc[l] \in {"idle", "output"}) =>
    navgoal.point \in {Waypoint("rtl", i) : i \in 0 .. Points["rtl"] - 1}

(***************************************************************************)
(* The goal, the course to it and the flags in force are those of the      *)
(* waypoint at waypointIndex, or of a live one, unless a higher level      *)
(* overtook the one that set them or the plan was cleared under them.  A   *)
(* live waypoint with F_LOITER keeps its flags, and the goal becomes that  *)
(* of the plan again (flightplan-waypoints.c:391).  The index is below the *)
(* number of points; it may lie before the plan, as nothing checks that    *)
(* (MAVMission.c:235).                                                     *)
(***************************************************************************)
GoalFollowsIndex ==
  begun # "none" /\ ~spoiled /\ (\A l \in Levels : pc[l] \in {"idle", "output"}) =>
    /\ navgoal.course = navgoal.point
    /\ behaviour = current_waypoint
    /\ current_waypoint = At(waypointIndex) \/ IsLive(current_waypoint)
    /\ navgoal.point \in {At(waypointIndex), current_waypoint}
    /\ waypointIndex < numPoints

Placed == {"main", "rtl", "item", "beyond"} \X Nat
Flown  == Placed \cup ({"live", "torn", "none"} \X Nat)
Steps  == {"idle", "live", "wrap", "check", "assign", "fetch", "point", "course", "flags",
           "output", "count", "item"}
Registers ==
  [index: INT16, to: Flown, cut: BOOLEAN, flags: {"none", "first", "current", "live"}]

PlanTypeOK ==
  /\ waypoints \in [Places -> Placed] /\ numPoints \in 0 .. MAX_WAYPOINTS
  /\ waypointIndex \in INT16
  /\ current_waypoint \in Flown /\ behaviour \in Flown
  /\ navgoal \in [point: Flown, course: Flown]
  /\ wp_inject \in [0 .. LiveBytes - 1 -> Nat]
  /\ wp_inject_pos \in 0 .. READY
  /\ sio \in [message: Nat, sent: 0 .. LiveBytes]
  /\ lives \in Nat /\ flies \in BOOLEAN
  /\ GPS_steering \in BOOLEAN /\ begun \in {"none", "main", "rtl"}
  /\ pc \in [Levels -> Steps] /\ reg \in [Levels -> Registers]
  /\ spoiled \in BOOLEAN
=============================================================================
