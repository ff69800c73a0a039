---------------------------- MODULE FlightStates ----------------------------
(***************************************************************************)
(* The flight-mode state machine of the autopilot (MatrixPilot/states.c)   *)
(* with the mode switch (mode_switch.c), the radio failsafe decision       *)
(* (libUDB/radioIn.c) and the GPS validity that drive it.                  *)
(*                                                                         *)
(* Three interrupt levels interleave here:                                 *)
(*   heartbeat      level 6: udb_heartbeat_40hz_callback, the FSM clock    *)
(*   pulse          level 3: heartbeat_pulse, triggered by the heartbeat   *)
(*                  and preempted by later ones: failsafe check, switch    *)
(*                  recogniser, accelerometer                              *)
(*   GPS            level 2: gps_parse_common_callback                     *)
(* and the radio (level 6 input capture) changes the switch channel.       *)
(*                                                                         *)
(* FAILSAFE_TYPE is FAILSAFE_RTL, NORADIO and FLY_BY_DATALINK_ENABLED are  *)
(* 0 and the airframe is not AIRFRAME_HELI.  Trims, leds, waggles, logging *)
(* and the altitude-hold settings are left out.                            *)
(***************************************************************************)
EXTENDS ModeSwitch

CONSTANTS
  Catapult,      \* CATAPULT_LAUNCH_ENABLE
  FailsafeHold,  \* FAILSAFE_HOLD
  TwoPosition,   \* MODE_SWITCH_TWO_POSITION
  SyncPeriod,    \* the 20 of "counter++ >= 20"
  CalibPause,    \* CALIB_PAUSE
  StandbyPause,  \* STANDBY_PAUSE
  SaveOriginAt,  \* the 6 at which acquiringS asks for the origin
  DeadReckonAt,  \* the 2 at which acquiringS enables dead reckoning
  LaunchDelay,   \* LAUNCH_DELAY
  GpsMaxAge      \* GPS_DATA_MAX_AGE

ASSUME FlightStatesAssumption ==
  /\ Catapult \in BOOLEAN
  /\ FailsafeHold \in BOOLEAN
  /\ TwoPosition \in BOOLEAN
  /\ SyncPeriod \in Nat \ {0}
  /\ CalibPause \in Nat \ {0}
  /\ LaunchDelay \in Nat \ {0}
  /\ GpsMaxAge \in Nat \ {0}
  /\ StandbyPause \in Nat /\ SaveOriginAt \in Nat /\ DeadReckonAt \in Nat
  /\ 0 < DeadReckonAt /\ DeadReckonAt < SaveOriginAt
  /\ SaveOriginAt < StandbyPause

VARIABLES
  stateS,             \* the state function that runs at the next FSM clock
  counter,            \* 40 Hz ticks since the last synchronous FSM clock
  asap,               \* state_flags.update_autopilot_state_asap
  req,                \* man_req, auto_req, home_req: which one is set
  old_rtl_flags,      \* the request the switch made when last not held
  rtl_hold,           \* state_flags.rtl_hold
  GPS_steering, pitch_feedback, disable_throttle,  \* state_flags
  flightplan,         \* the plan flightplan_begin last began
  calib_timer, standby_timer, launch_timer,
  delayCheck,         \* ticks since cat_delay was entered (saturates)
  launch_detected, dead_reckon_enable, nav_capable,  \* dcm_flags
  save_origin,        \* state_flags.save_origin
  origin_set,         \* setup_origin has run
  calib_finished,     \* dcm_flags.calib_finished
  gps_data_age,       \* FSM clocks since the last GPS report
  radio_on,           \* udb_flags.radio_on
  pulseIF,            \* T6IF: a heartbeat pulse is waiting to run
  pulse               \* where the running heartbeat pulse is

planVars   == <<flightplan>>
timerVars  == <<calib_timer, standby_timer, launch_timer>>
modeVars   == <<GPS_steering, pitch_feedback, disable_throttle>>
originVars == <<save_origin, dead_reckon_enable>>
gpsVars    == <<gps_data_age, nav_capable>>
pulseVars  == <<pulseIF, pulse>>
clockVars  == <<counter, asap, delayCheck>>
reqVars    == <<req, old_rtl_flags, rtl_hold>>
fsmVars    == <<stateS, planVars, timerVars, modeVars, originVars,
                launch_detected>>

vars == <<switchVars, fsmVars, reqVars, clockVars, gpsVars, origin_set,
          calib_finished, radio_on, pulseVars>>

StartupStates == {"start", "calibrate", "acquiring"}
LaunchStates  == {"cat_armed", "cat_delay"}
FlightModes   == {"manual", "stabilized", "waypoint", "return"}
States == StartupStates \cup LaunchStates \cup FlightModes

Requests == {"none", "man", "auto", "home"}

(* init_states; counter, timers and flags are C statics.  GPS_DATA_MAX_AGE *)
(* + 1 is the age of data that cannot be used.                             *)
Init ==
  /\ SwitchInit
  /\ stateS = "start"
  /\ counter = 0 /\ asap = FALSE
  /\ req = "none" /\ old_rtl_flags = "none" /\ rtl_hold = FALSE
  /\ GPS_steering = FALSE /\ pitch_feedback = FALSE /\ disable_throttle = FALSE
  /\ flightplan = "none"
  /\ calib_timer = CalibPause /\ standby_timer = StandbyPause
  /\ launch_timer = LaunchDelay /\ delayCheck = 0
  /\ launch_detected = FALSE /\ dead_reckon_enable = FALSE
  /\ nav_capable = FALSE /\ gps_data_age = GpsMaxAge + 1
  /\ save_origin = FALSE /\ origin_set = FALSE /\ calib_finished = FALSE
  /\ radio_on = FALSE
  /\ pulseIF = FALSE /\ pulse = "idle"

-----------------------------------------------------------------------------
(* The request the switch makes now, before any failsafe hold.             *)
SwitchRequest ==
  IF TwoPosition
  THEN CASE request_autopilot_mode = "AUTONOMOUS" -> "home"
         [] request_autopilot_mode = "STABILIZED" -> "auto"
         [] OTHER -> "man"
  ELSE CASE pwIn = "high" -> "home"
         [] pwIn = "mid" -> "auto"
         [] OTHER -> "man"

(* The hold survives the check while the switch asks for what it asked for *)
(* when the link was lost.  Without radio it is not looked at.             *)
HoldKept ==
  rtl_hold /\ (radio_on => SwitchRequest = old_rtl_flags)

(* Mutant: a held request is reported instead of blanked. *)
CheckSet_HoldNotBlanked ==
  /\ req' = IF radio_on THEN SwitchRequest ELSE "home"
  /\ old_rtl_flags' = IF radio_on THEN SwitchRequest ELSE old_rtl_flags

(* flight_mode_switch_check_set; what it leaves in rtl_hold is HoldKept,   *)
(* written by the state function that runs after it.                       *)
flight_mode_switch_check_set ==
  /\ req' = IF ~radio_on THEN "home"
            ELSE IF HoldKept THEN "none"
            ELSE SwitchRequest
  /\ old_rtl_flags' = IF radio_on THEN SwitchRequest ELSE old_rtl_flags

(* gps_nav_capable_check_set                                               *)
gps_nav_capable_check_set ==
  /\ gps_data_age' = IF gps_data_age < GpsMaxAge THEN gps_data_age + 1
                     ELSE gps_data_age
  /\ nav_capable' = (gps_data_age' < GpsMaxAge)

-----------------------------------------------------------------------------
(* Entering a state.  Steering, feedback and throttle inhibit are the      *)
(* flags the control loops and the telemetry read.                         *)
Steer(steering, feedback) ==
  /\ GPS_steering' = steering
  /\ pitch_feedback' = feedback

ent_calibrateS ==
  /\ stateS' = "calibrate"
  /\ calib_timer' = CalibPause
  /\ Steer(FALSE, FALSE)
  /\ rtl_hold' = HoldKept
  /\ UNCHANGED <<disable_throttle, planVars, standby_timer, launch_timer,
                 originVars, launch_detected>>

(* In a calibrated plane the state function is entered with its timer      *)
(* already counted down, which the caller passes.                          *)
ent_acquiringS(calib) ==
  /\ stateS' = "acquiring"
  /\ calib_timer' = calib
  /\ standby_timer' = StandbyPause
  /\ Steer(FALSE, FALSE)
  /\ rtl_hold' = HoldKept
  /\ UNCHANGED <<disable_throttle, planVars, launch_timer, originVars,
                 launch_detected>>

(* Mutant: the throttle stays inhibited. *)
EntManual_ThrottleKept(standby, launch) ==
  /\ stateS' = "manual"
  /\ Steer(FALSE, FALSE)
  /\ standby_timer' = standby
  /\ launch_timer' = launch
  /\ rtl_hold' = HoldKept
  /\ UNCHANGED <<disable_throttle, planVars, calib_timer, originVars,
                 launch_detected>>

ent_manualS(standby, launch) ==
  /\ stateS' = "manual"
  /\ Steer(FALSE, FALSE)
  /\ disable_throttle' = FALSE
  /\ standby_timer' = standby
  /\ launch_timer' = launch
  /\ rtl_hold' = HoldKept
  /\ UNCHANGED <<planVars, calib_timer, originVars, launch_detected>>

(* Mutant: GPS steering is left on. *)
EntStabilized_SteeringKept ==
  /\ stateS' = "stabilized"
  /\ Steer(GPS_steering, TRUE)
  /\ rtl_hold' = HoldKept
  /\ UNCHANGED <<disable_throttle, planVars, timerVars, originVars,
                 launch_detected>>

ent_stabilizedS ==
  /\ stateS' = "stabilized"
  /\ Steer(FALSE, TRUE)
  /\ rtl_hold' = HoldKept
  /\ UNCHANGED <<disable_throttle, planVars, timerVars, originVars,
                 launch_detected>>

ent_cat_armedS ==
  /\ stateS' = "cat_armed"
  /\ launch_detected' = FALSE
  /\ disable_throttle' = TRUE
  /\ rtl_hold' = HoldKept
  /\ UNCHANGED <<GPS_steering, pitch_feedback, planVars, timerVars,
                 originVars>>

ent_cat_delayS ==
  /\ stateS' = "cat_delay"
  /\ launch_timer' = LaunchDelay
  /\ rtl_hold' = HoldKept
  /\ UNCHANGED <<modeVars, planVars, calib_timer, standby_timer, originVars,
                 launch_detected>>

ent_waypointS(launch) ==
  /\ stateS' = "waypoint"
  /\ Steer(TRUE, TRUE)
  /\ disable_throttle' = FALSE
  /\ flightplan' = "main"
  /\ launch_timer' = launch
  /\ rtl_hold' = HoldKept
  /\ UNCHANGED <<calib_timer, standby_timer, originVars, launch_detected>>

(* Mutant: only returnS sets the hold, one FSM clock later. *)
EntReturn_NoHold ==
  /\ stateS' = "return"
  /\ Steer(TRUE, TRUE)
  /\ flightplan' = "rtl"
  /\ rtl_hold' = HoldKept
  /\ UNCHANGED <<disable_throttle, timerVars, originVars, launch_detected>>

ent_returnS ==
  /\ stateS' = "return"
  /\ Steer(TRUE, TRUE)
  /\ flightplan' = "rtl"
  /\ rtl_hold' = (FailsafeHold \/ HoldKept)
  /\ UNCHANGED <<disable_throttle, timerVars, originVars, launch_detected>>

Stay ==
  /\ rtl_hold' = HoldKept
  /\ UNCHANGED fsmVars

-----------------------------------------------------------------------------
(* The state functions.  They read the request and nav_capable as the      *)
(* heartbeat left them just before: the primed values.                     *)
Manual     == req' = "man"
Stabilize  == req' = "auto"
Waypoints  == req' = "home" /\ nav_capable'

startS ==
  /\ stateS = "start"
  /\ ent_calibrateS

calibrateS ==
  /\ stateS = "calibrate"
  /\ \/ /\ radio_on
        /\ calib_timer - 1 <= 0
        /\ ent_acquiringS(calib_timer - 1)
     \/ /\ radio_on
        /\ calib_timer - 1 > 0
        /\ calib_timer' = calib_timer - 1
        /\ rtl_hold' = HoldKept
        /\ UNCHANGED <<stateS, planVars, standby_timer, launch_timer, modeVars,
                       originVars, launch_detected>>
     \/ /\ ~radio_on
        /\ ent_calibrateS

(* settled: the magnetometer and gps_check_startup_metrics are satisfied   *)
acquiringS(settled) ==
  LET ready == nav_capable' /\ radio_on /\ settled
      timer == standby_timer - 1
  IN  /\ stateS = "acquiring"
      /\ \/ /\ ready
            /\ timer <= 0
            /\ ent_manualS(timer, launch_timer)
         \/ /\ ready
            /\ timer > 0
            /\ standby_timer' = timer
            /\ save_origin' = (save_origin \/ timer = SaveOriginAt)
            /\ dead_reckon_enable' = (dead_reckon_enable \/ timer = DeadReckonAt)
            /\ rtl_hold' = HoldKept
            /\ UNCHANGED <<stateS, planVars, calib_timer, launch_timer,
                           modeVars, launch_detected>>
         \/ /\ ~ready
            /\ Stay

(* Mutant: a plane that is armed waits for the launch, whatever the switch. *)
CatArmed_IgnoresManual ==
  /\ stateS = "cat_armed"
  /\ IF ~radio_on \/ ~nav_capable'
     THEN ent_manualS(standby_timer, launch_timer)
     ELSE IF launch_detected THEN ent_cat_delayS
     ELSE Stay

cat_armedS ==
  /\ stateS = "cat_armed"
  /\ IF Manual \/ ~radio_on \/ ~nav_capable'
     THEN ent_manualS(standby_timer, launch_timer)
     ELSE IF launch_detected THEN ent_cat_delayS
     ELSE Stay

(* Mutant: the link is not looked at during the delay. *)
CatDelay_IgnoresLink ==
  /\ stateS = "cat_delay"
  /\ IF Manual \/ ~nav_capable'
     THEN ent_manualS(standby_timer, launch_timer)
     ELSE IF launch_timer - 1 = 0 THEN ent_waypointS(launch_timer - 1)
     ELSE /\ launch_timer' = launch_timer - 1
          /\ rtl_hold' = HoldKept
          /\ UNCHANGED <<stateS, planVars, calib_timer, standby_timer,
                         modeVars, originVars, launch_detected>>

cat_delayS ==
  /\ stateS = "cat_delay"
  /\ IF Manual \/ ~radio_on \/ ~nav_capable'
     THEN ent_manualS(standby_timer, launch_timer)
     ELSE IF launch_timer - 1 = 0 THEN ent_waypointS(launch_timer - 1)
     ELSE /\ launch_timer' = launch_timer - 1
          /\ rtl_hold' = HoldKept
          /\ UNCHANGED <<stateS, planVars, calib_timer, standby_timer,
                         modeVars, originVars, launch_detected>>

(* enabled: launch_enabled(), the catapult arming channel                  *)
manualS(enabled) ==
  /\ stateS = "manual"
  /\ \/ /\ radio_on
        /\ IF Waypoints
           THEN IF Catapult /\ enabled THEN ent_cat_armedS
                ELSE ent_waypointS(launch_timer)
           ELSE IF Stabilize THEN ent_stabilizedS
           ELSE Stay
     \/ /\ ~radio_on
        /\ IF nav_capable' THEN ent_returnS ELSE ent_stabilizedS

(* Mutant: without radio the plane stays stabilized. *)
Stabilized_NoReturn(enabled) ==
  /\ stateS = "stabilized"
  /\ IF radio_on /\ Waypoints
     THEN IF Catapult /\ enabled THEN ent_cat_armedS ELSE ent_waypointS(launch_timer)
     ELSE IF radio_on /\ Manual THEN ent_manualS(standby_timer, launch_timer)
     ELSE Stay

stabilizedS(enabled) ==
  /\ stateS = "stabilized"
  /\ \/ /\ radio_on
        /\ IF Waypoints
           THEN IF Catapult /\ enabled THEN ent_cat_armedS
                ELSE ent_waypointS(launch_timer)
           ELSE IF Manual THEN ent_manualS(standby_timer, launch_timer)
           ELSE Stay
     \/ /\ ~radio_on
        /\ IF nav_capable' THEN ent_returnS ELSE Stay

(* Mutant: manual is reached through stabilized only. *)
Waypoint_IgnoresManual ==
  /\ stateS = "waypoint"
  /\ IF ~radio_on THEN ent_returnS
     ELSE IF Stabilize THEN ent_stabilizedS
     ELSE Stay

waypointS ==
  /\ stateS = "waypoint"
  /\ \/ /\ radio_on
        /\ IF Manual THEN ent_manualS(standby_timer, launch_timer)
           ELSE IF Stabilize THEN ent_stabilizedS
           ELSE Stay
     \/ /\ ~radio_on
        /\ ent_returnS

returnS ==
  /\ stateS = "return"
  /\ \/ /\ radio_on
        /\ IF Manual THEN ent_manualS(standby_timer, launch_timer)
           ELSE IF Stabilize THEN ent_stabilizedS
           ELSE IF Waypoints THEN ent_waypointS(launch_timer)
           ELSE Stay
     \/ /\ ~radio_on
        /\ rtl_hold' = (FailsafeHold \/ HoldKept)
        /\ UNCHANGED fsmVars

RunState(settled, enabled) ==
  \/ startS \/ calibrateS \/ acquiringS(settled)
  \/ manualS(enabled) \/ stabilizedS(enabled) \/ waypointS \/ returnS
  \/ cat_armedS \/ cat_delayS

-----------------------------------------------------------------------------
(* The catapult build counts ticks for a debug message; the model stops    *)
(* counting at this bound.                                                 *)
DelayCheckBound == LaunchDelay + 1

(* Mutant: the clock is one tick late. *)
Sync_Late == counter > SyncPeriod

Sync == counter >= SyncPeriod

(* Mutant: the delay is not urgent. *)
Urgent_NotInDelay ==
  /\ Catapult
  /\ \/ (req' = "man") # (req = "man")
     \/ launch_detected /\ stateS = "cat_armed"

(* What makes the catapult build run the FSM at once: the manual request   *)
(* changed, the launch was detected while armed, or the delay is running.  *)
Urgent ==
  /\ Catapult
  /\ \/ (req' = "man") # (req = "man")
     \/ launch_detected /\ stateS = "cat_armed"
     \/ stateS = "cat_delay"

Async == ~Sync /\ (asap \/ Urgent)

(* udb_heartbeat_40hz_callback, both builds.  The pulse is triggered after *)
(* the callback returns; a pulse still waiting is not queued twice.        *)
Heartbeat ==
  /\ flight_mode_switch_check_set
  /\ IF Sync /\ stateS # "cat_delay"
     THEN gps_nav_capable_check_set
     ELSE UNCHANGED gpsVars
  /\ \E settled, enabled \in BOOLEAN :
       IF Sync \/ Async THEN RunState(settled, enabled) ELSE Stay
  /\ counter' = IF Sync \/ (Catapult /\ Async) THEN 0 ELSE counter + 1
  /\ asap' = FALSE
  /\ delayCheck' = IF stateS' = "cat_delay" /\ stateS # "cat_delay" THEN 0
                   ELSE IF Catapult /\ delayCheck < DelayCheckBound
                   THEN delayCheck + 1
                   ELSE delayCheck
  /\ pulseIF' = TRUE
  /\ UNCHANGED <<switchVars, origin_set, calib_finished, radio_on, pulse>>

-----------------------------------------------------------------------------
(* heartbeat_pulse starts.  In one pulse out of HEARTBEAT_HZ/5 it runs     *)
(* radioIn_failsafe_check: the link is good when a valid pulse arrived     *)
(* since the last check and the bad ones stayed under the limit.           *)
PulseBegins ==
  /\ pulse = "idle" /\ pulseIF
  /\ pulseIF' = FALSE
  /\ pulse' = "failsafe"
  /\ UNCHANGED <<switchVars, fsmVars, reqVars, clockVars, gpsVars,
                 origin_set, calib_finished, radio_on>>

(* No check is due in this pulse.                                          *)
SkipFailsafeCheck ==
  /\ pulse = "failsafe"
  /\ pulse' = "control"
  /\ UNCHANGED <<switchVars, fsmVars, reqVars, clockVars, gpsVars,
                 origin_set, calib_finished, radio_on, pulseIF>>

radioIn_failsafe_check(linkGood) ==
  /\ pulse = "failsafe"
  /\ radio_on' = linkGood
  /\ pulse' = IF radio_on /\ ~linkGood THEN "turned_off" ELSE "control"
  /\ UNCHANGED <<switchVars, fsmVars, reqVars, clockVars, gpsVars,
                 origin_set, calib_finished, pulseIF>>

(* Mutant: the callback only logs. *)
RadioTurnedOff_NoSignal ==
  /\ pulse = "turned_off"
  /\ pulse' = "control"
  /\ UNCHANGED <<switchVars, fsmVars, reqVars, clockVars, gpsVars,
                 origin_set, calib_finished, radio_on, pulseIF>>

(* A heartbeat can preempt between the flag and its callback.              *)
udb_callback_radio_did_turn_off ==
  /\ pulse = "turned_off"
  /\ asap' = TRUE
  /\ pulse' = "control"
  /\ UNCHANGED <<switchVars, fsmVars, reqVars, counter, delayCheck, gpsVars,
                 origin_set, calib_finished, radio_on, pulseIF>>

(* The rest of the pulse.  Once the sensors are calibrated the             *)
(* accelerometer may show a launch (rmat.c) and flight_controller polls    *)
(* the two-position switch; until then, this pulse may be the one that     *)
(* completes the calibration.                                              *)
FlightController ==
  /\ pulse = "control"
  /\ pulse' = "idle"
  /\ \/ /\ calib_finished
        /\ launch_detected' \in {launch_detected, Catapult \/ launch_detected}
        /\ IF TwoPosition THEN flight_mode_switch_2pos_poll ELSE UNCHANGED switchVars
        /\ UNCHANGED calib_finished
     \/ /\ ~calib_finished
        /\ calib_finished' \in BOOLEAN
        /\ UNCHANGED <<launch_detected, switchVars>>
  /\ UNCHANGED <<stateS, planVars, timerVars, modeVars, originVars, reqVars,
                 clockVars, gpsVars, origin_set, radio_on, pulseIF>>

Pulse ==
  \/ PulseBegins
  \/ SkipFailsafeCheck
  \/ \E linkGood \in BOOLEAN : radioIn_failsafe_check(linkGood)
  \/ udb_callback_radio_did_turn_off
  \/ FlightController

(* Mutant: the request is cleared before the origin is captured. *)
GpsValid_OriginDropped ==
  /\ gps_data_age' = 0
  /\ save_origin' = FALSE
  /\ UNCHANGED <<switchVars, stateS, planVars, timerVars, modeVars,
                 dead_reckon_enable, launch_detected, reqVars, clockVars,
                 nav_capable, radio_on, origin_set, calib_finished,
                 pulseVars>>

(* gps_parse_common_callback with a valid fix; the location callback       *)
(* captures the origin if the FSM has asked for it.                        *)
GpsValid ==
  /\ gps_data_age' = 0
  /\ save_origin' = FALSE
  /\ origin_set' = (origin_set \/ save_origin)
  /\ UNCHANGED <<switchVars, stateS, planVars, timerVars, modeVars,
                 dead_reckon_enable, launch_detected, reqVars, clockVars,
                 nav_capable, calib_finished, radio_on, pulseVars>>

(* ... and with a report that is not valid, or a bad checksum.             *)
GpsInvalid ==
  /\ gps_data_age' = GpsMaxAge + 1
  /\ UNCHANGED <<switchVars, fsmVars, reqVars, clockVars, nav_capable,
                 origin_set, calib_finished, radio_on, pulseVars>>

SwitchMoves ==
  /\ MoveSwitch
  /\ UNCHANGED <<fsmVars, reqVars, clockVars, gpsVars, origin_set,
                 calib_finished, radio_on, pulseVars>>

Next == Heartbeat \/ Pulse \/ GpsValid \/ GpsInvalid \/ SwitchMoves

Spec == Init /\ [][Next]_vars

(* The heartbeat is a timer interrupt above every other level in the       *)
(* model: it always comes again.  Nothing is assumed of the pulse.         *)
HeartbeatSpec == Spec /\ WF_vars(Heartbeat)

(* The pulse runs to its end too, unless heartbeats take all of the time.  *)
FairSpec == HeartbeatSpec /\ WF_vars(Pulse)

TypeOK ==
  /\ SwitchTypeOK
  /\ stateS \in States
  /\ counter \in 0 .. SyncPeriod /\ asap \in BOOLEAN
  /\ req \in Requests /\ old_rtl_flags \in Requests /\ rtl_hold \in BOOLEAN
  /\ GPS_steering \in BOOLEAN /\ pitch_feedback \in BOOLEAN
  /\ disable_throttle \in BOOLEAN
  /\ flightplan \in {"none", "main", "rtl"}
  /\ calib_timer \in 0 .. CalibPause
  /\ standby_timer \in 0 .. StandbyPause
  /\ launch_timer \in 0 .. LaunchDelay
  /\ delayCheck \in 0 .. DelayCheckBound
  /\ launch_detected \in BOOLEAN /\ dead_reckon_enable \in BOOLEAN
  /\ nav_capable \in BOOLEAN /\ gps_data_age \in 0 .. GpsMaxAge + 1
  /\ save_origin \in BOOLEAN /\ origin_set \in BOOLEAN
  /\ calib_finished \in BOOLEAN
  /\ radio_on \in BOOLEAN
  /\ pulseIF \in BOOLEAN
  /\ pulse \in {"idle", "failsafe", "turned_off", "control"}

-----------------------------------------------------------------------------
(***************************************************************************)
(* The throttle inhibit set when a catapult launch is armed is in force    *)
(* exactly while the plane waits on the catapult: no path out of the       *)
(* launch states forgets to release it and none enters without it          *)
(* (ent_cat_armedS, ent_manualS, ent_waypointS; ent_stabilizedS does not   *)
(* touch the flag).                                                        *)
(***************************************************************************)
ThrottleInhibitedOnCatapult == disable_throttle <=> stateS \in LaunchStates

(***************************************************************************)
(* A failsafe hold exists only in the return state: every way out of it    *)
(* goes through a check that has cleared the hold in the same heartbeat,   *)
(* so the OSD text "RTL hold" and the request blanking in                  *)
(* flight_mode_switch_check_set never apply to another mode.               *)
(***************************************************************************)
HoldOnlyInReturn == rtl_hold => stateS = "return"

(***************************************************************************)
(* The two flags that telemetry, MAVLink and the control loops decode as   *)
(* the flight mode (telemetry.c:516-522) agree with the FSM state.         *)
(***************************************************************************)
ModeFlagsTellState ==
  /\ GPS_steering <=> stateS \in {"waypoint", "return"}
  /\ stateS \in {"stabilized", "waypoint", "return"} => pitch_feedback
  /\ stateS \in StartupStates \cup {"manual"} => ~pitch_feedback

(***************************************************************************)
(* Once the loss of the radio has been signalled and one FSM clock has     *)
(* consumed the signal, the plane is in no mode that needs the pilot: not  *)
(* in waypoint or on the catapult, and in the plain build not in manual.   *)
(* The heartbeat that preempts radioIn_failsafe_check between the flag and *)
(* the callback does not lose the signal.                                  *)
(***************************************************************************)
FailsafeEngaged ==
  ~radio_on /\ ~asap /\ pulse # "turned_off"
    => /\ stateS \notin LaunchStates \cup {"waypoint"}
       /\ ~Catapult => stateS # "manual"

(***************************************************************************)
(* The launch delay runs one FSM clock in every 40 Hz tick and nothing     *)
(* restarts it half way: delayCheck, which the code prints, and            *)
(* launch_timer always add up to LAUNCH_DELAY.                             *)
(***************************************************************************)
LaunchDelayExact ==
  stateS = "cat_delay" => delayCheck + launch_timer = LaunchDelay

(***************************************************************************)
(* No plane flies before standby has asked for the origin and enabled dead *)
(* reckoning, and the request is not lost: it is pending or was honoured.  *)
(***************************************************************************)
OriginRequestedBeforeFlight ==
  stateS \in FlightModes \cup LaunchStates
    => dead_reckon_enable /\ (save_origin \/ origin_set)

(***************************************************************************)
(* Manual control takeover (heartbeat.c:87-90): when the pilot holds the   *)
(* switch at manual and the radio stays on, the plane ends in manual (or   *)
(* has not left start-up; with FAILSAFE_HOLD it may be held in return).    *)
(***************************************************************************)
ManualTakeover ==
  <>[](radio_on /\ pwIn = "low")
    => <>[](stateS \in StartupStates \cup {"manual"}
                  \cup (IF FailsafeHold THEN {"return"} ELSE {}))

(***************************************************************************)
(* Return to launch: when the radio stays lost and GPS stays usable, every *)
(* plane that has left start-up ends in the return state.                  *)
(***************************************************************************)
LostRadioReturns ==
  <>[](~radio_on /\ nav_capable) => <>[](stateS \in StartupStates \cup {"return"})
=============================================================================
