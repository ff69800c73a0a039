-------------------------- MODULE FlightStatesProofs --------------------------
(***************************************************************************)
(* Machine-checked proofs about FlightStates, for every value of the       *)
(* constants.  TypeCorrect comes first; every other invariant is proved by *)
(* one lemma on a single step, which may use the types, and a theorem.     *)
(***************************************************************************)
EXTENDS FlightStates, TLAPS

Waiting == {"MANUAL_T1", "STABILIZED_T1", "MANUAL_T2"}

(***************************************************************************)
(* The types, and why the counters stay in range: a timer is positive in   *)
(* the state that counts it down, and the toggle timer has room left while *)
(* a toggle is awaited.                                                    *)
(***************************************************************************)
TypeInv ==
  /\ TypeOK
  /\ stateS = "calibrate" => calib_timer > 0
  /\ stateS = "acquiring" => standby_timer > 0
  /\ stateS = "cat_delay" => launch_timer > 0
  /\ flight_mode_switch_state \in Waiting
       => toggle_switch_counter_40hz <= MaxPauseToggle + 1

(***************************************************************************)
(* The initial state of the flight modes (init_states and the C statics)   *)
(* has the types.                                                          *)
(***************************************************************************)
LEMMA InitTypes == Init => TypeInv
  <1> SUFFICES ASSUME Init PROVE TypeInv
    OBVIOUS
  <1>1. SwitchTypeOK
    BY ModeSwitchAssumption DEF Init, SwitchInit, SwitchTypeOK, Modes, SwitchStates
  <1>2. /\ counter \in 0 .. SyncPeriod
        /\ calib_timer \in 0 .. CalibPause
        /\ standby_timer \in 0 .. StandbyPause
        /\ launch_timer \in 0 .. LaunchDelay
        /\ delayCheck \in 0 .. DelayCheckBound
        /\ gps_data_age \in 0 .. GpsMaxAge + 1
    BY FlightStatesAssumption DEF Init, DelayCheckBound
  <1>3. TypeOK
    BY <1>1, <1>2 DEF Init, TypeOK, States, StartupStates, Requests
  <1> QED BY <1>3, FlightStatesAssumption DEF Init, SwitchInit, TypeInv, Waiting

(***************************************************************************)
(* A poll of the two-position recogniser keeps the types of its variables  *)
(* and the room of its toggle timer.                                       *)
(***************************************************************************)
LEMMA PollTypes ==
  ASSUME SwitchTypeOK, flight_mode_switch_2pos_poll,
         flight_mode_switch_state \in Waiting
           => toggle_switch_counter_40hz <= MaxPauseToggle + 1
  PROVE  /\ SwitchTypeOK'
         /\ (flight_mode_switch_state \in Waiting
               => toggle_switch_counter_40hz <= MaxPauseToggle + 1)'
  BY ModeSwitchAssumption
  DEF SwitchTypeOK, flight_mode_switch_2pos_poll, Enter, Await, AwaitToggle,
      Modes, SwitchStates, Waiting

(***************************************************************************)
(* flight_mode_switch_check_set leaves one of the four requests.           *)
(***************************************************************************)
LEMMA RequestTypes ==
  ASSUME TypeOK, flight_mode_switch_check_set
  PROVE  req' \in Requests /\ old_rtl_flags' \in Requests
  <1>1. SwitchRequest \in Requests
    BY DEF SwitchRequest, Requests
  <1> QED BY <1>1 DEF TypeOK, flight_mode_switch_check_set, Requests
(***************************************************************************)
(* What the state functions write, apart from the request.                 *)
(***************************************************************************)
FsmTypes ==
  /\ stateS \in States
  /\ rtl_hold \in BOOLEAN
  /\ GPS_steering \in BOOLEAN /\ pitch_feedback \in BOOLEAN
  /\ disable_throttle \in BOOLEAN
  /\ flightplan \in {"none", "main", "rtl"}
  /\ launch_detected \in BOOLEAN /\ dead_reckon_enable \in BOOLEAN
  /\ save_origin \in BOOLEAN

TimerTypes ==
  /\ calib_timer \in 0 .. CalibPause
  /\ standby_timer \in 0 .. StandbyPause
  /\ launch_timer \in 0 .. LaunchDelay
  /\ stateS = "calibrate" => calib_timer > 0
  /\ stateS = "acquiring" => standby_timer > 0
  /\ stateS = "cat_delay" => launch_timer > 0

(***************************************************************************)
(* Every state function, in both builds, writes states and flags only.     *)
(***************************************************************************)
LEMMA RunFlagTypes ==
  ASSUME FsmTypes, NEW settled \in BOOLEAN, NEW enabled \in BOOLEAN,
         RunState(settled, enabled) \/ Stay
  PROVE  FsmTypes'
  <1> USE DEF Steer, Stay, fsmVars, timerVars, planVars, modeVars, originVars,
              FsmTypes, States, StartupStates, LaunchStates, FlightModes
  <1>h. HoldKept \in BOOLEAN
    BY DEF HoldKept
  <1>s. CASE Stay
    BY <1>s, <1>h
  <1>1. CASE startS
    BY <1>1, <1>h DEF startS, ent_calibrateS
  <1>2. CASE calibrateS
    BY <1>2, <1>h DEF calibrateS, ent_calibrateS, ent_acquiringS
  <1>3. CASE acquiringS(settled)
    BY <1>3, <1>h DEF acquiringS, ent_manualS
  <1>4. CASE manualS(enabled)
    BY <1>4, <1>h DEF manualS, ent_cat_armedS, ent_waypointS,
       ent_stabilizedS, ent_returnS
  <1>5. CASE stabilizedS(enabled)
    BY <1>5, <1>h DEF stabilizedS, ent_cat_armedS, ent_waypointS,
       ent_manualS, ent_returnS
  <1>6. CASE waypointS
    BY <1>6, <1>h DEF waypointS, ent_manualS, ent_stabilizedS, ent_returnS
  <1>7. CASE returnS
    BY <1>7, <1>h DEF returnS, ent_manualS, ent_stabilizedS, ent_waypointS
  <1>8. CASE cat_armedS
    BY <1>8, <1>h DEF cat_armedS, ent_manualS, ent_cat_delayS
  <1>9. CASE cat_delayS
    BY <1>9, <1>h DEF cat_delayS, ent_manualS, ent_waypointS
  <1> QED BY <1>s, <1>1, <1>2, <1>3, <1>4, <1>5, <1>6, <1>7, <1>8, <1>9 DEF RunState

(***************************************************************************)
(* Every state function leaves the timers in range, and positive in the    *)
(* state that counts them down.                                            *)
(***************************************************************************)
LEMMA RunTimerTypes ==
  ASSUME TimerTypes, NEW settled \in BOOLEAN, NEW enabled \in BOOLEAN,
         RunState(settled, enabled) \/ Stay
  PROVE  TimerTypes'
  <1> USE FlightStatesAssumption
          DEF Stay, fsmVars, timerVars, TimerTypes
  <1>s. CASE Stay
    BY <1>s
  <1>1. CASE startS
    BY <1>1 DEF startS, ent_calibrateS
  <1>2. CASE calibrateS
    <2>1. calib_timer - 1 \in 0 .. CalibPause
      BY <1>2 DEF calibrateS
    <2>2. CASE ent_acquiringS(calib_timer - 1)
      BY <2>1, <2>2 DEF ent_acquiringS
    <2>3. CASE /\ calib_timer - 1 > 0
               /\ calib_timer' = calib_timer - 1
               /\ UNCHANGED <<stateS, standby_timer, launch_timer>>
      BY <1>2, <2>1, <2>3 DEF calibrateS
    <2>4. CASE ent_calibrateS
      BY <2>4 DEF ent_calibrateS
    <2> QED BY <1>2, <2>2, <2>3, <2>4 DEF calibrateS
  <1>3. CASE acquiringS(settled)
    <2>1. standby_timer - 1 \in 0 .. StandbyPause
      BY <1>3 DEF acquiringS
    <2>2. CASE ent_manualS(standby_timer - 1, launch_timer)
      BY <2>1, <2>2 DEF ent_manualS
    <2>3. CASE /\ standby_timer - 1 > 0
               /\ standby_timer' = standby_timer - 1
               /\ UNCHANGED <<stateS, calib_timer, launch_timer>>
      BY <1>3, <2>1, <2>3 DEF acquiringS
    <2> QED BY <1>3, <2>2, <2>3, <1>s DEF acquiringS
  <1>4. CASE manualS(enabled)
    BY <1>4 DEF manualS, ent_cat_armedS, ent_waypointS, ent_stabilizedS,
       ent_returnS
  <1>5. CASE stabilizedS(enabled)
    BY <1>5 DEF stabilizedS, ent_cat_armedS, ent_waypointS, ent_manualS,
       ent_returnS
  <1>6. CASE waypointS
    BY <1>6 DEF waypointS, ent_manualS, ent_stabilizedS, ent_returnS
  <1>7. CASE returnS
    BY <1>7 DEF returnS, ent_manualS, ent_stabilizedS, ent_waypointS
  <1>8. CASE cat_armedS
    <2>1. CASE ent_manualS(standby_timer, launch_timer)
      BY <2>1 DEF ent_manualS
    <2>2. CASE ent_cat_delayS
      BY <2>2 DEF ent_cat_delayS
    <2> QED BY <1>8, <2>1, <2>2, <1>s DEF cat_armedS
  <1>9. CASE cat_delayS
    <2>1. CASE ent_manualS(standby_timer, launch_timer)
      BY <2>1 DEF ent_manualS
    <2>2. CASE ent_waypointS(launch_timer - 1)
      BY <1>9, <2>2 DEF cat_delayS, ent_waypointS
    <2>3. CASE /\ launch_timer - 1 # 0
               /\ launch_timer' = launch_timer - 1
               /\ UNCHANGED <<stateS, calib_timer, standby_timer>>
      BY <1>9, <2>3 DEF cat_delayS
    <2> QED BY <1>9, <2>1, <2>2, <2>3 DEF cat_delayS
  <1> QED BY <1>s, <1>1, <1>2, <1>3, <1>4, <1>5, <1>6, <1>7, <1>8, <1>9 DEF RunState

(***************************************************************************)
(* The variables that heartbeats, pulses and reports write around the FSM. *)
(***************************************************************************)
ToggleRoom ==
  flight_mode_switch_state \in Waiting
    => toggle_switch_counter_40hz <= MaxPauseToggle + 1

ClockTypes ==
  /\ counter \in 0 .. SyncPeriod
  /\ delayCheck \in 0 .. DelayCheckBound
  /\ gps_data_age \in 0 .. GpsMaxAge + 1

FlagTypes ==
  /\ asap \in BOOLEAN /\ nav_capable \in BOOLEAN
  /\ origin_set \in BOOLEAN /\ radio_on \in BOOLEAN /\ pulseIF \in BOOLEAN
  /\ calib_finished \in BOOLEAN
  /\ pulse \in {"idle", "failsafe", "turned_off", "control"}
  /\ req \in Requests /\ old_rtl_flags \in Requests

(***************************************************************************)
(* The type invariant is the conjunction of these parts.                   *)
(***************************************************************************)
LEMMA TypeParts ==
  TypeInv <=> SwitchTypeOK /\ ToggleRoom /\ FsmTypes /\ TimerTypes
                /\ ClockTypes /\ FlagTypes
  BY DEF TypeInv, TypeOK, ToggleRoom, FsmTypes, TimerTypes, ClockTypes, FlagTypes

(***************************************************************************)
(* The heartbeat keeps its own counters in range: a synchronous clock      *)
(* resets the 40 Hz counter before it can pass SyncPeriod.                 *)
(***************************************************************************)
LEMMA HeartbeatClocks ==
  ASSUME ClockTypes, Heartbeat
  PROVE  ClockTypes'
  <1> USE FlightStatesAssumption
  <1>1. counter' \in 0 .. SyncPeriod
    BY DEF ClockTypes, Heartbeat, Sync
  <1>2. delayCheck' \in 0 .. DelayCheckBound
    BY DEF ClockTypes, Heartbeat, DelayCheckBound
  <1>3. gps_data_age' \in 0 .. GpsMaxAge + 1
    BY DEF ClockTypes, Heartbeat, gps_nav_capable_check_set, gpsVars
  <1> QED BY <1>1, <1>2, <1>3 DEF ClockTypes, DelayCheckBound

(***************************************************************************)
(* ... and leaves one of the four requests (flight_mode_switch_check_set). *)
(***************************************************************************)
LEMMA HeartbeatFlags ==
  ASSUME FlagTypes, Heartbeat
  PROVE  FlagTypes'
  <1>1. SwitchRequest \in Requests
    BY DEF SwitchRequest, Requests
  <1>2. req' \in Requests /\ old_rtl_flags' \in Requests
    BY <1>1 DEF FlagTypes, Heartbeat, flight_mode_switch_check_set, Requests
  <1>3. nav_capable' \in BOOLEAN
    <2>1. (gps_data_age' < GpsMaxAge) \in BOOLEAN
      OBVIOUS
    <2>2. nav_capable' = (gps_data_age' < GpsMaxAge) \/ nav_capable' = nav_capable
      BY DEF Heartbeat, gps_nav_capable_check_set, gpsVars
    <2> QED BY <2>1, <2>2 DEF FlagTypes
  <1> QED BY <1>2, <1>3 DEF FlagTypes, Heartbeat

(***************************************************************************)
(* Every step of the flight modes keeps the types.                         *)
(***************************************************************************)
LEMMA TypeStep ==
  ASSUME TypeInv, [Next]_vars
  PROVE  TypeInv'
  <1>1. SwitchTypeOK /\ ToggleRoom /\ FsmTypes /\ TimerTypes /\ ClockTypes /\ FlagTypes
    BY TypeParts
  <1> SUFFICES SwitchTypeOK' /\ ToggleRoom' /\ FsmTypes' /\ TimerTypes'
                 /\ ClockTypes' /\ FlagTypes'
    BY DEF TypeInv, TypeOK, ToggleRoom, FsmTypes, TimerTypes, ClockTypes, FlagTypes
  <1>2. CASE Heartbeat
    <2>1. SwitchTypeOK' /\ ToggleRoom'
      BY <1>1, <1>2 DEF Heartbeat, switchVars, SwitchTypeOK, ToggleRoom
    <2>2. \E settled, enabled \in BOOLEAN : RunState(settled, enabled) \/ Stay
      BY <1>2 DEF Heartbeat
    <2>3. FsmTypes' /\ TimerTypes'
      BY <1>1, <2>2, RunFlagTypes, RunTimerTypes
    <2> QED BY <1>1, <1>2, <2>1, <2>3, HeartbeatClocks, HeartbeatFlags
  <1>3. CASE FlightController
    <2>1. SwitchTypeOK' /\ ToggleRoom'
      <3>1. CASE flight_mode_switch_2pos_poll
        BY <1>1, <3>1, PollTypes DEF ToggleRoom
      <3>2. CASE UNCHANGED switchVars
        BY <1>1, <3>2 DEF switchVars, SwitchTypeOK, ToggleRoom
      <3> QED BY <1>3, <3>1, <3>2 DEF FlightController, switchVars
    <2>2. FsmTypes' /\ TimerTypes'
      <3>1. launch_detected' \in BOOLEAN
        <4>1. (Catapult \/ launch_detected) \in BOOLEAN
          OBVIOUS
        <4> QED BY <1>1, <1>3, <4>1 DEF FlightController, FsmTypes
      <3> QED BY <1>1, <1>3, <3>1 DEF FlightController, FsmTypes, TimerTypes,
              planVars, timerVars, modeVars, originVars, reqVars
    <2>3. ClockTypes' /\ FlagTypes'
      BY <1>1, <1>3 DEF FlightController, ClockTypes, FlagTypes, clockVars,
         gpsVars, reqVars, DelayCheckBound
    <2> QED BY <2>1, <2>2, <2>3
  <1>4. CASE PulseBegins \/ SkipFailsafeCheck \/ udb_callback_radio_did_turn_off
             \/ \E linkGood \in BOOLEAN : radioIn_failsafe_check(linkGood)
    <2>1. SwitchTypeOK' /\ ToggleRoom'
      BY <1>1, <1>4 DEF PulseBegins, SkipFailsafeCheck, radioIn_failsafe_check,
         udb_callback_radio_did_turn_off, switchVars, SwitchTypeOK, ToggleRoom
    <2>2. FsmTypes' /\ TimerTypes'
      BY <1>1, <1>4 DEF PulseBegins, SkipFailsafeCheck, radioIn_failsafe_check,
         udb_callback_radio_did_turn_off, FsmTypes, TimerTypes, fsmVars, planVars,
         timerVars, modeVars, originVars, reqVars
    <2>3. ClockTypes' /\ FlagTypes'
      BY <1>1, <1>4 DEF PulseBegins, SkipFailsafeCheck, radioIn_failsafe_check,
         udb_callback_radio_did_turn_off, ClockTypes, FlagTypes, clockVars,
         gpsVars, reqVars, DelayCheckBound
    <2> QED BY <2>1, <2>2, <2>3
  <1>5. CASE GpsValid \/ GpsInvalid
    <2>1. SwitchTypeOK' /\ ToggleRoom'
      BY <1>1, <1>5 DEF GpsValid, GpsInvalid, switchVars, SwitchTypeOK, ToggleRoom
    <2>2. /\ UNCHANGED <<timerVars, clockVars>>
          /\ gps_data_age' \in {0, GpsMaxAge + 1}
      BY <1>5 DEF GpsValid, GpsInvalid, fsmVars
    <2>3. TimerTypes' /\ ClockTypes'
      <3>1. stateS' = stateS
        BY <1>5 DEF GpsValid, GpsInvalid, fsmVars
      <3> QED BY <1>1, <2>2, <3>1, FlightStatesAssumption
              DEF TimerTypes, ClockTypes, timerVars, clockVars, DelayCheckBound
    <2>4. save_origin' \in BOOLEAN /\ origin_set' \in BOOLEAN
      <3>1. (origin_set \/ save_origin) \in BOOLEAN
        OBVIOUS
      <3> QED BY <1>1, <1>5, <3>1 DEF GpsValid, GpsInvalid, FsmTypes, FlagTypes,
              fsmVars, originVars
    <2>5. FsmTypes' /\ FlagTypes'
      BY <1>1, <1>5, <2>4 DEF GpsValid, GpsInvalid, FsmTypes, FlagTypes, fsmVars,
         planVars, modeVars, originVars, reqVars, clockVars, pulseVars
    <2> QED BY <2>1, <2>3, <2>5
  <1>6. CASE SwitchMoves
    <2>1. SwitchTypeOK' /\ ToggleRoom'
      BY <1>1, <1>6 DEF SwitchMoves, MoveSwitch, SwitchTypeOK, ToggleRoom
    <2>2. FsmTypes' /\ TimerTypes'
      BY <1>1, <1>6 DEF SwitchMoves, FsmTypes, TimerTypes, fsmVars, planVars,
         timerVars, modeVars, originVars, reqVars
    <2>3. ClockTypes' /\ FlagTypes'
      BY <1>1, <1>6 DEF SwitchMoves, ClockTypes, FlagTypes, clockVars, gpsVars,
         reqVars, pulseVars, DelayCheckBound
    <2> QED BY <2>1, <2>2, <2>3
  <1>7. CASE UNCHANGED vars
    BY <1>1, <1>7 DEF vars, switchVars, fsmVars, planVars, timerVars, modeVars,
       originVars, reqVars, clockVars, gpsVars, pulseVars, SwitchTypeOK, ToggleRoom,
       FsmTypes, TimerTypes, ClockTypes, FlagTypes, DelayCheckBound
  <1> QED BY <1>2, <1>3, <1>4, <1>5, <1>6, <1>7 DEF Next, Pulse

(***************************************************************************)
(* The type invariant of the flight modes: timers and counters stay in     *)
(* range whatever order heartbeats, pulses, reports and switch moves take. *)
(***************************************************************************)
THEOREM TypeCorrect == Spec => []TypeOK
  <1>1. TypeInv => TypeOK
    BY DEF TypeInv
  <1> QED BY <1>1, InitTypes, TypeStep, PTL DEF Spec
=============================================================================
