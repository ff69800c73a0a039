-------------------------- MODULE FlightSafetyProofs --------------------------
(***************************************************************************)
(* Machine-checked proofs of the safety invariants of FlightStates, for    *)
(* every value of the constants.  Only a heartbeat runs the state machine, *)
(* so each invariant is proved by a lemma on one run of a state function   *)
(* and, where pulses or reports can disturb it, one case per action.       *)
(***************************************************************************)
EXTENDS FlightStatesProofs, MCFlightStates

(***************************************************************************)
(* Pulses, GPS reports and switch moves leave the state, its timers and    *)
(* its flags alone.                                                        *)
(***************************************************************************)
LEMMA OnlyHeartbeatRunsFsm ==
  ASSUME [Next]_vars, ~Heartbeat
  PROVE  /\ UNCHANGED <<stateS, flightplan, standby_timer, launch_timer>>
         /\ UNCHANGED <<GPS_steering, pitch_feedback, disable_throttle>>
         /\ UNCHANGED <<dead_reckon_enable, rtl_hold, req, old_rtl_flags>>
         /\ UNCHANGED <<counter, delayCheck>>
  BY DEF Next, Pulse, PulseBegins, SkipFailsafeCheck, radioIn_failsafe_check,
     udb_callback_radio_did_turn_off, FlightController, GpsValid, GpsInvalid,
     SwitchMoves, vars, fsmVars, planVars, timerVars, modeVars, originVars, reqVars,
     clockVars

(***************************************************************************)
(* A heartbeat runs one state function or leaves the state machine as it   *)
(* is.                                                                     *)
(***************************************************************************)
LEMMA HeartbeatRuns ==
  ASSUME Heartbeat
  PROVE  \E settled, enabled \in BOOLEAN : RunState(settled, enabled) \/ Stay
  BY DEF Heartbeat

(***************************************************************************)
(* Every state function that arms the catapult inhibits the throttle, and  *)
(* every one that leaves it releases the throttle.                         *)
(***************************************************************************)
LEMMA ThrottleRun ==
  ASSUME ThrottleInhibitedOnCatapult,
         NEW settled \in BOOLEAN, NEW enabled \in BOOLEAN,
         RunState(settled, enabled) \/ Stay
  PROVE  ThrottleInhibitedOnCatapult'
  <1> USE DEF Steer, Stay, fsmVars, planVars, timerVars, modeVars,
          originVars, ThrottleInhibitedOnCatapult, LaunchStates
  <1>s. CASE Stay
    BY <1>s
  <1>1. CASE startS
    BY <1>1 DEF startS, ent_calibrateS
  <1>2. CASE calibrateS
    BY <1>2 DEF calibrateS, ent_calibrateS, ent_acquiringS
  <1>3. CASE acquiringS(settled)
    BY <1>3 DEF acquiringS, ent_manualS
  <1>4. CASE manualS(enabled)
    BY <1>4 DEF manualS, ent_cat_armedS, ent_waypointS, ent_stabilizedS,
       ent_returnS
  <1>5. CASE stabilizedS(enabled)
    BY <1>5 DEF stabilizedS, ent_cat_armedS, ent_waypointS, ent_manualS,
       ent_returnS
  <1>6. CASE waypointS
    BY <1>6 DEF waypointS, ent_manualS, ent_stabilizedS, ent_returnS
  <1>7. CASE returnS
    BY <1>7 DEF returnS, ent_manualS, ent_stabilizedS, ent_waypointS
  <1>8. CASE cat_armedS
    BY <1>8 DEF cat_armedS, ent_manualS, ent_cat_delayS
  <1>9. CASE cat_delayS
    BY <1>9 DEF cat_delayS, ent_manualS, ent_waypointS
  <1> QED BY <1>s, <1>1, <1>2, <1>3, <1>4, <1>5, <1>6, <1>7, <1>8, <1>9 DEF RunState

(***************************************************************************)
(* disable_throttle is in force exactly on the catapult.                   *)
(***************************************************************************)
THEOREM ThrottleCorrect == Spec => []ThrottleInhibitedOnCatapult
  <1>1. Init => ThrottleInhibitedOnCatapult
    BY DEF Init, ThrottleInhibitedOnCatapult, LaunchStates
  <1>2. ThrottleInhibitedOnCatapult /\ [Next]_vars => ThrottleInhibitedOnCatapult'
    <2> SUFFICES ASSUME ThrottleInhibitedOnCatapult, [Next]_vars PROVE ThrottleInhibitedOnCatapult'
      OBVIOUS
    <2>1. CASE Heartbeat
      BY <2>1, HeartbeatRuns, ThrottleRun
    <2>2. CASE ~Heartbeat
      BY <2>2, OnlyHeartbeatRunsFsm DEF ThrottleInhibitedOnCatapult
    <2> QED BY <2>1, <2>2
  <1> QED BY <1>1, <1>2, PTL DEF Spec

(***************************************************************************)
(* Every state function keeps the steering and feedback flags in step      *)
(* with the state it leaves.                                               *)
(***************************************************************************)
LEMMA FlagsRun ==
  ASSUME ModeFlagsTellState,
         NEW settled \in BOOLEAN, NEW enabled \in BOOLEAN,
         RunState(settled, enabled) \/ Stay
  PROVE  ModeFlagsTellState'
  <1> USE DEF Steer, Stay, fsmVars, planVars, timerVars, modeVars,
          originVars, ModeFlagsTellState, StartupStates
  <1>s. CASE Stay
    BY <1>s
  <1>1. CASE startS
    BY <1>1 DEF startS, ent_calibrateS
  <1>2. CASE calibrateS
    BY <1>2 DEF calibrateS, ent_calibrateS, ent_acquiringS
  <1>3. CASE acquiringS(settled)
    BY <1>3 DEF acquiringS, ent_manualS
  <1>4. CASE manualS(enabled)
    BY <1>4 DEF manualS, ent_cat_armedS, ent_waypointS, ent_stabilizedS,
       ent_returnS
  <1>5. CASE stabilizedS(enabled)
    <2>1. CASE ent_cat_armedS
      BY <1>5, <2>1 DEF stabilizedS, ent_cat_armedS
    <2>2. CASE ent_waypointS(launch_timer) \/ ent_manualS(standby_timer, launch_timer)
               \/ ent_returnS
      BY <2>2 DEF ent_waypointS, ent_manualS, ent_returnS
    <2> QED BY <1>5, <1>s, <2>1, <2>2 DEF stabilizedS
  <1>6. CASE waypointS
    BY <1>6 DEF waypointS, ent_manualS, ent_stabilizedS, ent_returnS
  <1>7. CASE returnS
    BY <1>7 DEF returnS, ent_manualS, ent_stabilizedS, ent_waypointS
  <1>8. CASE cat_armedS
    BY <1>8 DEF cat_armedS, ent_manualS, ent_cat_delayS
  <1>9. CASE cat_delayS
    BY <1>9 DEF cat_delayS, ent_manualS, ent_waypointS
  <1> QED BY <1>s, <1>1, <1>2, <1>3, <1>4, <1>5, <1>6, <1>7, <1>8, <1>9 DEF RunState

(***************************************************************************)
(* The flags that telemetry decodes as the flight mode agree with the      *)
(* state.                                                                  *)
(***************************************************************************)
THEOREM FlagsCorrect == Spec => []ModeFlagsTellState
  <1>1. Init => ModeFlagsTellState
    BY DEF Init, ModeFlagsTellState, StartupStates
  <1>2. ModeFlagsTellState /\ [Next]_vars => ModeFlagsTellState'
    <2> SUFFICES ASSUME ModeFlagsTellState, [Next]_vars PROVE ModeFlagsTellState'
      OBVIOUS
    <2>1. CASE Heartbeat
      BY <2>1, HeartbeatRuns, FlagsRun
    <2>2. CASE ~Heartbeat
      BY <2>2, OnlyHeartbeatRunsFsm DEF ModeFlagsTellState
    <2> QED BY <2>1, <2>2
  <1> QED BY <1>1, <1>2, PTL DEF Spec

(***************************************************************************)
(* A hold survives the heartbeat only with the request blanked, so no      *)
(* state function can leave return with it; and no other entry sets it.    *)
(***************************************************************************)
LEMMA HoldRun ==
  ASSUME HoldOnlyInReturn, flight_mode_switch_check_set,
         NEW settled \in BOOLEAN, NEW enabled \in BOOLEAN,
         RunState(settled, enabled) \/ Stay
  PROVE  HoldOnlyInReturn'
  <1> USE DEF HoldOnlyInReturn, Stay
  <1>h. /\ HoldKept => rtl_hold
        /\ HoldKept /\ radio_on => req' = "none"
    BY DEF HoldKept, flight_mode_switch_check_set
  <1>f. stateS # "return" => ~HoldKept
    BY <1>h
  <1>s. CASE Stay
    BY <1>s, <1>f DEF fsmVars
  <1>1. CASE startS
    BY <1>1, <1>f DEF startS, ent_calibrateS
  <1>2. CASE calibrateS
    BY <1>2, <1>f DEF calibrateS, ent_calibrateS, ent_acquiringS
  <1>3. CASE acquiringS(settled)
    BY <1>3, <1>f DEF acquiringS, ent_manualS
  <1>4. CASE manualS(enabled)
    BY <1>4, <1>f DEF manualS, ent_cat_armedS, ent_waypointS, ent_stabilizedS,
       ent_returnS
  <1>5. CASE stabilizedS(enabled)
    BY <1>5, <1>f DEF stabilizedS, ent_cat_armedS, ent_waypointS, ent_manualS,
       ent_returnS
  <1>6. CASE waypointS
    BY <1>6, <1>f DEF waypointS, ent_manualS, ent_stabilizedS, ent_returnS
  <1>7. CASE returnS
    <2>1. CASE radio_on /\ (Manual \/ Stabilize \/ Waypoints)
      <3>1. ~HoldKept
        BY <1>h, <2>1 DEF Manual, Stabilize, Waypoints
      <3> QED BY <1>7, <2>1, <3>1 DEF returnS, ent_manualS, ent_stabilizedS,
              ent_waypointS
    <2>2. CASE ~(radio_on /\ (Manual \/ Stabilize \/ Waypoints))
      BY <1>7, <2>2 DEF returnS, fsmVars
    <2> QED BY <2>1, <2>2
  <1>8. CASE cat_armedS
    BY <1>8, <1>f DEF cat_armedS, ent_manualS, ent_cat_delayS
  <1>9. CASE cat_delayS
    BY <1>9, <1>f DEF cat_delayS, ent_manualS, ent_waypointS
  <1> QED BY <1>s, <1>1, <1>2, <1>3, <1>4, <1>5, <1>6, <1>7, <1>8, <1>9 DEF RunState

(***************************************************************************)
(* A failsafe hold exists only in the return state.                        *)
(***************************************************************************)
THEOREM HoldCorrect == Spec => []HoldOnlyInReturn
  <1>1. Init => HoldOnlyInReturn
    BY DEF Init, HoldOnlyInReturn
  <1>2. HoldOnlyInReturn /\ [Next]_vars => HoldOnlyInReturn'
    <2> SUFFICES ASSUME HoldOnlyInReturn, [Next]_vars PROVE HoldOnlyInReturn'
      OBVIOUS
    <2>1. CASE Heartbeat
      BY <2>1, HeartbeatRuns, HoldRun DEF Heartbeat
    <2>2. CASE ~Heartbeat
      BY <2>2, OnlyHeartbeatRunsFsm DEF HoldOnlyInReturn
    <2> QED BY <2>1, <2>2
  <1> QED BY <1>1, <1>2, PTL DEF Spec

(***************************************************************************)
(* Only the catapult build arms a launch.                                  *)
(***************************************************************************)
LaunchNeedsCatapult == stateS \in LaunchStates => Catapult

(* No state function arms a launch in the plain build.                     *)
LEMMA LaunchRun ==
  ASSUME LaunchNeedsCatapult, NEW settled \in BOOLEAN, NEW enabled \in BOOLEAN,
         RunState(settled, enabled) \/ Stay
  PROVE  LaunchNeedsCatapult'
  <1> USE DEF LaunchNeedsCatapult, LaunchStates, Stay, fsmVars
  <1>s. CASE Stay
    BY <1>s
  <1>1. CASE startS \/ calibrateS \/ acquiringS(settled)
    BY <1>1 DEF startS, calibrateS, acquiringS, ent_calibrateS, ent_acquiringS,
       ent_manualS
  <1>2. CASE manualS(enabled)
    BY <1>2 DEF manualS, ent_cat_armedS, ent_waypointS, ent_stabilizedS, ent_returnS
  <1>3. CASE stabilizedS(enabled)
    BY <1>3 DEF stabilizedS, ent_cat_armedS, ent_waypointS, ent_manualS, ent_returnS
  <1>4. CASE waypointS \/ returnS
    BY <1>4 DEF waypointS, returnS, ent_manualS, ent_stabilizedS, ent_returnS,
       ent_waypointS
  <1>5. CASE cat_armedS \/ cat_delayS
    BY <1>5 DEF cat_armedS, cat_delayS
  <1> QED BY <1>s, <1>1, <1>2, <1>3, <1>4, <1>5 DEF RunState

(***************************************************************************)
(* The modes that are allowed without radio.                               *)
(***************************************************************************)
NoPilotNeeded ==
  /\ stateS \notin LaunchStates \cup {"waypoint"}
  /\ ~Catapult => stateS # "manual"

(***************************************************************************)
(* One run of a state function without radio ends in such a mode, from     *)
(* every state.                                                            *)
(***************************************************************************)
LEMMA RunWithoutRadio ==
  ASSUME LaunchNeedsCatapult, ~radio_on,
         NEW settled \in BOOLEAN, NEW enabled \in BOOLEAN,
         RunState(settled, enabled)
  PROVE  NoPilotNeeded'
  <1> USE DEF NoPilotNeeded, LaunchNeedsCatapult, LaunchStates, Stay, fsmVars
  <1>1. CASE startS \/ calibrateS \/ acquiringS(settled)
    BY <1>1 DEF startS, calibrateS, acquiringS, ent_calibrateS
  <1>2. CASE manualS(enabled) \/ stabilizedS(enabled)
    BY <1>2 DEF manualS, stabilizedS, ent_stabilizedS, ent_returnS
  <1>3. CASE waypointS \/ returnS
    BY <1>3 DEF waypointS, returnS, ent_returnS
  <1>4. CASE cat_armedS \/ cat_delayS
    BY <1>4 DEF cat_armedS, cat_delayS, ent_manualS
  <1> QED BY <1>1, <1>2, <1>3, <1>4 DEF RunState

(***************************************************************************)
(* Without radio a mode that needs no pilot is not left for one that       *)
(* does.                                                                   *)
(***************************************************************************)
LEMMA StayWithoutRadio ==
  ASSUME NoPilotNeeded, Stay
  PROVE  NoPilotNeeded'
  BY DEF NoPilotNeeded, Stay, fsmVars

(***************************************************************************)
(* The loss of the radio, once signalled and consumed by an FSM clock,     *)
(* leaves the plane in a mode that needs no pilot: the signal is not lost  *)
(* when a heartbeat preempts radioIn_failsafe_check.                       *)
(***************************************************************************)
THEOREM FailsafeCorrect == Spec => []FailsafeEngaged
  <1> DEFINE Inv == FailsafeEngaged /\ LaunchNeedsCatapult
  <1>1. Init => Inv
    BY DEF Init, FailsafeEngaged, LaunchNeedsCatapult, LaunchStates
  <1>2. Inv /\ [Next]_vars => Inv'
    <2> SUFFICES ASSUME Inv, [Next]_vars PROVE Inv'
      OBVIOUS
    <2>0. FailsafeEngaged <=> (~radio_on /\ ~asap /\ pulse # "turned_off" => NoPilotNeeded)
      BY DEF FailsafeEngaged, NoPilotNeeded
    <2>1. CASE Heartbeat
      <3>1. LaunchNeedsCatapult'
        BY <2>1, HeartbeatRuns, LaunchRun
      <3>2. SUFFICES ASSUME ~radio_on, pulse # "turned_off" PROVE NoPilotNeeded'
        BY <2>1, <3>1 DEF Heartbeat, FailsafeEngaged, NoPilotNeeded
      <3>3. CASE Sync \/ Async
        BY <2>1, <3>2, <3>3, RunWithoutRadio DEF Heartbeat
      <3>4. CASE ~(Sync \/ Async)
        BY <2>0, <2>1, <3>2, <3>4, StayWithoutRadio DEF Heartbeat, Async
      <3> QED BY <3>3, <3>4
    <2>2. CASE ~Heartbeat
      <3>1. stateS' = stateS
        BY <2>2, OnlyHeartbeatRunsFsm
      <3>2. LaunchNeedsCatapult' /\ NoPilotNeeded' = NoPilotNeeded
        BY <3>1 DEF LaunchNeedsCatapult, NoPilotNeeded
      <3>3. \/ UNCHANGED <<radio_on, asap>>
               /\ (pulse = "turned_off" => pulse' = "turned_off")
            \/ ~radio_on /\ asap' = asap /\ pulse # "turned_off"
            \/ radio_on' \/ asap' \/ pulse' = "turned_off"
        BY <2>2 DEF Next, Pulse, PulseBegins, SkipFailsafeCheck,
           radioIn_failsafe_check, udb_callback_radio_did_turn_off, FlightController,
           GpsValid, GpsInvalid, SwitchMoves, vars, fsmVars, planVars, timerVars,
           modeVars, originVars, reqVars, clockVars, pulseVars
      <3> QED BY <2>0, <3>1, <3>2, <3>3 DEF FailsafeEngaged, NoPilotNeeded
    <2> QED BY <2>1, <2>2
  <1> QED BY <1>1, <1>2, PTL DEF Spec

(***************************************************************************)
(* A heartbeat that starts in cat_delay runs the state function (the       *)
(* delay makes the catapult build urgent), so launch_timer and delayCheck  *)
(* move together until the launch; the entry sets both.                    *)
(***************************************************************************)
LEMMA DelayHeartbeat ==
  ASSUME TypeInv, LaunchNeedsCatapult, LaunchDelayExact, Heartbeat
  PROVE  LaunchDelayExact'
  <1> SUFFICES ASSUME stateS' = "cat_delay"
               PROVE  delayCheck' + launch_timer' = LaunchDelay
    BY DEF LaunchDelayExact
  <1>t. /\ launch_timer \in 1 .. LaunchDelay \/ stateS # "cat_delay"
        /\ delayCheck \in 0 .. LaunchDelay + 1
    BY FlightStatesAssumption DEF TypeInv, TypeOK, DelayCheckBound
  <1>1. PICK settled \in BOOLEAN, enabled \in BOOLEAN :
          IF Sync \/ Async THEN RunState(settled, enabled) ELSE Stay
    BY DEF Heartbeat
  <1>2. CASE stateS = "cat_delay"
    <2>1. Catapult
      BY <1>2 DEF LaunchNeedsCatapult, LaunchStates
    <2>2. Sync \/ Async
      BY <1>2, <2>1 DEF Async, Urgent
    <2>3. cat_delayS
      BY <1>1, <1>2, <2>2 DEF RunState, startS, calibrateS, acquiringS, manualS,
         stabilizedS, waypointS, returnS, cat_armedS
    <2>4. launch_timer' = launch_timer - 1
      BY <2>3 DEF cat_delayS, ent_manualS, ent_waypointS
    <2>5. delayCheck + launch_timer = LaunchDelay
      BY <1>2 DEF LaunchDelayExact
    <2>6. delayCheck < DelayCheckBound
      BY <1>t, <1>2, <2>5, FlightStatesAssumption DEF DelayCheckBound
    <2>7. delayCheck' = delayCheck + 1
      BY <1>2, <2>1, <2>6 DEF Heartbeat
    <2> QED BY <1>t, <1>2, <2>4, <2>5, <2>7, FlightStatesAssumption
  <1>3. CASE stateS # "cat_delay"
    <2>1. delayCheck' = 0
      BY <1>3 DEF Heartbeat
    <2>2. CASE cat_armedS
      BY <2>1, <2>2, FlightStatesAssumption DEF cat_armedS, ent_cat_delayS,
         ent_manualS, Stay, fsmVars
    <2>3. CASE Stay \/ startS \/ calibrateS \/ acquiringS(settled)
      BY <1>3, <2>3 DEF Stay, fsmVars, startS, calibrateS, acquiringS,
         ent_calibrateS, ent_acquiringS, ent_manualS
    <2>4. CASE manualS(enabled) \/ stabilizedS(enabled)
      BY <1>3, <2>4 DEF Stay, fsmVars, manualS, stabilizedS, ent_cat_armedS,
         ent_waypointS, ent_stabilizedS, ent_returnS, ent_manualS
    <2>5. CASE waypointS \/ returnS
      BY <1>3, <2>5 DEF Stay, fsmVars, waypointS, returnS, ent_waypointS,
         ent_stabilizedS, ent_returnS, ent_manualS
    <2>6. CASE cat_delayS
      BY <1>3, <2>6 DEF cat_delayS
    <2> QED BY <1>1, <2>2, <2>3, <2>4, <2>5, <2>6 DEF RunState
  <1> QED BY <1>2, <1>3

(***************************************************************************)
(* delayCheck and launch_timer add up to LAUNCH_DELAY all through the      *)
(* delay.                                                                  *)
(***************************************************************************)
THEOREM LaunchDelayCorrect == Spec => []LaunchDelayExact
  <1> DEFINE Inv == TypeInv /\ LaunchNeedsCatapult /\ LaunchDelayExact
  <1>1. Init => Inv
    BY InitTypes DEF Init, LaunchNeedsCatapult, LaunchStates, LaunchDelayExact
  <1>2. Inv /\ [Next]_vars => Inv'
    <2> SUFFICES ASSUME Inv, [Next]_vars PROVE Inv'
      OBVIOUS
    <2>1. TypeInv'
      BY TypeStep
    <2>2. CASE Heartbeat
      BY <2>1, <2>2, HeartbeatRuns, LaunchRun, DelayHeartbeat
    <2>3. CASE ~Heartbeat
      BY <2>1, <2>3, OnlyHeartbeatRunsFsm DEF LaunchNeedsCatapult, LaunchDelayExact
    <2> QED BY <2>2, <2>3
  <1> QED BY <1>1, <1>2, PTL DEF Spec

(***************************************************************************)
(* The origin and dead reckoning have been asked for, from the standby     *)
(* counts at which acquiringS does so on.                                  *)
(***************************************************************************)
Pending == save_origin \/ origin_set

(* What standby has asked for by now, by the count of its timer.           *)
StandbyAsks ==
  stateS = "acquiring"
    => /\ standby_timer <= SaveOriginAt => Pending
       /\ standby_timer <= DeadReckonAt => dead_reckon_enable

(***************************************************************************)
(* One run of acquiringS keeps the promise and leaves standby only after   *)
(* both counts have been passed.                                           *)
(***************************************************************************)
LEMMA AcquiringRun ==
  ASSUME TypeInv, StandbyAsks, NEW settled \in BOOLEAN, acquiringS(settled),
         origin_set' = origin_set
  PROVE  OriginRequestedBeforeFlight' /\ StandbyAsks'
  <1>t. standby_timer \in 1 .. StandbyPause /\ stateS = "acquiring"
    BY FlightStatesAssumption DEF TypeInv, TypeOK, acquiringS
  <1>1. CASE Stay
    BY <1>1, <1>t DEF Stay, fsmVars, timerVars, originVars, StandbyAsks, Pending,
       OriginRequestedBeforeFlight, FlightModes, LaunchStates
  <1>2. CASE ent_manualS(standby_timer - 1, launch_timer) /\ standby_timer - 1 <= 0
    <2>1. standby_timer <= DeadReckonAt /\ standby_timer <= SaveOriginAt
      BY <1>t, <1>2, FlightStatesAssumption
    <2>2. Pending /\ dead_reckon_enable
      BY <1>t, <2>1 DEF StandbyAsks
    <2> QED BY <1>2, <2>2 DEF ent_manualS, originVars, StandbyAsks, Pending,
            OriginRequestedBeforeFlight
  <1>3. CASE /\ standby_timer' = standby_timer - 1
             /\ save_origin' = (save_origin \/ standby_timer - 1 = SaveOriginAt)
             /\ dead_reckon_enable' = (dead_reckon_enable \/ standby_timer - 1 = DeadReckonAt)
             /\ stateS' = stateS
    <2>1. standby_timer' <= SaveOriginAt => Pending'
      <3>1. standby_timer <= SaveOriginAt \/ standby_timer - 1 = SaveOriginAt
              \/ ~(standby_timer' <= SaveOriginAt)
        BY <1>t, <1>3, FlightStatesAssumption
      <3> QED BY <1>t, <1>3, <3>1 DEF StandbyAsks, Pending
    <2>2. standby_timer' <= DeadReckonAt => dead_reckon_enable'
      <3>1. standby_timer <= DeadReckonAt \/ standby_timer - 1 = DeadReckonAt
              \/ ~(standby_timer' <= DeadReckonAt)
        BY <1>t, <1>3, FlightStatesAssumption
      <3> QED BY <1>t, <1>3, <3>1 DEF StandbyAsks
    <2> QED BY <1>t, <1>3, <2>1, <2>2 DEF StandbyAsks, OriginRequestedBeforeFlight,
            FlightModes, LaunchStates
  <1> QED BY <1>1, <1>2, <1>3 DEF acquiringS

(***************************************************************************)
(* The other state functions reach flight only from flight, and standby    *)
(* only at its first count.                                                *)
(***************************************************************************)
LEMMA OtherRun ==
  ASSUME OriginRequestedBeforeFlight, StandbyAsks,
         NEW settled \in BOOLEAN, NEW enabled \in BOOLEAN,
         RunState(settled, enabled) \/ Stay, ~acquiringS(settled),
         origin_set' = origin_set
  PROVE  OriginRequestedBeforeFlight' /\ StandbyAsks'
  <1> USE DEF Stay, fsmVars, timerVars, originVars, OriginRequestedBeforeFlight,
          StandbyAsks, Pending, FlightModes, LaunchStates
  <1>s. CASE Stay
    BY <1>s
  <1>1. CASE startS
    BY <1>1 DEF startS, ent_calibrateS
  <1>2. CASE calibrateS
    <2>1. CASE ent_acquiringS(calib_timer - 1)
      BY <2>1, FlightStatesAssumption DEF ent_acquiringS
    <2>2. CASE stateS' = "calibrate"
      BY <2>2
    <2> QED BY <1>2, <2>1, <2>2 DEF calibrateS, ent_calibrateS
  <1>3. CASE manualS(enabled)
    BY <1>3 DEF manualS, ent_cat_armedS, ent_waypointS, ent_stabilizedS, ent_returnS
  <1>4. CASE stabilizedS(enabled)
    BY <1>4 DEF stabilizedS, ent_cat_armedS, ent_waypointS, ent_manualS, ent_returnS
  <1>5. CASE waypointS
    BY <1>5 DEF waypointS, ent_manualS, ent_stabilizedS, ent_returnS
  <1>6. CASE returnS
    BY <1>6 DEF returnS, ent_manualS, ent_stabilizedS, ent_waypointS
  <1>7. CASE cat_armedS
    BY <1>7 DEF cat_armedS, ent_manualS, ent_cat_delayS
  <1>8. CASE cat_delayS
    BY <1>8 DEF cat_delayS, ent_manualS, ent_waypointS
  <1> QED BY <1>s, <1>1, <1>2, <1>3, <1>4, <1>5, <1>6, <1>7, <1>8 DEF RunState

(***************************************************************************)
(* No plane flies before the origin was asked for, and a GPS report that   *)
(* clears the request honours it.                                          *)
(***************************************************************************)
THEOREM OriginCorrect == Spec => []OriginRequestedBeforeFlight
  <1> DEFINE Inv == TypeInv /\ StandbyAsks /\ OriginRequestedBeforeFlight
  <1>1. Init => Inv
    BY InitTypes DEF Init, StandbyAsks, OriginRequestedBeforeFlight, FlightModes,
       LaunchStates
  <1>2. Inv /\ [Next]_vars => Inv'
    <2> SUFFICES ASSUME Inv, [Next]_vars PROVE Inv'
      OBVIOUS
    <2>1. TypeInv'
      BY TypeStep
    <2>2. CASE Heartbeat
      <3>1. origin_set' = origin_set
        BY <2>2 DEF Heartbeat
      <3> QED BY <2>1, <2>2, <3>1, HeartbeatRuns, AcquiringRun, OtherRun
    <2>3. CASE ~Heartbeat
      <3>1. UNCHANGED <<save_origin, origin_set>> \/ (~save_origin' /\ origin_set' = Pending)
        BY <2>3 DEF Next, Pulse, PulseBegins, SkipFailsafeCheck, Pending,
           radioIn_failsafe_check, udb_callback_radio_did_turn_off, FlightController,
           GpsValid, GpsInvalid, SwitchMoves, vars, fsmVars, originVars
      <3>2. Pending' <=> Pending
        <4>1. CASE UNCHANGED <<save_origin, origin_set>>
          BY <4>1 DEF Pending
        <4>2. CASE ~save_origin' /\ origin_set' = Pending
          BY <4>2 DEF Pending
        <4> QED BY <3>1, <4>1, <4>2
      <3> QED BY <2>1, <2>3, <3>2, OnlyHeartbeatRunsFsm DEF StandbyAsks,
              OriginRequestedBeforeFlight, Pending
    <2> QED BY <2>2, <2>3
  <1> QED BY <1>1, <1>2, PTL DEF Spec

(***************************************************************************)
(* After calibration the request recorded by the last heartbeat is the     *)
(* one the switch makes now, unless the switch has moved.                  *)
(***************************************************************************)
RequestRecorded ==
  stateS \notin {"start", "calibrate"} => moved \/ SwitchRequest = old_rtl_flags

(* A plane held in return has its hold set, unless the switch has moved.   *)
HoldSet == FailsafeHold /\ stateS = "return" => rtl_hold \/ moved

(* The inductive invariant of the hold.                                    *)
HoldInv == RequestRecorded /\ HoldSet

(***************************************************************************)
(* A heartbeat without radio moves no plane out of the first two states or *)
(* out of return.                                                          *)
(***************************************************************************)
LEMMA NoRadioRun ==
  ASSUME NEW settled \in BOOLEAN, NEW enabled \in BOOLEAN,
         RunState(settled, enabled) \/ Stay,
         ~radio_on
  PROVE  /\ stateS \in {"start", "calibrate"} => stateS' \in {"start", "calibrate"}
         /\ stateS = "return" => stateS' = "return"
  <1> USE DEF Stay, fsmVars
  <1>s. CASE Stay
    BY <1>s
  <1>1. CASE startS
    BY <1>1 DEF startS, ent_calibrateS
  <1>2. CASE calibrateS
    BY <1>2 DEF calibrateS, ent_calibrateS
  <1>3. CASE acquiringS(settled)
    BY <1>3 DEF acquiringS
  <1>4. CASE manualS(enabled) \/ stabilizedS(enabled) \/ waypointS
             \/ cat_armedS \/ cat_delayS
    BY <1>4 DEF manualS, stabilizedS, waypointS, cat_armedS, cat_delayS
  <1>5. CASE returnS
    BY <1>5 DEF returnS
  <1> QED BY <1>s, <1>1, <1>2, <1>3, <1>4, <1>5 DEF RunState

(***************************************************************************)
(* A held plane stays in return, whatever the heartbeat runs.              *)
(***************************************************************************)
LEMMA HeldRun ==
  ASSUME NEW settled \in BOOLEAN, NEW enabled \in BOOLEAN,
         RunState(settled, enabled) \/ Stay,
         flight_mode_switch_check_set,
         stateS = "return", HoldKept
  PROVE  stateS' = "return"
  <1>s. CASE Stay
    BY <1>s DEF Stay, fsmVars
  <1>1. CASE ~radio_on
    BY <1>1, NoRadioRun
  <1>2. CASE radio_on /\ RunState(settled, enabled)
    <2>1. req' = "none"
      BY <1>2 DEF flight_mode_switch_check_set
    <2>2. returnS
      BY <1>2 DEF RunState, startS, calibrateS, acquiringS, manualS, stabilizedS,
         waypointS, cat_armedS, cat_delayS
    <2> QED BY <2>1, <2>2, <1>2 DEF returnS, Manual, Stabilize, Waypoints, Stay, fsmVars
  <1> QED BY <1>s, <1>1, <1>2

(***************************************************************************)
(* A heartbeat that leaves the plane in return leaves its hold set if it   *)
(* was kept, and sets the hold when it takes the plane there.              *)
(***************************************************************************)
LEMMA ReturnRun ==
  ASSUME NEW settled \in BOOLEAN, NEW enabled \in BOOLEAN,
         RunState(settled, enabled) \/ Stay,
         FailsafeHold, stateS' = "return"
  PROVE  rtl_hold' \/ (stateS = "return" /\ ~HoldKept)
  <1>s. CASE Stay
    BY <1>s DEF Stay, fsmVars
  <1>1. CASE startS \/ calibrateS \/ acquiringS(settled)
    BY <1>1 DEF startS, calibrateS, acquiringS, ent_calibrateS, ent_acquiringS,
       ent_manualS, Stay, fsmVars
  <1>2. CASE manualS(enabled) \/ stabilizedS(enabled)
    BY <1>2 DEF manualS, stabilizedS, ent_manualS, ent_stabilizedS, ent_waypointS,
       ent_cat_armedS, ent_returnS, Stay, fsmVars
  <1>3. CASE waypointS \/ returnS
    BY <1>3 DEF waypointS, returnS, ent_manualS, ent_stabilizedS, ent_waypointS,
       ent_returnS, Stay, fsmVars
  <1>4. CASE cat_armedS \/ cat_delayS
    BY <1>4 DEF cat_armedS, cat_delayS, ent_manualS, ent_cat_delayS, ent_waypointS,
       Stay, fsmVars
  <1> QED BY <1>s, <1>1, <1>2, <1>3, <1>4 DEF RunState

(***************************************************************************)
(* What a step of the recorded system does: a heartbeat, a switch move or  *)
(* a step that leaves the switch, the request and the record alone.  This  *)
(* is where the three-position switch is needed: the recogniser of the     *)
(* two-position one changes its request when a toggle times out.           *)
(***************************************************************************)
LEMMA RecordedSteps ==
  ASSUME TwoPosition = FALSE, [MCNext]_mcVars
  PROVE  \/ /\ Heartbeat
            /\ moved' = (moved /\ ~(radio_on /\ stateS' # "return"))
         \/ /\ moved' = TRUE
            /\ UNCHANGED <<stateS, rtl_hold, old_rtl_flags>>
         \/ /\ UNCHANGED <<stateS, rtl_hold, old_rtl_flags, moved>>
            /\ SwitchRequest' = SwitchRequest
  <1>1. CASE Heartbeat /\ moved' = (moved /\ ~(radio_on /\ stateS' # "return"))
    BY <1>1
  <1>2. CASE SwitchMoves /\ moved' = TRUE
    BY <1>2 DEF SwitchMoves, fsmVars, reqVars
  <1>3. CASE Pulse /\ UNCHANGED moved
    <2>1. UNCHANGED pwIn
      BY <1>3 DEF Pulse, PulseBegins, SkipFailsafeCheck, radioIn_failsafe_check,
         udb_callback_radio_did_turn_off, FlightController, switchVars
    <2>2. UNCHANGED <<stateS, rtl_hold, old_rtl_flags>>
      BY <1>3 DEF Pulse, PulseBegins, SkipFailsafeCheck, radioIn_failsafe_check,
         udb_callback_radio_did_turn_off, FlightController, fsmVars, reqVars
    <2>3. SwitchRequest' = SwitchRequest
      BY <2>1 DEF SwitchRequest
    <2> QED BY <1>3, <2>2, <2>3
  <1>4. CASE (GpsValid \/ GpsInvalid) /\ UNCHANGED moved
    BY <1>4 DEF GpsValid, GpsInvalid, switchVars, fsmVars, reqVars, SwitchRequest
  <1>5. CASE UNCHANGED mcVars
    BY <1>5 DEF mcVars, vars, switchVars, fsmVars, reqVars, SwitchRequest
  <1> QED BY <1>1, <1>2, <1>3, <1>4, <1>5 DEF MCNext

(***************************************************************************)
(* A heartbeat keeps the record true.                                      *)
(***************************************************************************)
LEMMA HoldInvHeartbeat ==
  ASSUME TwoPosition = FALSE, HoldInv, Heartbeat,
         moved' = (moved /\ ~(radio_on /\ stateS' # "return"))
  PROVE  HoldInv'
  <1>1. PICK settled \in BOOLEAN, enabled \in BOOLEAN : RunState(settled, enabled) \/ Stay
    BY HeartbeatRuns
  <1>2. /\ flight_mode_switch_check_set
        /\ SwitchRequest' = SwitchRequest
    BY DEF Heartbeat, switchVars, SwitchRequest
  <1>3. RequestRecorded'
    <2>1. CASE radio_on
      BY <2>1, <1>2 DEF RequestRecorded, flight_mode_switch_check_set
    <2>2. CASE ~radio_on
      BY <2>2, <1>1, <1>2, NoRadioRun DEF HoldInv, RequestRecorded,
         flight_mode_switch_check_set
    <2> QED BY <2>1, <2>2
  <1>4. HoldSet'
    <2>1. SUFFICES ASSUME FailsafeHold, stateS' = "return" PROVE rtl_hold' \/ moved'
      BY DEF HoldSet
    <2>2. rtl_hold' \/ (stateS = "return" /\ ~HoldKept)
      BY <1>1, <2>1, ReturnRun
    <2>3. stateS = "return" /\ ~HoldKept => moved
      BY <2>1 DEF HoldInv, HoldSet, RequestRecorded, HoldKept
    <2> QED BY <2>1, <2>2, <2>3
  <1> QED BY <1>3, <1>4 DEF HoldInv

(***************************************************************************)
(* FAILSAFE_HOLD with a three-position switch: once failsafe has engaged   *)
(* the plane leaves return only with the radio on and after the pilot has  *)
(* moved the switch.                                                       *)
(***************************************************************************)
THEOREM HoldUntilCorrect ==
  ASSUME TwoPosition = FALSE
  PROVE  MCSpec => HoldUntilSwitchMoves
  <1>1. MCInit => HoldInv
    BY DEF MCInit, Init, HoldInv, RequestRecorded, HoldSet
  <1>2. HoldInv /\ [MCNext]_mcVars => HoldInv'
    <2> SUFFICES ASSUME HoldInv, [MCNext]_mcVars PROVE HoldInv'
      OBVIOUS
    <2>1. CASE Heartbeat /\ moved' = (moved /\ ~(radio_on /\ stateS' # "return"))
      BY <2>1, HoldInvHeartbeat
    <2>2. CASE moved' = TRUE /\ UNCHANGED <<stateS, rtl_hold, old_rtl_flags>>
      BY <2>2 DEF HoldInv, RequestRecorded, HoldSet
    <2>3. CASE /\ UNCHANGED <<stateS, rtl_hold, old_rtl_flags, moved>>
               /\ SwitchRequest' = SwitchRequest
      BY <2>3 DEF HoldInv, RequestRecorded, HoldSet
    <2> QED BY <2>1, <2>2, <2>3, RecordedSteps
  <1>3. /\ HoldInv
        /\ [MCNext]_mcVars
        => [FailsafeHold /\ stateS = "return" /\ stateS' # "return"
              => radio_on /\ moved]_mcVars
    <2> SUFFICES ASSUME HoldInv, [MCNext]_mcVars,
                        FailsafeHold, stateS = "return", stateS' # "return"
                 PROVE  radio_on /\ moved
      OBVIOUS
    <2>1. Heartbeat
      BY RecordedSteps
    <2>2. PICK settled \in BOOLEAN, enabled \in BOOLEAN : RunState(settled, enabled) \/ Stay
      BY <2>1, HeartbeatRuns
    <2>3. flight_mode_switch_check_set
      BY <2>1 DEF Heartbeat
    <2>4. radio_on
      BY <2>2, NoRadioRun
    <2>5. ~HoldKept
      BY <2>2, <2>3, HeldRun
    <2> QED BY <2>4, <2>5 DEF HoldInv, HoldSet, RequestRecorded, HoldKept
  <1> QED BY <1>1, <1>2, <1>3, PTL DEF MCSpec, HoldUntilSwitchMoves
=============================================================================
