-------------------------- MODULE MCCatapultLaunch --------------------------
(***************************************************************************)
(* FlightStates in the catapult build, with a record of how long the GPS   *)
(* has reported that it has no valid fix.                                  *)
(***************************************************************************)
EXTENDS FlightStates

VARIABLE lostFor  \* heartbeats since the last report, which was not valid

(* One synchronous FSM clock fits into this many heartbeats.               *)
OneClock == SyncPeriod + 1

MCInit == Init /\ lostFor = 0

MCNext ==
  \/ /\ Heartbeat
     /\ lostFor' = IF gps_data_age <= GpsMaxAge THEN 0
                   ELSE IF lostFor > OneClock THEN lostFor ELSE lostFor + 1
  \/ GpsValid /\ lostFor' = 0
  \/ (Pulse \/ GpsInvalid \/ SwitchMoves) /\ UNCHANGED lostFor

MCSpec == MCInit /\ [][MCNext]_<<vars, lostFor>>

(***************************************************************************)
(* cat_delayS "transition to manual if flight_mode_switch no longer in     *)
(* waypoint mode or link lost or gps lost" (states.c): a launch does not   *)
(* go on to waypoint mode when the GPS has had no fix for longer than a    *)
(* full FSM clock.                                                         *)
(***************************************************************************)
LaunchAbortsWhenGpsLost ==
  [][stateS = "cat_delay" /\ stateS' = "waypoint" => lostFor <= OneClock]_<<vars, lostFor>>
=============================================================================
