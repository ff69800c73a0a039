--------------------------- MODULE MCFlightStates ---------------------------
(***************************************************************************)
(* FlightStates for TLC, with a record of whether the pilot has moved the  *)
(* switch since the radio last controlled the plane.                       *)
(***************************************************************************)
EXTENDS FlightStates

VARIABLE moved  \* the switch moved since the last heartbeat that ran with
                \* the radio on and left the plane outside return

MCInit == Init /\ moved = FALSE

MCNext ==
  \/ Heartbeat /\ moved' = (moved /\ ~(radio_on /\ stateS' # "return"))
  \/ SwitchMoves /\ moved' = TRUE
  \/ (Pulse \/ GpsValid \/ GpsInvalid) /\ UNCHANGED moved

mcVars == <<vars, moved>>

MCSpec == MCInit /\ [][MCNext]_mcVars /\ WF_vars(Heartbeat)

(***************************************************************************)
(* FAILSAFE_HOLD (options.h:358-363): once failsafe has engaged the plane  *)
(* leaves the return state only with the radio on and after the pilot has  *)
(* changed the mode switch, however often the link comes and goes.         *)
(***************************************************************************)
HoldUntilSwitchMoves ==
  [][FailsafeHold /\ stateS = "return" /\ stateS' # "return"
       => radio_on /\ moved]_mcVars
=============================================================================
