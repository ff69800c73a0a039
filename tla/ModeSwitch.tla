----------------------------- MODULE ModeSwitch -----------------------------
(***************************************************************************)
(* The recogniser that turns a two-position transmitter switch into three  *)
(* flight modes (MatrixPilot/mode_switch.c, MODE_SWITCH_TWO_POSITION = 1,  *)
(* FLY_BY_DATALINK_ENABLED = 0).  Down is manual, up is stabilized; down,  *)
(* up, down, up in quick succession is autonomous.                         *)
(*                                                                         *)
(* flight_mode_switch_2pos_poll runs once per heartbeat pulse, 40 times a  *)
(* second; the input capture interrupt changes the channel at any time.    *)
(***************************************************************************)
EXTENDS Naturals

CONSTANTS
  Positions,      \* the pulse widths of the switch channel told apart
  MaxPauseToggle  \* MAX_PAUSE_TOGGLE: polls a toggle may last

(***************************************************************************)
(* "low" is below MODE_SWITCH_THRESHOLD_LOW, "atLow" exactly on it, "mid"  *)
(* between the two thresholds, "high" above MODE_SWITCH_THRESHOLD_HIGH.    *)
(***************************************************************************)
ASSUME ModeSwitchAssumption ==
  /\ Positions # {}
  /\ Positions \subseteq {"low", "atLow", "mid", "high"}
  /\ MaxPauseToggle \in Nat

VARIABLES
  pwIn,                      \* udb_pwIn[MODE_SWITCH_INPUT_CHANNEL]
  flight_mode_switch_state,  \* where the recogniser is
  request_autopilot_mode,    \* the mode it asks for
  toggle_switch_counter_40hz \* polls since the current toggle began

switchVars == <<pwIn, flight_mode_switch_state, request_autopilot_mode,
                toggle_switch_counter_40hz>>

Modes == {"MANUAL", "STABILIZED", "AUTONOMOUS"}

SwitchStates ==
  {"ENT_MANUAL_LONG_TERM", "MANUAL_LONG_TERM",
   "ENT_STABILIZED_LONG_TERM", "STABILIZED_LONG_TERM",
   "ENT_MANUAL_T1", "MANUAL_T1", "ENT_STABILIZED_T1", "STABILIZED_T1",
   "ENT_MANUAL_T2", "MANUAL_T2", "ENT_AUTONOMOUS", "AUTONOMOUS"}

(* A pulse exactly on the threshold is neither up nor down.                *)
Up   == pwIn \in {"mid", "high"}
Down == pwIn = "low"

SwitchInit ==
  /\ pwIn \in Positions
  /\ flight_mode_switch_state = "MANUAL_LONG_TERM"
  /\ request_autopilot_mode = "MANUAL"
  /\ toggle_switch_counter_40hz = 0

-----------------------------------------------------------------------------
(* An entry state publishes its mode, restarts the toggle timer and moves  *)
(* on without looking at the switch.                                       *)
Enter(entry, mode, next) ==
  /\ flight_mode_switch_state = entry
  /\ toggle_switch_counter_40hz' = 0
  /\ request_autopilot_mode' = mode
  /\ flight_mode_switch_state' = next

(* A long-term state waits for the switch to move, however long it takes.  *)
Await(at, moved, next) ==
  /\ flight_mode_switch_state = at
  /\ flight_mode_switch_state' = IF moved THEN next ELSE at
  /\ UNCHANGED <<request_autopilot_mode, toggle_switch_counter_40hz>>

(* Mutant: a toggle never times out. *)
AwaitToggle_NoTimeout(at, moved, next, giveUp) ==
  /\ flight_mode_switch_state = at
  /\ flight_mode_switch_state' = IF moved THEN next ELSE at
  /\ toggle_switch_counter_40hz' = toggle_switch_counter_40hz + 1
  /\ UNCHANGED request_autopilot_mode

(* Mutant: the timer is not counted while the switch is where it was. *)
AwaitToggle_NotCounted(at, moved, next, giveUp) ==
  /\ flight_mode_switch_state = at
  /\ flight_mode_switch_state' = IF moved THEN next ELSE at
  /\ UNCHANGED <<request_autopilot_mode, toggle_switch_counter_40hz>>

(* Mutant: the timeout is looked at before the switch. *)
AwaitToggle_TimeoutFirst(at, moved, next, giveUp) ==
  /\ flight_mode_switch_state = at
  /\ flight_mode_switch_state' =
       IF toggle_switch_counter_40hz > MaxPauseToggle THEN giveUp
       ELSE IF moved THEN next
       ELSE at
  /\ toggle_switch_counter_40hz' = toggle_switch_counter_40hz + 1
  /\ UNCHANGED request_autopilot_mode

(* A toggle state waits for the switch to move and gives up after          *)
(* MAX_PAUSE_TOGGLE polls; the timer counts every poll spent here.         *)
AwaitToggle(at, moved, next, giveUp) ==
  /\ flight_mode_switch_state = at
  /\ flight_mode_switch_state' =
       IF moved THEN next
       ELSE IF toggle_switch_counter_40hz > MaxPauseToggle THEN giveUp
       ELSE at
  /\ toggle_switch_counter_40hz' = toggle_switch_counter_40hz + 1
  /\ UNCHANGED request_autopilot_mode

flight_mode_switch_2pos_poll ==
  /\ \/ Enter("ENT_MANUAL_LONG_TERM", "MANUAL", "MANUAL_LONG_TERM")
     \/ Await("MANUAL_LONG_TERM", Up, "ENT_STABILIZED_LONG_TERM")
     \/ Enter("ENT_STABILIZED_LONG_TERM", "STABILIZED", "STABILIZED_LONG_TERM")
     \/ Await("STABILIZED_LONG_TERM", Down, "ENT_MANUAL_T1")
     \/ Enter("ENT_MANUAL_T1", "MANUAL", "MANUAL_T1")
     \/ AwaitToggle("MANUAL_T1", Up, "ENT_STABILIZED_T1", "ENT_MANUAL_LONG_TERM")
     \/ Enter("ENT_STABILIZED_T1", "STABILIZED", "STABILIZED_T1")
     \/ AwaitToggle("STABILIZED_T1", Down, "ENT_MANUAL_T2",
                    "ENT_STABILIZED_LONG_TERM")
     \/ Enter("ENT_MANUAL_T2", "MANUAL", "MANUAL_T2")
     \/ AwaitToggle("MANUAL_T2", Up, "ENT_AUTONOMOUS", "ENT_MANUAL_LONG_TERM")
     \/ Enter("ENT_AUTONOMOUS", "AUTONOMOUS", "AUTONOMOUS")
     \/ Await("AUTONOMOUS", Down, "ENT_MANUAL_LONG_TERM")
  /\ UNCHANGED pwIn

(* The input capture interrupt stores a new pulse width (set_udb_pwIn).    *)
MoveSwitch ==
  /\ pwIn' \in Positions \ {pwIn}
  /\ UNCHANGED <<flight_mode_switch_state, request_autopilot_mode,
                 toggle_switch_counter_40hz>>

SwitchTypeOK ==
  /\ pwIn \in Positions
  /\ flight_mode_switch_state \in SwitchStates
  /\ request_autopilot_mode \in Modes
  /\ toggle_switch_counter_40hz \in 0 .. MaxPauseToggle + 2
=============================================================================
