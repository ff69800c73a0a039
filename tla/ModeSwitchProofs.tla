--------------------------- MODULE ModeSwitchProofs ---------------------------
(***************************************************************************)
(* Machine-checked proofs about the two-position switch recogniser, for    *)
(* every MAX_PAUSE_TOGGLE: how soon a held-down switch is manual, and what *)
(* a pilot must have done before autonomous is requested.                  *)
(***************************************************************************)
EXTENDS ModeSwitchPilot, TLAPS

Toggling == {"MANUAL_T1", "STABILIZED_T1", "MANUAL_T2"}

(***************************************************************************)
(* The types; the toggle timer has room left while a toggle is awaited.    *)
(***************************************************************************)
TypeInv ==
  /\ TypeOK
  /\ flight_mode_switch_state \in Toggling
       => toggle_switch_counter_40hz <= MaxPauseToggle + 1

(***************************************************************************)
(* The record of samples stays in its type.                                *)
(***************************************************************************)
LEMMA RecordTypes ==
  ASSUME since \in [1 .. 4 -> 0 .. Never], Poll
  PROVE  since' \in [1 .. 4 -> 0 .. Never]
  <1> USE ModeSwitchAssumption DEF Never, Aged, ToggleWindow
  <1>1. ASSUME NEW k \in 1 .. 4 PROVE Aged(since[k]) \in 0 .. Never
    OBVIOUS
  <1>2. CASE Down
    BY <1>1, <1>2 DEF Poll
  <1>3. CASE Up /\ ~Down
    BY <1>1, <1>3 DEF Poll
  <1>4. CASE ~Up /\ ~Down
    BY <1>1, <1>4 DEF Poll
  <1> QED BY <1>2, <1>3, <1>4

(***************************************************************************)
(* Every step keeps the types.                                             *)
(***************************************************************************)
LEMMA TypeStep ==
  ASSUME TypeInv, [Next]_vars
  PROVE  TypeInv'
  <1>1. CASE Poll
    <2>1. SwitchTypeOK' /\ (flight_mode_switch_state' \in Toggling
                              => toggle_switch_counter_40hz' <= MaxPauseToggle + 1)
      BY <1>1, ModeSwitchAssumption
      DEF TypeInv, TypeOK, Poll, flight_mode_switch_2pos_poll, Enter, Await,
          AwaitToggle, SwitchTypeOK, Modes, SwitchStates, Toggling
    <2>2. lowPolls' \in 0 .. ManualLatency
      BY <1>1 DEF Poll, TypeInv, TypeOK, ManualLatency
    <2> QED BY <1>1, <2>1, <2>2, RecordTypes DEF TypeInv, TypeOK
  <1>2. CASE PilotMoves \/ UNCHANGED vars
    BY <1>2 DEF PilotMoves, MoveSwitch, vars, switchVars, TypeInv, TypeOK, SwitchTypeOK
  <1> QED BY <1>1, <1>2 DEF Next

(***************************************************************************)
(* The recogniser and the record start with the types.                     *)
(***************************************************************************)
LEMMA InitTypes == Init => TypeInv
  BY ModeSwitchAssumption
  DEF Init, SwitchInit, TypeInv, TypeOK, SwitchTypeOK, Modes, SwitchStates,
      Toggling, ManualLatency, Never, ToggleWindow

(***************************************************************************)
(* The type invariant of the recogniser and of the record.                 *)
(***************************************************************************)
THEOREM TypeCorrect == Spec => []TypeOK
  <1>1. TypeInv => TypeOK
    BY DEF TypeInv
  <1> QED BY <1>1, InitTypes, TypeStep, PTL DEF Spec

(***************************************************************************)
(* Where the recogniser can be once the switch has been seen down, and     *)
(* which of its states have published manual.                              *)
(***************************************************************************)
DownTrail ==
  /\ flight_mode_switch_state \in {"MANUAL_LONG_TERM", "MANUAL_T1", "MANUAL_T2"}
       => request_autopilot_mode = "MANUAL"
  /\ lowPolls >= 1
       => flight_mode_switch_state \in
            {"ENT_MANUAL_LONG_TERM", "MANUAL_LONG_TERM", "STABILIZED_LONG_TERM",
             "ENT_MANUAL_T1", "MANUAL_T1", "STABILIZED_T1", "ENT_MANUAL_T2",
             "MANUAL_T2", "AUTONOMOUS"}
  /\ lowPolls >= 2
       => flight_mode_switch_state \in
            {"ENT_MANUAL_LONG_TERM", "MANUAL_LONG_TERM", "ENT_MANUAL_T1",
             "MANUAL_T1", "ENT_MANUAL_T2", "MANUAL_T2"}
  /\ lowPolls >= 3
       => /\ flight_mode_switch_state \in
               {"ENT_MANUAL_LONG_TERM", "MANUAL_LONG_TERM", "MANUAL_T1", "MANUAL_T2"}
          /\ request_autopilot_mode = "MANUAL"

(***************************************************************************)
(* Every poll keeps the trail: a poll that is not down starts it again.    *)
(***************************************************************************)
LEMMA TrailStep ==
  ASSUME TypeInv, DownTrail, [Next]_vars
  PROVE  DownTrail'
  <1>1. CASE Poll /\ Down
    <2>1. ~Up
      BY <1>1 DEF Up, Down
    <2>2. lowPolls' = IF lowPolls = 3 THEN 3 ELSE lowPolls + 1
      BY <1>1 DEF Poll, ManualLatency
    <2> QED BY <1>1, <2>1, <2>2
            DEF Poll, flight_mode_switch_2pos_poll, Enter, Await, AwaitToggle,
                TypeInv, TypeOK, ManualLatency, DownTrail
  <1>2. CASE Poll /\ ~Down
    <2>1. lowPolls' = 0
      BY <1>2 DEF Poll
    <2> QED BY <1>2, <2>1 DEF Poll, flight_mode_switch_2pos_poll, Enter, Await,
            AwaitToggle, DownTrail
  <1>3. CASE PilotMoves \/ UNCHANGED vars
    BY <1>3 DEF PilotMoves, MoveSwitch, vars, switchVars, DownTrail
  <1> QED BY <1>1, <1>2, <1>3 DEF Next

(***************************************************************************)
(* "Manual is always Manual" (mode_switch.c:79), within three polls.       *)
(***************************************************************************)
THEOREM ManualWithinThreePolls == Spec => []DownMeansManual
  <1>1. Init => DownTrail
    BY DEF Init, SwitchInit, DownTrail
  <1>2. TypeInv /\ DownTrail => DownMeansManual
    BY DEF TypeInv, TypeOK, DownTrail, DownMeansManual, ManualLatency
  <1> QED BY <1>1, <1>2, InitTypes, TypeStep, TrailStep, PTL DEF Spec

(***************************************************************************)
(* A longer alternation never began later than a shorter one.              *)
(***************************************************************************)
Nested ==
  since[1] <= since[2] /\ since[2] <= since[3] /\ since[3] <= since[4]

(***************************************************************************)
(* What a poll does to the record: nothing ages by more than one, a poll   *)
(* that sees the switch down extends the alternations that ended with an   *)
(* up, and one that sees it up those that ended with a down.               *)
(***************************************************************************)
LEMMA RecordStep ==
  ASSUME since \in [1 .. 4 -> 0 .. Never], Nested, Poll
  PROVE  /\ Nested'
         /\ since'[1] <= since[1] + 1 /\ since'[2] <= since[2] + 1
         /\ since'[3] <= since[3] + 1 /\ since'[4] <= since[4] + 1
         /\ Down => since'[1] = 0 /\ since'[3] <= since[2] + 1
         /\ Up => since'[2] <= since[1] + 1 /\ since'[4] <= since[3] + 1
  <1> USE ModeSwitchAssumption DEF Never, Aged, ToggleWindow, Nested
  <1>1. CASE Down
    <2>1. ~Up
      BY <1>1 DEF Up, Down
    <2> QED BY <1>1, <2>1 DEF Poll
  <1>2. CASE Up /\ ~Down
    BY <1>2 DEF Poll
  <1>3. CASE ~Up /\ ~Down
    BY <1>3 DEF Poll
  <1> QED BY <1>1, <1>2, <1>3

(***************************************************************************)
(* How long ago the alternation that led to each toggle state began:       *)
(* every toggle state is entered by its own poll and left within           *)
(* MAX_PAUSE_TOGGLE + 2 more.                                              *)
(***************************************************************************)
ToggleTrail ==
  LET state == flight_mode_switch_state
      age   == toggle_switch_counter_40hz
  IN  /\ state = "ENT_MANUAL_T1" => since[1] <= 0
      /\ state = "MANUAL_T1" => since[1] <= 1 + age
      /\ state = "ENT_STABILIZED_T1" => since[2] <= MaxPauseToggle + 3
      /\ state = "STABILIZED_T1" => since[2] <= MaxPauseToggle + 4 + age
      /\ state = "ENT_MANUAL_T2" => since[3] <= 2 * (MaxPauseToggle + 3)
      /\ state = "MANUAL_T2" => since[3] <= 2 * (MaxPauseToggle + 3) + 1 + age
      /\ state = "ENT_AUTONOMOUS" => since[4] <= ToggleWindow

(***************************************************************************)
(* Every step keeps the trail.                                             *)
(***************************************************************************)
LEMMA ToggleTrailStep ==
  ASSUME TypeInv, Nested, ToggleTrail, [Next]_vars
  PROVE  Nested' /\ ToggleTrail'
  <1>1. CASE PilotMoves \/ UNCHANGED vars
    BY <1>1 DEF PilotMoves, MoveSwitch, vars, switchVars, Nested, ToggleTrail
  <1>2. CASE Poll
    <2> DEFINE c == toggle_switch_counter_40hz
    <2>t. /\ c \in 0 .. MaxPauseToggle + 2
          /\ flight_mode_switch_state \in Toggling => c <= MaxPauseToggle + 1
          /\ since[1] \in Nat /\ since[2] \in Nat /\ since[3] \in Nat
          /\ since[4] \in Nat
      BY ModeSwitchAssumption DEF TypeInv, TypeOK, SwitchTypeOK, Never, ToggleWindow
    <2>r. /\ Nested'
          /\ since'[1] \in Nat /\ since'[2] \in Nat /\ since'[3] \in Nat
          /\ since'[4] \in Nat
          /\ since'[1] <= since[1] + 1 /\ since'[2] <= since[2] + 1
          /\ since'[3] <= since[3] + 1 /\ since'[4] <= since[4] + 1
          /\ Down => since'[1] = 0 /\ since'[3] <= since[2] + 1
          /\ Up => since'[2] <= since[1] + 1 /\ since'[4] <= since[3] + 1
      BY <1>2, RecordStep, RecordTypes, ModeSwitchAssumption
      DEF TypeInv, TypeOK, Never, ToggleWindow
    <2>1. ToggleTrail'
      BY <1>2, <2>t, <2>r, ModeSwitchAssumption
      DEF Poll, flight_mode_switch_2pos_poll, Enter, Await, AwaitToggle,
          ToggleTrail, Toggling, ToggleWindow
    <2> QED BY <2>r, <2>1
  <1> QED BY <1>1, <1>2 DEF Next

(***************************************************************************)
(* "Stabilized is Stabilized unless you try quite hard to reach            *)
(* Autonomous" (mode_switch.c:80): the request needs the three toggles     *)
(* within the window.                                                      *)
(***************************************************************************)
THEOREM AutonomousOnlyByToggles == Spec => AutonomousNeedsToggles
  <1>1. Init => Nested /\ ToggleTrail
    BY ModeSwitchAssumption DEF Init, SwitchInit, Nested, ToggleTrail, Never, ToggleWindow
  <1>2. TypeInv /\ ToggleTrail /\ [Next]_vars
          => [request_autopilot_mode' = "AUTONOMOUS" /\ request_autopilot_mode # "AUTONOMOUS"
                => since[4] <= ToggleWindow]_vars
    <2> SUFFICES ASSUME ToggleTrail, Next, request_autopilot_mode' = "AUTONOMOUS",
                        request_autopilot_mode # "AUTONOMOUS"
                 PROVE  since[4] <= ToggleWindow
      BY DEF vars, switchVars
    <2>1. flight_mode_switch_state = "ENT_AUTONOMOUS"
      BY DEF Next, Poll, flight_mode_switch_2pos_poll, Enter, Await, AwaitToggle,
         PilotMoves, MoveSwitch
    <2> QED BY <2>1 DEF ToggleTrail
  <1> QED BY <1>1, <1>2, InitTypes, TypeStep, ToggleTrailStep, PTL
          DEF Spec, AutonomousNeedsToggles
=============================================================================
