--------------------------- MODULE ModeSwitchPilot ---------------------------
(***************************************************************************)
(* The two-position recogniser of ModeSwitch with a pilot who moves the    *)
(* switch between polls, and a record of what the polls have sampled.  The *)
(* record is kept for the properties only: it reads the switch, never the  *)
(* recogniser, so it says what the pilot did independently of the code.    *)
(***************************************************************************)
EXTENDS ModeSwitch

VARIABLES
  lowPolls,  \* polls in a row that sampled the switch down (saturates)
  since      \* since[k]: polls since the latest start of a down, up, down...
             \* alternation of k samples (saturates)

vars == <<switchVars, lowPolls, since>>

(* From the poll that samples the first down to the one that samples the   *)
(* last up: three toggles, each an entry poll and at most                  *)
(* MAX_PAUSE_TOGGLE + 2 polls of waiting.                                  *)
ToggleWindow == 3 * (MaxPauseToggle + 3)

(* Polls before a held-down switch is manual, whatever went before.        *)
ManualLatency == 3

Aged(n) == IF n > ToggleWindow THEN n ELSE n + 1

Never == ToggleWindow + 1

Init ==
  /\ SwitchInit
  /\ lowPolls = 0
  /\ since = [k \in 1 .. 4 |-> Never]

Poll ==
  /\ flight_mode_switch_2pos_poll
  /\ lowPolls' = IF ~Down THEN 0
                 ELSE IF lowPolls = ManualLatency THEN lowPolls
                 ELSE lowPolls + 1
  /\ since' =
       CASE Down -> [since EXCEPT ![1] = 0, ![2] = Aged(@), ![3] = Aged(since[2]),
                                  ![4] = Aged(@)]
         [] Up   -> [since EXCEPT ![1] = Aged(@), ![2] = Aged(since[1]),
                                  ![3] = Aged(@), ![4] = Aged(since[3])]
         [] OTHER -> [k \in 1 .. 4 |-> Aged(since[k])]

PilotMoves ==
  /\ MoveSwitch
  /\ UNCHANGED <<lowPolls, since>>

Next == Poll \/ PilotMoves

Spec == Init /\ [][Next]_vars

TypeOK ==
  /\ SwitchTypeOK
  /\ lowPolls \in 0 .. ManualLatency
  /\ since \in [1 .. 4 -> 0 .. Never]

(***************************************************************************)
(* "Manual is always Manual" (mode_switch.c:79): once three polls in a row *)
(* have seen the switch down the recogniser asks for manual, from every    *)
(* state it can be in, a toggle half way through included.                 *)
(***************************************************************************)
DownMeansManual ==
  lowPolls >= ManualLatency => request_autopilot_mode = "MANUAL"

(***************************************************************************)
(* "Stabilized is Stabilized unless you try quite hard to reach Autonomous"*)
(* (mode_switch.c:80): autonomous is requested only when the polls sampled *)
(* down, up, down, up within the window the toggle timeouts allow.         *)
(***************************************************************************)
AutonomousNeedsToggles ==
  [][request_autopilot_mode' = "AUTONOMOUS" /\ request_autopilot_mode # "AUTONOMOUS"
       => since[4] <= ToggleWindow]_vars
=============================================================================
