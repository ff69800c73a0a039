---------------------------- MODULE MCModeSwitch ----------------------------
(***************************************************************************)
(* ModeSwitchPilot for TLC: toggles of at most two polls, a channel that   *)
(* can be below, exactly on and above the threshold.                       *)
(***************************************************************************)
EXTENDS ModeSwitchPilot
=============================================================================
