----------------------------- MODULE MCMissions -----------------------------
(***************************************************************************)
(* Missions for TLC: a main plan of two waypoints and, as compiled by      *)
(* default, a return plan of a single one to loiter at.                    *)
(***************************************************************************)
EXTENDS Missions

MCPoints == [main |-> 2, rtl |-> 1]
MCLoiters == {Waypoint("rtl", 0), Waypoint("live", 1)}

(* In flight two messages or two live waypoints; on the ground four        *)
(* messages, an upload of both waypoints with one repeated.                *)
MCBudgets == {<<2, 0, TRUE>>, <<0, 2, TRUE>>, <<4, 0, FALSE>>}
MCNone == {<<0, 0, TRUE>>}

(* The last waypoint of the plan, and a number that becomes -1.            *)
MCSeqs == {1, 65535}
=============================================================================
