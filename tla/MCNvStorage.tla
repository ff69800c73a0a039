---------------------------- MODULE MCNvStorage ----------------------------
(***************************************************************************)
(* DataServices for TLC.  Block 1 stands for the IMU calibration (loaded   *)
(* at a reboot, saved with the calibrations), block 2 for the throttle     *)
(* options (loaded at any reset, saved on their own only), as in           *)
(* MatrixPilot/nv_memory_table.c; their entries are on different pages.    *)
(***************************************************************************)
EXTENDS StoreRefinement

CONSTANTS
  Chips,   \* the EEPROMs to start with: blank, or the areas of its table
  Filled   \* the blocks that were saved in it, listed in its table or not

MCSelected ==
  [startup |-> {2}, reboot |-> {1, 2}, calib |-> {1}, all |-> {1, 2}]

MCBlank == {0}
MCHandlers == <<"nv", "storage", "services", "message">>
MCJunk == <<0, "junk">>

GoodHeader(b, v) == [preamble |-> TRUE, handle |-> b, checksum |-> <<b, v>>]

MCInit ==
  /\ Init
  /\ \E chip \in Chips, v \in Values :
       ee = [table  |-> [preamble |-> chip # MCBlank, areas |-> chip \ MCBlank,
                         checksum |-> chip # MCBlank],
             header |-> [b \in Blocks |-> IF b \in Filled THEN GoodHeader(b, v)
                                          ELSE BlankHeader],
             data   |-> [b \in Blocks |-> IF b \in Filled THEN <<b, v>> ELSE Junk]]

MCSpec == MCInit /\ [][Next]_vars
MCFairSpec == MCSpec /\ Fairness

(***************************************************************************)
(* The services come up (data_services.c:27-28: responsible for recalling  *)
(* the data and for initialising data storage at startup).                 *)
(***************************************************************************)
ServicesComeUp == <>(data_service_state = "WAITING")

(***************************************************************************)
(* A failed read of the table is retried (data_storage.c:391), so that     *)
(* the areas of a table that is there are not formatted away.              *)
(***************************************************************************)
AreasKept == ee.table.areas = Blocks
=============================================================================
