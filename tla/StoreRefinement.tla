--------------------------- MODULE StoreRefinement ---------------------------
(***************************************************************************)
(* DataServices, with everything below it, implements BlockStore until the *)
(* first transfer fails: the driver reports a failed transfer as a success *)
(* (24LC256.c:165), and then nothing is promised.                          *)
(***************************************************************************)
EXTENDS DataServices

(* What a load of block b would yield.                                     *)
Loadable(b) ==
  ee.table.preamble /\ ee.table.checksum /\ b \in ee.table.areas
    /\ GoodArea(ee.header[b], b, ee.data[b])

Memory == [b \in Blocks |-> IF Loadable(b) THEN ee.data[b] ELSE Junk]

Erasing ==
  IF data_storage_status \in {"AREA_CLEAR", "AREA_CLEARING"}
  THEN {data_storage_handle} ELSE {}

Task ==
  LET b == data_services_table_index IN
  CASE data_service_state \in {"INIT", "INIT_ALL", "INIT_WAIT"} -> [kind |-> "start"]
    [] data_service_state = "WRITE_WAITING" ->
         [kind |-> "save", block |-> b, value |-> data_services_buffer]
    [] data_service_state = "READ_WAITING" -> [kind |-> "load", block |-> b]
    [] data_service_state = "READ_DONE" ->
         [kind |-> "loaded", block |-> b, value |-> data_services_buffer]
    [] OTHER -> [kind |-> "idle"]

Store == INSTANCE BlockStore
         WITH Data <- Blocks \X Values, Nothing <- Junk,
              memory <- Memory, saved <- stored, task <- Task,
              erasing <- Erasing

(***************************************************************************)
(* Saving, loading and erasing blocks is what BlockStore says it is, until *)
(* the first fault: each step of the services, the storage, the driver,    *)
(* the chip and the power is a step of the store or leaves it as it is.    *)
(***************************************************************************)
ImplementsBlockStore ==
  Store!StoreInit /\ [][Store!StoreNext \/ faults' > 0]_<<Store!storeVars, faults>>
=============================================================================
