---------------------------- MODULE DataStorage ----------------------------
(***************************************************************************)
(* Storage areas in the EEPROM (MatrixPilot/data_storage.c): a table of    *)
(* areas, and for each area a header with the checksum of its data.        *)
(*                                                                         *)
(* The service runs at level 2; the completions of the driver run in the   *)
(* I2C interrupt (level 5) and move data_storage_status themselves.  After *)
(* a request is accepted the service has still to assign the status that   *)
(* says what it waits for: that assignment is the variable assign, and a   *)
(* step of its own, so that a completion may come first.                   *)
(***************************************************************************)
EXTENDS NvMemory, Events

CONSTANT CanOvertake  \* a completion may come before that assignment

ASSUME DataStorageAssumption == CanOvertake \in BOOLEAN

VARIABLES
  data_storage_status, data_storage_handle, data_storage_user_callback,
  assign   \* the status the service is about to assign, "AREA_CREATE" while
           \* it has made an area and not yet asked for it, or "none"

dsVars == <<data_storage_status, data_storage_handle,
            data_storage_user_callback, assign>>

(* What the service asks of the driver in each status, and the status it   *)
(* then assigns.  Formatting assigns none.                                 *)
Request(write, c, callback, next) ==
  [write |-> write, cell |-> c, callback |-> callback, next |-> next]

Requests ==
  LET b == data_storage_handle IN
  [START       |-> Request(FALSE, TheTable, "init", "INIT"),
   CHECK_TABLE |-> Request(TRUE, TheTable, "format", "none"),
   WRITE       |-> Request(TRUE, Cell("data", b), "write", "WRITING_DATA"),
   WRITING_DATA_COMPLETE |->
     Request(TRUE, Cell("header", b), "write_header", "WRITING_HEADER"),
   READ        |-> Request(FALSE, Cell("header", b), "read_header", "READING_HEADER"),
   READ_HEADER_COMPLETE |->
     Request(FALSE, Cell("data", b), "read_data", "READING_DATA"),
   AREA_CREATE |-> Request(TRUE, TheTable, "table", "AREA_CREATING"),
   AREA_CLEAR  |-> Request(TRUE, Cell("mark", b), "clear", "AREA_CLEARING")]

(* The statuses in which the service asks in one step; an area is made     *)
(* first and asked for then.                                               *)
Asking == {"START", "CHECK_TABLE", "WRITE", "WRITING_DATA_COMPLETE", "READ",
           "READ_HEADER_COMPLETE", "AREA_CLEAR"}
Awaiting == {"INIT", "WRITING_DATA", "WRITING_HEADER", "READING_HEADER",
             "READING_DATA", "AREA_CREATING", "AREA_CLEARING"}
Statuses ==
  Asking \cup Awaiting \cup {"AREA_CREATE", "WAITING", "READ_DATA_COMPLETE"}

UserCallbacks == {"none", "init_all", "read", "write", "preflight"}

DsInit ==
  /\ data_storage_status = "START"
  /\ data_storage_handle = 0
  /\ data_storage_user_callback = "none"
  /\ assign = "none"

storage_services_started ==
  data_storage_status \notin {"START", "INIT", "CHECK_TABLE"}

data_storage_check_table ==
  data_storage_table.preamble /\ data_storage_table.checksum

(* storage_test_handle, storage_check_area_exists: the sizes never change. *)
AreaExists(b) == b \in data_storage_table.areas

-----------------------------------------------------------------------------
(* Requests of the storage's users: taken only when it is WAITING.         *)
(* Mutant: the test for WAITING is missing. *)
StorageTakes_WhenBusy(status, b, callback) ==
  /\ storage_services_started
  /\ data_storage_status' = status
  /\ data_storage_handle' = b
  /\ data_storage_user_callback' = callback
  /\ UNCHANGED assign

StorageTakes(status, b, callback) ==
  /\ data_storage_status = "WAITING"
  /\ data_storage_status' = status
  /\ data_storage_handle' = b
  /\ data_storage_user_callback' = callback
  /\ UNCHANGED assign

storage_read(b, callback)  == AreaExists(b) /\ StorageTakes("READ", b, callback)
storage_write(b, callback) == AreaExists(b) /\ StorageTakes("WRITE", b, callback)
storage_create_area(b, callback) == StorageTakes("AREA_CREATE", b, callback)
storage_clear_area(b, callback)  == StorageTakes("AREA_CLEAR", b, callback)

-----------------------------------------------------------------------------
(* data_storage_service.                                                   *)
Asks ==
  /\ data_storage_status \in Asking
  /\ data_storage_status = "CHECK_TABLE" => ~data_storage_check_table
  /\ data_storage_status = "AREA_CLEAR" => AreaExists(data_storage_handle)

(* The buffers are prepared first.                                         *)
Prepare ==
  /\ data_storage_table' =
       CASE data_storage_status = "START" ->
              [data_storage_table EXCEPT !.preamble = FALSE, !.checksum = FALSE]
         [] data_storage_status = "CHECK_TABLE" ->
              [preamble |-> TRUE, areas |-> {}, checksum |-> TRUE]
         [] OTHER -> data_storage_table
  /\ data_storage_header' =
       CASE data_storage_status = "WRITING_DATA_COMPLETE" ->
              [preamble |-> TRUE, handle |-> data_storage_handle,
               checksum |-> data_services_buffer]
         [] data_storage_status = "AREA_CLEAR" -> BlankHeader
         [] OTHER -> data_storage_header
  /\ UNCHANGED data_services_buffer

RequestAccepted ==
  LET r == Requests[data_storage_status] IN
  /\ Asks /\ NvAccepts
  /\ Prepare
  /\ IF r.write THEN udb_nv_memory_write(r.cell, r.callback)
                ELSE udb_nv_memory_read(r.cell, r.callback)
  /\ IF r.next = "none" THEN CalledAndReturned("storage") ELSE Called("storage")
  /\ assign' = r.next
  /\ UNCHANGED <<data_storage_status, data_storage_handle, data_storage_user_callback>>

(* The entry of the area is put into the table before the driver is asked  *)
(* to write it.  The driver may be sending that table meanwhile: nobody    *)
(* waits for a format, whose completion may come here too.                 *)
CreationMade ==
  /\ data_storage_status = "AREA_CREATE"
  /\ data_storage_table' = [data_storage_table EXCEPT
                              !.areas = @ \cup {data_storage_handle},
                              !.checksum = TRUE]
  /\ data_storage_status' = "AREA_CREATING"
  /\ assign' = "AREA_CREATE"
  /\ Called("storage")
  /\ UNCHANGED <<data_storage_handle, data_storage_user_callback,
                 data_storage_header, data_services_buffer, nvVars>>

CreationAccepted ==
  LET r == Requests["AREA_CREATE"] IN
  /\ assign = "AREA_CREATE" /\ NvAccepts
  /\ udb_nv_memory_write(r.cell, r.callback)
  /\ assign' = r.next
  /\ UNCHANGED <<data_storage_status, data_storage_handle,
                 data_storage_user_callback, evVars, ramVars>>

(* The entry is taken back and the user told.                              *)
(* Mutant: the entry stays in the table. *)
CreationRefused_EntryStays ==
  LET r == Requests["AREA_CREATE"] IN
  /\ assign = "AREA_CREATE" /\ NvRefuses(r.write, r.callback)
  /\ data_storage_status' = "WAITING"
  /\ assign' = "none"
  /\ Returned
  /\ UNCHANGED <<data_storage_handle, data_storage_user_callback, ramVars>>

CreationRefused ==
  LET r == Requests["AREA_CREATE"] IN
  /\ assign = "AREA_CREATE" /\ NvRefuses(r.write, r.callback)
  /\ data_storage_table' = [data_storage_table EXCEPT
                              !.areas = @ \ {data_storage_handle}]
  /\ data_storage_status' = "WAITING"
  /\ assign' = "none"
  /\ Returned
  /\ UNCHANGED <<data_storage_handle, data_storage_user_callback,
                 data_storage_header, data_services_buffer>>

StorageReturns ==
  /\ assign \in Awaiting
  /\ data_storage_status' = assign
  /\ assign' = "none"
  /\ Returned
  /\ UNCHANGED <<data_storage_handle, data_storage_user_callback, nvVars, ramVars>>

(* The driver is busy or failed: the table is read again later ...         *)
TableRefused ==
  LET r == Requests[data_storage_status] IN
  /\ Asks /\ data_storage_status \in {"START", "CHECK_TABLE"}
  /\ NvRefuses(r.write, r.callback)
  /\ Prepare
  /\ CalledAndReturned("storage")
  /\ data_storage_status' = "START"
  /\ UNCHANGED <<data_storage_handle, data_storage_user_callback, assign>>

(* ... and anything else fails: the user's callback is called with FALSE.  *)
RequestRefused ==
  LET r == Requests[data_storage_status] IN
  /\ Asks /\ data_storage_status \notin {"START", "CHECK_TABLE"}
  /\ NvRefuses(r.write, r.callback)
  /\ Prepare
  /\ CalledAndReturned("storage")
  /\ data_storage_status' = "WAITING"
  /\ UNCHANGED <<data_storage_handle, data_storage_user_callback, assign>>

(* Nothing to ask: the table is good, or the status is not the service's.  *)
NothingToAsk ==
  /\ data_storage_status \in {"CHECK_TABLE", "WAITING"} \cup Awaiting
  /\ ~Asks
  /\ CalledAndReturned("storage")
  /\ data_storage_status' = IF data_storage_status = "CHECK_TABLE"
                            THEN "WAITING" ELSE data_storage_status
  /\ UNCHANGED <<data_storage_handle, data_storage_user_callback, assign,
                 nvVars, ramVars>>

(* The area to clear does not exist.                                       *)
NothingToClear ==
  /\ data_storage_status = "AREA_CLEAR" /\ ~Asks
  /\ CalledAndReturned("storage")
  /\ data_storage_status' = "WAITING"
  /\ UNCHANGED <<data_storage_handle, data_storage_user_callback, assign,
                 nvVars, ramVars>>

(* What was read is good if header and data go together.                   *)
(* Mutant: the checksum is not compared. *)
GoodArea_NoChecksum(h, b, data) == h.preamble /\ h.handle = b

GoodArea(h, b, data) ==
  h.preamble /\ h.handle = b /\ h.checksum = data /\ data # Junk

ReadChecked(ok) ==
  /\ data_storage_status = "READ_DATA_COMPLETE"
  /\ ok = GoodArea(data_storage_header, data_storage_handle, data_services_buffer)
  /\ CalledAndReturned("storage")
  /\ data_storage_status' = "WAITING"
  /\ UNCHANGED <<data_storage_handle, data_storage_user_callback, assign,
                 nvVars, ramVars>>

(* The runs of the service that do not call the user's callback, and those *)
(* that do.                                                                *)
StorageQuiet ==
  \/ StorageReturns \/ CreationAccepted
  \/ /\ assign = "none"
     /\ RequestAccepted \/ CreationMade \/ TableRefused \/ NothingToAsk

StorageTells(ok) ==
  \/ ~ok /\ CreationRefused
  \/ /\ assign = "none"
     /\ ReadChecked(ok) \/ (~ok /\ (RequestRefused \/ NothingToClear))

-----------------------------------------------------------------------------
(* The completions: the status they assign ...                             *)
(* Mutant: the header completion forgets its status. *)
StatusAfter_HeaderLost(callback, success) ==
  CASE callback = "init"   -> IF success THEN "CHECK_TABLE" ELSE "START"
    [] callback = "format" -> IF success THEN "WAITING" ELSE "START"
    [] callback \in {"none", "read_header"} -> data_storage_status
    [] callback = "write"  -> "WRITING_DATA_COMPLETE"
    [] OTHER               -> "WAITING"

StatusAfter(callback, success) ==
  CASE callback = "init"        -> IF success THEN "CHECK_TABLE" ELSE "START"
    [] callback = "format"      -> IF success THEN "WAITING" ELSE "START"
    [] callback = "write"       -> "WRITING_DATA_COMPLETE"
    [] callback = "read_header" -> IF success THEN "READ_HEADER_COMPLETE" ELSE "WAITING"
    [] callback = "read_data"   -> IF success THEN "READ_DATA_COMPLETE" ELSE "WAITING"
    [] callback = "none"        -> data_storage_status
    [] OTHER                    -> "WAITING"

(* ... and whether they call the user's callback.                          *)
(* Mutant: the user is told when the data is written, not the header. *)
TellsUser_TooEarly(callback, success) ==
  callback \in {"table", "write", "write_header", "clear"}

TellsUser(callback, success) ==
  \/ callback \in {"table", "write_header", "clear"}
  \/ ~success /\ callback \in {"write", "read_header", "read_data"}

StorageTold(success) ==
  /\ CanOvertake \/ assign \in {"none", "AREA_CREATE"}
  /\ data_storage_status' = StatusAfter(pcallerCallback, success)
  /\ UNCHANGED <<data_storage_handle, data_storage_user_callback, assign>>

DsTypeOK ==
  /\ data_storage_status \in Statuses
  /\ data_storage_handle \in Blocks \cup {0}
  /\ data_storage_user_callback \in UserCallbacks
  /\ assign \in Awaiting \cup {"AREA_CREATE", "none"}
=============================================================================
