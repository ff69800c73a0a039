---------------------------- MODULE DataServices ----------------------------
(***************************************************************************)
(* Saving and loading the blocks of parameters (MatrixPilot/               *)
(* data_services.c), composed with the storage below it, the events that   *)
(* run both, the heartbeat pulse that triggers them, the ground station    *)
(* that asks for them (MatrixPilot/MAVLink.c), and the loss of power.      *)
(*                                                                         *)
(* At power up every area that is missing is created, then the blocks that *)
(* are to be loaded are read one by one.  Afterwards a message may ask for *)
(* the blocks to be saved, loaded or cleared.  The callback to the ground  *)
(* station (its acknowledgement) is left out.                              *)
(***************************************************************************)
EXTENDS DataStorage

CONSTANTS
  Selected,    \* serialize flag -> the blocks that have it
  Messages,    \* the kinds of message that arrive
  MaxCrashes   \* bound: times the power is lost

Flags == {"startup", "reboot", "calib", "all"}
MessageKinds == {"save_all", "load_all", "save_specific", "load_specific", "clear"}

ASSUME DataServicesAssumption ==
  /\ Selected \in [Flags -> SUBSET (1 .. BlockCount)]
  /\ Selected["all"] = 1 .. BlockCount
  /\ Messages \subseteq MessageKinds
  /\ MaxCrashes \in Nat
  /\ {"nv", "storage", "services"} \subseteq HandlerSet

VARIABLES
  data_service_state,
  data_services_table_index,  \* from 1; 0 is INVALID_HANDLE
  data_services_do_all_areas,
  data_services_serialize_flags,
  stored,    \* what the services know to be saved: history
  crashes    \* times the power was lost

reqVars  == <<data_services_table_index, data_services_do_all_areas,
              data_services_serialize_flags>>
svcVars  == <<data_service_state, reqVars, stored>>
belowVars == <<nvVars, ramVars, dsVars>>
vars == <<belowVars, evVars, svcVars, crashes>>

ServiceStates ==
  {"INIT", "INIT_ALL", "INIT_WAIT", "WAITING", "WRITE", "WRITE_WAITING",
   "READ", "READ_WAITING", "READ_DONE"}

SvcInit ==
  /\ data_service_state = "INIT"
  /\ data_services_table_index = 1
  /\ data_services_do_all_areas = FALSE
  /\ data_services_serialize_flags = "startup"

(* First power up; what the EEPROM holds is left to the specification.     *)
Init ==
  /\ NvInit /\ DsInit /\ EventsInit /\ SvcInit
  /\ stored = [b \in Blocks |-> Junk]
  /\ crashes = 0

-----------------------------------------------------------------------------
(* The callbacks the services give to the storage.                         *)
Step == data_services_table_index' = data_services_table_index + 1

(* Mutant: the services are not set going again. *)
InitCallback_NotBack(success) ==
  /\ IF success THEN Step ELSE UNCHANGED data_services_table_index
  /\ UNCHANGED <<data_service_state, data_services_do_all_areas,
                 data_services_serialize_flags, stored>>

data_services_init_all_callback(success) ==
  /\ IF success THEN Step ELSE UNCHANGED data_services_table_index
  /\ data_service_state' = "INIT_ALL"
  /\ UNCHANGED <<data_services_do_all_areas, data_services_serialize_flags, stored>>

(* Mutant: a failed read is not the end of a request. *)
ReadCallback_Stuck(success) ==
  /\ IF success THEN data_service_state' = "READ_DONE"
     ELSE UNCHANGED data_service_state
  /\ UNCHANGED <<reqVars, stored>>

data_services_read_callback(success) ==
  /\ IF success
     THEN /\ data_service_state' = "READ_DONE"
          /\ UNCHANGED data_services_table_index
     ELSE IF data_services_do_all_areas
     THEN Step /\ data_service_state' = "READ"
     ELSE /\ data_service_state' = "WAITING"
          /\ UNCHANGED data_services_table_index
  /\ UNCHANGED <<data_services_do_all_areas, data_services_serialize_flags, stored>>

data_services_write_callback(success) ==
  /\ IF success /\ data_services_do_all_areas
     THEN Step /\ data_service_state' = "WRITE"
     ELSE /\ data_service_state' = "WAITING"
          /\ UNCHANGED data_services_table_index
  /\ stored' = IF success
               THEN [stored EXCEPT ![data_services_table_index] = data_services_buffer]
               ELSE stored
  /\ UNCHANGED <<data_services_do_all_areas, data_services_serialize_flags>>

UserCallback(success) ==
  CASE data_storage_user_callback = "init_all" -> data_services_init_all_callback(success)
    [] data_storage_user_callback = "read"  -> data_services_read_callback(success)
    [] data_storage_user_callback = "write" -> data_services_write_callback(success)
    [] OTHER -> UNCHANGED svcVars

-----------------------------------------------------------------------------
(* The service, run by its event.                                          *)
Run == CalledAndReturned("services")
BelowUnchanged == UNCHANGED <<nvVars, ramVars, dsVars>>
InTable == data_services_table_index \in Blocks
OfInterest ==
  data_services_table_index \in Selected[data_services_serialize_flags]

data_services_init_all ==
  /\ data_service_state = "INIT"
  /\ Run
  /\ data_services_table_index' = 1
  /\ data_services_do_all_areas' = TRUE
  /\ data_service_state' = "INIT_ALL"
  /\ UNCHANGED <<data_services_serialize_flags, stored>> /\ BelowUnchanged

(* The first area from the index on that does not exist; BlockCount + 1 if *)
(* they all do.                                                            *)
FirstMissing ==
  LET missing == {b \in Blocks : b >= data_services_table_index /\ ~AreaExists(b)}
  IN  IF missing = {} THEN BlockCount + 1
      ELSE CHOOSE b \in missing : \A c \in missing : b <= c

(* Create the next area that is missing; if the storage is not ready, or   *)
(* refuses, try again later.                                               *)
InitCreate ==
  /\ data_service_state = "INIT_ALL" /\ InTable
  /\ storage_services_started /\ FirstMissing \in Blocks
  /\ Run
  /\ data_services_table_index' = FirstMissing
  /\ IF data_storage_status = "WAITING"
     THEN /\ storage_create_area(FirstMissing, "init_all")
          /\ data_service_state' = "INIT_WAIT"
     ELSE UNCHANGED <<data_service_state, dsVars>>
  /\ UNCHANGED <<data_services_do_all_areas, data_services_serialize_flags,
                 stored, nvVars, ramVars>>

InitLater ==
  /\ data_service_state = "INIT_ALL" /\ InTable /\ ~storage_services_started
  /\ Run /\ UNCHANGED svcVars /\ BelowUnchanged

(* All areas exist: load the blocks of this kind of reset (_SWR).          *)
InitDone ==
  /\ data_service_state = "INIT_ALL"
  /\ InTable => storage_services_started /\ FirstMissing \notin Blocks
  /\ Run
  /\ data_services_table_index' = 1
  /\ data_services_do_all_areas' = TRUE
  /\ data_services_serialize_flags' \in {"startup", "reboot"}
  /\ data_service_state' = "READ"
  /\ UNCHANGED stored /\ BelowUnchanged

(* READ and WRITE beyond the table: done.                                  *)
BeyondTable ==
  /\ data_service_state \in {"READ", "WRITE"} /\ ~InTable
  /\ Run
  /\ data_service_state' = "WAITING"
  /\ UNCHANGED <<reqVars, stored>> /\ BelowUnchanged

(* The live parameters, whatever they are now, are put in the buffer.      *)
Serialise == data_services_buffer' \in {data_services_table_index} \X Values

(* A block without the flag: every request for all areas steps over it; a  *)
(* request for one area has the flag "all".                                *)
StepOver ==
  /\ data_service_state \in {"READ", "WRITE"} /\ InTable /\ ~OfInterest
  /\ IF data_service_state = "WRITE" THEN Serialise
     ELSE UNCHANGED data_services_buffer
  /\ Run
  /\ IF data_services_do_all_areas
     THEN Step /\ UNCHANGED data_service_state
     ELSE /\ data_service_state' = "WAITING"
          /\ UNCHANGED data_services_table_index
  /\ UNCHANGED <<data_services_do_all_areas, data_services_serialize_flags, stored,
                 nvVars, dsVars, data_storage_table, data_storage_header>>

ReadBlock ==
  /\ data_service_state = "READ" /\ InTable /\ OfInterest
  /\ Run
  /\ IF data_storage_status = "WAITING" /\ AreaExists(data_services_table_index)
     THEN /\ storage_read(data_services_table_index, "read")
          /\ data_service_state' = "READ_WAITING"
     ELSE UNCHANGED <<data_service_state, dsVars>>
  /\ UNCHANGED <<reqVars, stored, nvVars, ramVars>>

WriteBlock ==
  /\ data_service_state = "WRITE" /\ InTable /\ OfInterest
  /\ Run
  /\ Serialise
  /\ IF data_storage_status = "WAITING" /\ AreaExists(data_services_table_index)
     THEN /\ storage_write(data_services_table_index, "write")
          /\ data_service_state' = "WRITE_WAITING"
          /\ stored' = [stored EXCEPT ![data_services_table_index] = Junk]
     ELSE UNCHANGED <<data_service_state, dsVars, stored>>
  /\ UNCHANGED <<reqVars, nvVars, data_storage_table, data_storage_header>>

(* The buffer becomes the live parameters.                                 *)
data_services_read_done ==
  /\ data_service_state = "READ_DONE"
  /\ Run
  /\ IF data_services_do_all_areas
     THEN Step /\ data_service_state' = "READ"
     ELSE /\ data_service_state' = "WAITING"
          /\ UNCHANGED data_services_table_index
  /\ UNCHANGED <<data_services_do_all_areas, data_services_serialize_flags, stored>>
  /\ BelowUnchanged

(* Mutant: the buffer is filled while it is being written. *)
NothingToDo_Serialises ==
  /\ data_service_state \in {"WAITING", "INIT_WAIT", "READ_WAITING", "WRITE_WAITING"}
  /\ Run
  /\ IF data_service_state = "WRITE_WAITING" THEN Serialise
     ELSE UNCHANGED data_services_buffer
  /\ UNCHANGED <<svcVars, nvVars, dsVars, data_storage_table, data_storage_header>>

NothingToDo ==
  /\ data_service_state \in {"WAITING", "INIT_WAIT", "READ_WAITING", "WRITE_WAITING"}
  /\ Run /\ UNCHANGED svcVars /\ BelowUnchanged

data_services ==
  /\ assign = "none" /\ UNCHANGED crashes
  /\ \/ data_services_init_all \/ InitCreate \/ InitLater \/ InitDone
     \/ BeyondTable \/ StepOver \/ ReadBlock \/ WriteBlock
     \/ data_services_read_done \/ NothingToDo

-----------------------------------------------------------------------------
(* The event of a received message, which may come at any time (it is      *)
(* dropped if the last one is not handled).  A request for one block that  *)
(* is not in the table spoils the index, and is otherwise ignored.         *)
Take(state, i, all, flags) ==
  /\ data_services_table_index' = i
  /\ data_services_do_all_areas' = all
  /\ data_services_serialize_flags' = flags
  /\ data_service_state' = state
  /\ UNCHANGED <<stored, dsVars>>

data_services_all(state) == Take(state, 1, TRUE, "calib")

data_services_specific(state) ==
  \/ \E b \in Blocks : Take(state, b, FALSE, "all")
  \/ Take("WAITING", 0, data_services_do_all_areas, data_services_serialize_flags)

ClearMessage ==
  /\ "clear" \in Messages
  /\ \E b \in Blocks :
       /\ storage_clear_area(b, "preflight")
       /\ stored' = [stored EXCEPT ![b] = Junk]
  /\ UNCHANGED <<data_service_state, reqVars>>

ServiceMessage ==
  /\ data_service_state = "WAITING"
  /\ \/ "save_all" \in Messages /\ data_services_all("WRITE")
     \/ "load_all" \in Messages /\ data_services_all("READ")
     \/ "save_specific" \in Messages /\ data_services_specific("WRITE")
     \/ "load_specific" \in Messages /\ data_services_specific("READ")

(* A message that is refused, or not about storage.                        *)
OtherMessage == UNCHANGED <<svcVars, dsVars>>

handleMessage ==
  /\ assign = "none"
  /\ TriggeredAndReturned("message")
  /\ ServiceMessage \/ ClearMessage \/ OtherMessage
  /\ UNCHANGED <<nvVars, ramVars, crashes>>

-----------------------------------------------------------------------------
(* The event interrupt, a handler at a time.                               *)
NvService ==
  /\ assign = "none"
  /\ CalledAndReturned("nv")
  /\ nv_memory_service
  /\ UNCHANGED <<chipVars, ramVars, dsVars, svcVars, crashes>>

data_storage_service ==
  /\ UNCHANGED crashes
  /\ \/ StorageQuiet /\ UNCHANGED svcVars
     \/ \E ok \in BOOLEAN : StorageTells(ok) /\ UserCallback(ok)

EventInterrupt == NvService \/ data_storage_service \/ data_services

(* The I2C interrupt.  The driver reports success whatever happened        *)
(* (24LC256.c:165).                                                        *)
Reported == TRUE

I2CInterrupt ==
  /\ UNCHANGED <<evVars, crashes>>
  /\ \/ CallerNotTold /\ UNCHANGED <<dsVars, svcVars>>
     \/ /\ CallerTold /\ StorageTold(Reported)
        /\ IF TellsUser(pcallerCallback, Reported) THEN UserCallback(Reported)
           ELSE UNCHANGED svcVars

AboveUnchanged == UNCHANGED <<dsVars, svcVars, evVars, crashes>>
BusStops == StopEnds /\ AboveUnchanged
ChipIsDone == PageProgrammed /\ AboveUnchanged

(* heartbeat_pulse, every 25 ms.                                           *)
Pulse ==
  /\ trigger_event({"nv", "storage", "services"})
  /\ UNCHANGED <<belowVars, svcVars, crashes>>

PowerFails ==
  /\ crashes < MaxCrashes
  /\ crashes' = crashes + 1
  /\ NvRestart
  /\ data_storage_status' = "START" /\ data_storage_handle' = 0
  /\ data_storage_user_callback' = "none" /\ assign' = "none"
  /\ eventPending' = {} /\ eventIndex' = 0
  /\ data_service_state' = "INIT" /\ data_services_table_index' = 1
  /\ data_services_do_all_areas' = FALSE
  /\ data_services_serialize_flags' = "startup"
  /\ UNCHANGED stored

Next ==
  \/ EventInterrupt \/ handleMessage \/ I2CInterrupt
  \/ BusStops \/ ChipIsDone \/ Pulse \/ PowerFails

Spec == Init /\ ee \in OwnEEPROMs /\ [][Next]_vars

(* Fairness: interrupts are served, the chip finishes what it does, the    *)
(* heartbeat beats.  Messages need not come, nor the power fail.           *)
Fairness ==
  /\ WF_vars(EventInterrupt)
  /\ WF_vars(I2CInterrupt /\ UNCHANGED faults)
  /\ WF_vars(BusStops) /\ WF_vars(ChipIsDone) /\ WF_vars(Pulse)

-----------------------------------------------------------------------------
(***************************************************************************)
(* Every variable has its type.                                            *)
(***************************************************************************)
TypeOK ==
  /\ NvTypeOK /\ DsTypeOK /\ EventsTypeOK
  /\ data_service_state \in ServiceStates
  /\ data_services_table_index \in 0 .. BlockCount + 1
  /\ data_services_do_all_areas \in BOOLEAN
  /\ data_services_serialize_flags \in Flags
  /\ stored \in [Blocks -> Contents]
  /\ crashes \in 0 .. MaxCrashes

(***************************************************************************)
(* What data_services_read_done makes the live parameters is a whole value *)
(* of the block it is about to load, whatever failed or was cut before     *)
(* (the checks of data_storage.c:304-317, and nobody else's use of the     *)
(* buffer between those checks and the copy).                              *)
(***************************************************************************)
LoadedIsWhole ==
  data_service_state = "READ_DONE" =>
    data_services_buffer \in {data_services_table_index} \X Values

(***************************************************************************)
(* While a request is with the driver nobody writes the buffers it is      *)
(* being sent from (the driver keeps only pointers, 24LC256.c:101-106),    *)
(* but for the entry of an area: nobody waits for a format, and the area   *)
(* that is created meanwhile is put into the empty table that is being     *)
(* sent, and taken out again when the driver refuses (data_storage.c:329,  *)
(* 338-351).                                                               *)
(***************************************************************************)
BuffersStable ==
  [][/\ MCP24LC256_state \in {"WRITING", "WAITING_WRITE"}
     /\ crashes' = crashes
     => CASE cell.what = "table" ->
               \/ UNCHANGED data_storage_table
               \/ /\ pcallerCallback = "format"
                  /\ \E areas \in {{}, {data_storage_handle}} :
                       data_storage_table' =
                         [data_storage_table EXCEPT !.areas = areas]
          [] cell.what = "data" -> data_services_buffer' = data_services_buffer
          [] OTHER -> data_storage_header' = data_storage_header]_vars

(***************************************************************************)
(* When the driver is STOPPED the bus is free and nobody's callback is     *)
(* left in it: a request it accepts is one the bus accepts too.            *)
(***************************************************************************)
StoppedMeansFree ==
  MCP24LC256_state = "STOPPED" => bus = "free" /\ pcallerCallback = "none"

(***************************************************************************)
(* While the services wait for a block, the storage is busy with that      *)
(* block on their behalf: no other request has replaced theirs.            *)
(***************************************************************************)
ReadStatuses  == {"READ", "READING_HEADER", "READ_HEADER_COMPLETE",
                  "READING_DATA", "READ_DATA_COMPLETE"}
WriteStatuses == {"WRITE", "WRITING_DATA", "WRITING_DATA_COMPLETE", "WRITING_HEADER"}

ServicesAwaitStorage ==
  /\ data_service_state = "READ_WAITING" =>
       /\ data_storage_status \in ReadStatuses
       /\ data_storage_user_callback = "read"
       /\ data_storage_handle = data_services_table_index
  /\ data_service_state = "WRITE_WAITING" =>
       /\ data_storage_status \in WriteStatuses
       /\ data_storage_user_callback = "write"
       /\ data_storage_handle = data_services_table_index

(***************************************************************************)
(* Unless a completion overtakes the assignment of the status it should    *)
(* end, a storage that waits for the driver is waited for by the driver,   *)
(* with the completion that moves it on.  A creation that is still to be   *)
(* asked for has the status already.                                       *)
(***************************************************************************)
CompletionDue ==
  assign # "AREA_CREATE" => \A s \in DOMAIN Requests :
    Requests[s].next # "none" /\ data_storage_status = Requests[s].next =>
      /\ pcallerCallback = Requests[s].callback
      /\ MCP24LC256_state # "STOPPED"

(***************************************************************************)
(* What the services were told is saved can be loaded from the EEPROM at   *)
(* any time, also after the power has failed in whatever came next: the    *)
(* table, the block's header and its data are whole and belong together.   *)
(***************************************************************************)
StoredDurable ==
  \A b \in Blocks : stored[b] # Junk =>
    /\ ee.table.preamble /\ ee.table.checksum /\ b \in ee.table.areas
    /\ ee.data[b] = stored[b]
    /\ GoodArea(ee.header[b], b, ee.data[b])

(***************************************************************************)
(* A block that was saved is loaded as it was saved.                       *)
(***************************************************************************)
LoadedIsStored ==
  data_service_state = "READ_DONE" =>
    LET b == data_services_table_index IN
    stored[b] = Junk \/ data_services_buffer = stored[b]

(***************************************************************************)
(* With a table in the EEPROM the services always come up, unless power    *)
(* fails while the table is being written and destroys it.                 *)
(***************************************************************************)
ValidTable == ee.table.preamble /\ ee.table.checksum

StartupCompletes ==
  data_service_state = "INIT" /\ ValidTable
    ~> data_service_state = "WAITING" \/ ~ValidTable

(***************************************************************************)
(* Every request that is taken comes to an end, and the services take      *)
(* requests again.                                                         *)
(***************************************************************************)
RequestsAnswered ==
  data_service_state \in {"READ", "WRITE"} ~> data_service_state = "WAITING"
=============================================================================
