--------------------------- MODULE NvMemoryProofs ---------------------------
(***************************************************************************)
(* Theorems about the EEPROM driver, the storage and the services on top   *)
(* of each other, whatever fails on the bus, whichever completion comes    *)
(* early and whenever the power fails.                                     *)
(***************************************************************************)
EXTENDS DataServices, WellFoundedInduction, TLAPS

(***************************************************************************)
(* StoppedMeansFree is not inductive: a failed driver that recovers is     *)
(* STOPPED with whatever callback it has.  It has none, because a driver   *)
(* only fails by telling its caller, or by a write that the bus refuses to *)
(* a STOPPED driver, which StoppedMeansFree excludes.                      *)
(***************************************************************************)
FailedHasNoCaller == MCP24LC256_state = "FAILED_TRX" => pcallerCallback = "none"

DriverInv == StoppedMeansFree /\ FailedHasNoCaller

(* The driver takes on what the storage service asks.                      *)
Accepts == RequestAccepted \/ CreationAccepted

(* Steps that leave the driver alone.                                      *)
LEMMA DriverUntouched ==
  ASSUME DriverInv, UNCHANGED <<bus, MCP24LC256_state, pcallerCallback>>
  PROVE  DriverInv'
BY DEF DriverInv, StoppedMeansFree, FailedHasNoCaller

(* A request that is accepted takes the bus and starts the driver; one     *)
(* that is refused changes nothing, as no STOPPED driver is refused.       *)
LEMMA StorageKeepsDriver ==
  ASSUME DriverInv, data_storage_service
  PROVE  DriverInv'
<1>1. CASE Accepts
  <2>1. MCP24LC256_state' \in {"READING", "WRITING"}
    BY <1>1 DEF Accepts, RequestAccepted, CreationAccepted, udb_nv_memory_read,
                udb_nv_memory_write
  <2> QED BY <2>1 DEF DriverInv, StoppedMeansFree, FailedHasNoCaller
<1>2. CASE TableRefused \/ RequestRefused \/ CreationRefused
  <2>1. ~NvAccepts /\ UNCHANGED bus
    BY <1>2 DEF TableRefused, RequestRefused, CreationRefused, NvRefuses
  <2>2. MCP24LC256_state # "STOPPED"
    BY <2>1 DEF NvAccepts, I2C1_CheckAvailable, DriverInv, StoppedMeansFree
  <2>3. UNCHANGED <<MCP24LC256_state, pcallerCallback>>
    BY <1>2, <2>2 DEF TableRefused, RequestRefused, CreationRefused, NvRefuses
  <2> QED BY <2>1, <2>3, DriverUntouched
<1>3. CASE NothingToAsk \/ NothingToClear \/ StorageReturns \/ CreationMade
  BY <1>3, DriverUntouched
     DEF NothingToAsk, NothingToClear, StorageReturns, CreationMade, nvVars, mcpVars
<1>4. ASSUME NEW ok \in BOOLEAN, ReadChecked(ok)
      PROVE  DriverInv'
  BY <1>4, DriverUntouched DEF ReadChecked, nvVars, mcpVars
<1> QED
  BY <1>1, <1>2, <1>3, <1>4
     DEF data_storage_service, StorageQuiet, StorageTells, Accepts

(* The driver stops when it has told its caller, or when it has recovered  *)
(* and had none; both leave the bus free.                                  *)
LEMMA InterruptKeepsDriver ==
  ASSUME DriverInv, I2CInterrupt
  PROVE  DriverInv'
<1>1. CASE ReadDone \/ WriteDone
  BY <1>1 DEF ReadDone, WriteDone, DriverInv, StoppedMeansFree, FailedHasNoCaller
<1>2. CASE TransferFailed
  BY <1>2 DEF TransferFailed, DriverInv, StoppedMeansFree, FailedHasNoCaller
<1>3. CASE PageSent \/ NextPage \/ StillProgramming
  BY <1>3 DEF PageSent, NextPage, StillProgramming, DriverInv, StoppedMeansFree,
              FailedHasNoCaller
<1>4. CASE Recovered
  BY <1>4 DEF Recovered, DriverInv, StoppedMeansFree, FailedHasNoCaller
<1> QED
  BY <1>1, <1>2, <1>3, <1>4 DEF I2CInterrupt, CallerTold, CallerNotTold

(* The services only use the storage.                                      *)
LEMMA ServicesKeepDriver ==
  ASSUME DriverInv, data_services \/ handleMessage
  PROVE  DriverInv'
<1>1. UNCHANGED nvVars
  <2>1. CASE handleMessage
    BY <2>1 DEF handleMessage
  <2>2. CASE data_services_init_all \/ InitCreate \/ InitLater \/ InitDone
    BY <2>2 DEF data_services_init_all, InitCreate, InitLater, InitDone, BelowUnchanged
  <2>3. CASE BeyondTable \/ data_services_read_done \/ NothingToDo
    BY <2>3 DEF BeyondTable, data_services_read_done, NothingToDo, BelowUnchanged
  <2>4. CASE StepOver \/ ReadBlock \/ WriteBlock
    BY <2>4 DEF StepOver, ReadBlock, WriteBlock
  <2> QED BY <2>1, <2>2, <2>3, <2>4 DEF data_services
<1> QED BY <1>1, DriverUntouched DEF nvVars, mcpVars

(* A driver that has just started is stopped and has the bus free.         *)
LEMMA DriverInvInit == Init => DriverInv
BY DEF Init, NvInit, DriverInv, StoppedMeansFree, FailedHasNoCaller

(* No step of any level disturbs what the driver knows of its bus and its  *)
(* caller.                                                                 *)
LEMMA DriverInvNext ==
  ASSUME DriverInv, [Next]_vars
  PROVE  DriverInv'
<1>1. CASE data_storage_service
  BY <1>1, StorageKeepsDriver
<1>2. CASE I2CInterrupt
  BY <1>2, InterruptKeepsDriver
<1>3. CASE data_services \/ handleMessage
  BY <1>3, ServicesKeepDriver
<1>4. CASE NvService
  BY <1>4 DEF NvService, nv_memory_service, DriverInv, StoppedMeansFree,
              FailedHasNoCaller
<1>5. CASE BusStops
  BY <1>5 DEF BusStops, StopEnds, DriverInv, StoppedMeansFree, FailedHasNoCaller
<1>6. CASE ChipIsDone
  BY <1>6, DriverUntouched DEF ChipIsDone, PageProgrammed, mcpVars
<1>7. CASE Pulse
  BY <1>7, DriverUntouched DEF Pulse, belowVars, nvVars, mcpVars
<1>8. CASE PowerFails
  BY <1>8 DEF PowerFails, NvRestart, DriverInv, StoppedMeansFree, FailedHasNoCaller
<1>9. CASE UNCHANGED vars
  BY <1>9, DriverUntouched DEF vars, belowVars, nvVars, mcpVars
<1> QED
  BY <1>1, <1>2, <1>3, <1>4, <1>5, <1>6, <1>7, <1>8, <1>9 DEF Next, EventInterrupt

(***************************************************************************)
(* A STOPPED driver has a free bus and no caller to tell (24LC256.c:77-192 *)
(* with I2C1.c:114-123): what it accepts, the bus accepts.                 *)
(***************************************************************************)
THEOREM StoppedCorrect == Spec => []StoppedMeansFree
<1>1. Init => DriverInv
  BY DriverInvInit
<1>2. DriverInv /\ [Next]_vars => DriverInv'
  BY DriverInvNext
<1>3. DriverInv => StoppedMeansFree
  BY DEF DriverInv
<1> QED
  BY <1>1, <1>2, <1>3, PTL DEF Spec

-----------------------------------------------------------------------------
(***************************************************************************)
(* Between storage and driver: which completion the driver has, what it    *)
(* transfers meanwhile and where the storage is.                           *)
(***************************************************************************)
Reads  == {"init", "read_header", "read_data"}
Writes == {"format", "table", "write", "write_header", "clear"}

(* A completion is in a driver that works on its request.                  *)
TransferInv ==
  /\ pcallerCallback # "none" =>
       MCP24LC256_state \in {"READING", "WRITING", "WAITING_WRITE"}
  /\ MCP24LC256_state = "READING" => pcallerCallback \in Reads
  /\ MCP24LC256_state \in {"WRITING", "WAITING_WRITE"} => pcallerCallback \in Writes
  /\ pcallerCallback \in {"init", "format", "table"} => cell = TheTable
  /\ pcallerCallback \in {"write", "read_data"} =>
       cell = Cell("data", data_storage_handle)
  /\ pcallerCallback \in {"write_header", "read_header"} =>
       cell = Cell("header", data_storage_handle)
  /\ pcallerCallback = "clear" => cell = Cell("mark", data_storage_handle)
  /\ programming => MCP24LC256_state = "WAITING_WRITE"

(* The handle is that of a block except before the first request.          *)
HandleKnown ==
  \/ data_storage_status \notin {"START", "INIT", "CHECK_TABLE", "WAITING"}
  \/ pcallerCallback \notin {"none", "init", "format"}
  \/ assign \notin {"none", "INIT"}
  => data_storage_handle \in Blocks

(* A completion that is to come finds the storage where it asked for it,   *)
(* with the status it then waits in still to be assigned, or in that       *)
(* status.  Formatting is not waited for: the storage goes on, and can be  *)
(* refused only; its end may come while an area is made.                   *)
Waits(asking, awaiting) ==
  \/ data_storage_status = asking /\ assign = awaiting
  \/ data_storage_status = awaiting /\ assign = "none"

(* For each completion, where the storage waits for it.                    *)
CallerInv ==
  /\ pcallerCallback = "init" => Waits("START", "INIT")
  /\ pcallerCallback = "format" =>
       /\ assign \in {"none", "AREA_CREATE"}
       /\ data_storage_status \in
            {"CHECK_TABLE", "WAITING", "AREA_CREATE", "AREA_CREATING", "AREA_CLEAR"}
  /\ pcallerCallback = "table" =>
       \/ assign = "none" /\ data_storage_status = "AREA_CREATING"
       \/ /\ assign = "AREA_CREATING"
          /\ data_storage_status \in {"AREA_CREATING", "WAITING"}
  /\ pcallerCallback = "write" => Waits("WRITE", "WRITING_DATA")
  /\ pcallerCallback = "write_header" => Waits("WRITING_DATA_COMPLETE", "WRITING_HEADER")
  /\ pcallerCallback = "read_header" => Waits("READ", "READING_HEADER")
  /\ pcallerCallback = "read_data" => Waits("READ_HEADER_COMPLETE", "READING_DATA")
  /\ pcallerCallback = "clear" => Waits("AREA_CLEAR", "AREA_CLEARING")

(* The status to be assigned: before, or after the completion overtook it. *)
LateInv ==
  /\ assign = "INIT" => data_storage_status \in {"START", "CHECK_TABLE"}
  /\ assign = "WRITING_DATA" => data_storage_status \in {"WRITE", "WRITING_DATA_COMPLETE"}
  /\ assign = "WRITING_HEADER" =>
       data_storage_status \in {"WRITING_DATA_COMPLETE", "WAITING"}
  /\ assign = "READING_HEADER" => data_storage_status \in {"READ", "READ_HEADER_COMPLETE"}
  /\ assign = "READING_DATA" =>
       data_storage_status \in {"READ_HEADER_COMPLETE", "READ_DATA_COMPLETE"}
  /\ assign \in {"AREA_CREATE", "AREA_CREATING"} =>
       data_storage_status \in {"AREA_CREATING", "WAITING"}
  /\ assign = "AREA_CLEARING" => data_storage_status \in {"AREA_CLEAR", "WAITING"}

(* The areas of the table in the RAM, but for one that is being made.      *)
Listed ==
  IF assign = "AREA_CREATE" THEN data_storage_table.areas \ {data_storage_handle}
  ELSE data_storage_table.areas

(* The table that is written by formatting is a good one without areas,    *)
(* but for one that is being made.                                         *)
FormatInv ==
  pcallerCallback = "format" => data_storage_check_table /\ Listed = {}

(* All that is known between storage and driver.                           *)
StorageInv ==
  DriverInv /\ TransferInv /\ HandleKnown /\ CallerInv /\ LateInv /\ FormatInv

(* Before the storage has asked for the table nothing is owed to it.       *)
LEMMA StorageInvInit == Init => StorageInv
BY DriverInvInit
   DEF Init, NvInit, DsInit, StorageInv, TransferInv, HandleKnown, CallerInv, LateInv,
       FormatInv, Reads, Writes

(* What an accepted request does to storage and driver.                    *)
LEMMA AcceptedEffect ==
  ASSUME StorageInv, RequestAccepted
  PROVE  LET r == Requests[data_storage_status] IN
         /\ data_storage_status \in Asking
         /\ MCP24LC256_state = "STOPPED" /\ pcallerCallback = "none" /\ ~programming
         /\ MCP24LC256_state' = IF r.write THEN "WRITING" ELSE "READING"
         /\ pcallerCallback' = r.callback
         /\ cell' = r.cell
         /\ assign' = r.next
         /\ UNCHANGED <<chipVars, data_storage_status, data_storage_handle,
                        data_storage_user_callback>>
<1>1. data_storage_status \in Asking /\ MCP24LC256_state = "STOPPED"
  BY DEF RequestAccepted, Asks, NvAccepts
<1>2. pcallerCallback = "none" /\ ~programming
  BY <1>1 DEF StorageInv, DriverInv, StoppedMeansFree, TransferInv
<1> QED
  BY <1>1, <1>2 DEF RequestAccepted, udb_nv_memory_read, udb_nv_memory_write

(* An accepted request puts the storage where its completion will look for *)
(* it.                                                                     *)
LEMMA AcceptedKeepsStorage ==
  ASSUME StorageInv, RequestAccepted
  PROVE  TransferInv' /\ HandleKnown' /\ CallerInv' /\ LateInv' /\ FormatInv'
<1> USE AcceptedEffect DEF StorageInv, Requests, Request, Asking
<1>1. TransferInv'
  BY DEF TransferInv, Reads, Writes, chipVars
<1>2. HandleKnown'
  BY DEF HandleKnown
<1>3. CallerInv'
  BY DEF CallerInv, Waits
<1>4. LateInv'
  BY DEF LateInv
<1>5. FormatInv'
  <2>1. SUFFICES ASSUME data_storage_status = "CHECK_TABLE"
                 PROVE  FormatInv'
    BY DEF FormatInv
  <2>2. data_storage_table' = [preamble |-> TRUE, areas |-> {}, checksum |-> TRUE]
    BY <2>1 DEF RequestAccepted, Prepare
  <2> QED BY <2>1, <2>2 DEF FormatInv, data_storage_check_table, Listed
<1> QED BY <1>1, <1>2, <1>3, <1>4, <1>5

(* The same for an area that was made, which the driver takes on.          *)
LEMMA CreationEffect ==
  ASSUME StorageInv, CreationAccepted
  PROVE  /\ assign = "AREA_CREATE" /\ assign' = "AREA_CREATING"
         /\ MCP24LC256_state = "STOPPED" /\ MCP24LC256_state' = "WRITING"
         /\ pcallerCallback = "none" /\ pcallerCallback' = "table"
         /\ ~programming /\ cell' = TheTable /\ pages' = Pages(TheTable) - 1
         /\ data_storage_status \in {"AREA_CREATING", "WAITING"}
         /\ data_storage_handle \in Blocks
         /\ UNCHANGED <<chipVars, ramVars, data_storage_status, data_storage_handle,
                        data_storage_user_callback, evVars>>
<1>1. assign = "AREA_CREATE" /\ MCP24LC256_state = "STOPPED"
  BY DEF CreationAccepted, NvAccepts
<1>2. pcallerCallback = "none" /\ ~programming
  BY <1>1 DEF StorageInv, DriverInv, StoppedMeansFree, TransferInv
<1>3. data_storage_status \in {"AREA_CREATING", "WAITING"} /\ data_storage_handle \in Blocks
  BY <1>1 DEF StorageInv, LateInv, HandleKnown
<1> QED
  BY <1>1, <1>2, <1>3 DEF CreationAccepted, udb_nv_memory_write, Requests, Request

(* A creation that is accepted is waited for at once.                      *)
LEMMA CreationKeepsStorage ==
  ASSUME StorageInv, CreationAccepted
  PROVE  TransferInv' /\ HandleKnown' /\ CallerInv' /\ LateInv' /\ FormatInv'
<1> USE CreationEffect DEF StorageInv
<1>1. TransferInv'
  BY DEF TransferInv, Reads, Writes, chipVars
<1>2. HandleKnown' /\ CallerInv'
  BY DEF HandleKnown, CallerInv
<1>3. LateInv' /\ FormatInv'
  BY DEF LateInv, FormatInv
<1> QED BY <1>1, <1>2, <1>3

(* A request is refused by a driver that is not STOPPED, and leaves no     *)
(* trace in it.                                                            *)
LEMMA RefusedEffect ==
  ASSUME StorageInv, TableRefused \/ RequestRefused \/ CreationRefused
  PROVE  MCP24LC256_state # "STOPPED" /\ UNCHANGED nvVars
<1>1. ~NvAccepts
  BY DEF TableRefused, RequestRefused, CreationRefused, NvRefuses
<1>2. MCP24LC256_state # "STOPPED"
  BY <1>1 DEF NvAccepts, I2C1_CheckAvailable, StorageInv, DriverInv, StoppedMeansFree
<1> QED
  BY <1>2 DEF TableRefused, RequestRefused, CreationRefused, NvRefuses, nvVars, mcpVars

(* The service when it asks for nothing: it goes back to START or WAITING, *)
(* for which nobody waits then, or assigns the status that is due, or it   *)
(* makes an area, or takes it back.                                        *)
LEMMA ServiceEffect ==
  ASSUME StorageInv, data_storage_service, ~Accepts
  PROVE  /\ UNCHANGED <<nvVars, data_storage_handle, data_storage_user_callback>>
         /\ \/ /\ assign \notin {"none", "AREA_CREATE"} /\ assign' = "none"
               /\ data_storage_status' = assign
            \/ /\ assign = "none" /\ assign' = "none"
               /\ data_storage_status' = data_storage_status
            \/ /\ assign = "none" /\ assign' = "none"
               /\ data_storage_status = "START" /\ data_storage_status' = "START"
            \/ /\ assign = "none" /\ assign' = "none"
               /\ data_storage_status = "CHECK_TABLE"
               /\ data_storage_status' \in {"START", "WAITING"}
               /\ data_storage_status' = "START" <=> ~data_storage_check_table
            \/ /\ assign = "none" /\ assign' = "none"
               /\ data_storage_status \in
                    (Asking \ {"START", "CHECK_TABLE"}) \cup {"READ_DATA_COMPLETE"}
               /\ data_storage_status' = "WAITING"
            \/ /\ assign = "none" /\ assign' = "AREA_CREATE"
               /\ data_storage_status = "AREA_CREATE"
               /\ data_storage_status' = "AREA_CREATING"
            \/ /\ assign = "AREA_CREATE" /\ assign' = "none"
               /\ data_storage_status' = "WAITING"
<1>1. CASE StorageReturns
  BY <1>1 DEF StorageReturns, Awaiting
<1>2. CASE assign = "none" /\ TableRefused
  BY <1>2, RefusedEffect DEF TableRefused, Asks
<1>3. CASE assign = "none" /\ NothingToAsk
  BY <1>3 DEF NothingToAsk, Asks, Asking
<1>4. CASE assign = "none" /\ RequestRefused
  BY <1>4, RefusedEffect DEF RequestRefused, Asks
<1>5. CASE assign = "none" /\ NothingToClear
  BY <1>5 DEF NothingToClear, Asking
<1>6. ASSUME NEW ok \in BOOLEAN, assign = "none", ReadChecked(ok)
      PROVE  /\ UNCHANGED <<nvVars, data_storage_handle, data_storage_user_callback>>
             /\ assign' = "none" /\ data_storage_status = "READ_DATA_COMPLETE"
             /\ data_storage_status' = "WAITING"
  BY <1>6 DEF ReadChecked
<1>7. CASE assign = "none" /\ CreationMade
  BY <1>7 DEF CreationMade
<1>8. CASE CreationRefused
  BY <1>8, RefusedEffect DEF CreationRefused
<1> QED
  BY <1>1, <1>2, <1>3, <1>4, <1>5, <1>6, <1>7, <1>8
     DEF data_storage_service, StorageQuiet, StorageTells, Accepts

(* What it does to its copy of the table: a bad one is made new, a good    *)
(* one has an area put in, and taken out again if its creation is refused. *)
LEMMA TableEffect ==
  ASSUME StorageInv, data_storage_service, ~Accepts
  PROVE  \/ /\ UNCHANGED data_storage_table
            /\ assign # "AREA_CREATE" /\ assign' # "AREA_CREATE"
         \/ /\ data_storage_status \in {"START", "CHECK_TABLE"}
            /\ data_storage_status' = "START"
            /\ data_storage_status = "CHECK_TABLE" => ~data_storage_check_table
         \/ /\ assign = "none" /\ assign' = "AREA_CREATE"
            /\ data_storage_status = "AREA_CREATE"
            /\ data_storage_status' = "AREA_CREATING"
            /\ data_storage_table' =
                 [data_storage_table EXCEPT !.areas = @ \cup {data_storage_handle},
                                            !.checksum = TRUE]
         \/ /\ assign = "AREA_CREATE" /\ assign' = "none"
            /\ data_storage_status' = "WAITING"
            /\ data_storage_table' =
                 [data_storage_table EXCEPT !.areas = @ \ {data_storage_handle}]
<1>1. CASE assign = "none" /\ TableRefused
  BY <1>1 DEF TableRefused, Asks
<1>2. CASE assign = "none" /\ RequestRefused
  BY <1>2 DEF RequestRefused, Prepare
<1>5. CASE assign = "none" /\ CreationMade
  BY <1>5 DEF CreationMade
<1>6. CASE CreationRefused
  BY <1>6 DEF CreationRefused
<1>3. CASE StorageReturns \/ (assign = "none" /\ (NothingToAsk \/ NothingToClear))
  BY <1>3 DEF StorageReturns, NothingToAsk, NothingToClear, ramVars, Awaiting
<1>4. ASSUME NEW ok \in BOOLEAN, assign = "none", ReadChecked(ok)
      PROVE  UNCHANGED <<data_storage_table, assign>>
  BY <1>4 DEF ReadChecked, ramVars
<1> QED
  BY <1>1, <1>2, <1>3, <1>4, <1>5, <1>6
     DEF data_storage_service, StorageQuiet, StorageTells, Accepts

(* Every run of the storage service, whether it asks, is refused, tells or *)
(* assigns the status that is due.                                         *)
LEMMA ServiceKeepsStorage ==
  ASSUME TypeOK, StorageInv, data_storage_service
  PROVE  TransferInv' /\ HandleKnown' /\ CallerInv' /\ LateInv' /\ FormatInv'
<1>1. CASE Accepts
  BY <1>1, AcceptedKeepsStorage, CreationKeepsStorage DEF Accepts
<1>2. CASE ~Accepts
  <2> USE <1>2, ServiceEffect DEF StorageInv, nvVars, mcpVars, chipVars
  <2>1. TransferInv'
    BY DEF TransferInv
  <2>2. HandleKnown'
    BY DEF HandleKnown, Asking
  <2>3. CallerInv'
    BY DEF CallerInv, Waits, LateInv, FormatInv, Asking
  <2>4. LateInv'
    BY DEF LateInv
  <2>5. FormatInv'
    <3>1. SUFFICES ASSUME pcallerCallback = "format"
                   PROVE  data_storage_check_table' /\ Listed' = {}
      BY DEF FormatInv
    <3>2. data_storage_table \in Tables
      BY DEF TypeOK, NvTypeOK
    <3>3. /\ data_storage_check_table /\ Listed = {}
          /\ data_storage_status # "START" /\ assign \in {"none", "AREA_CREATE"}
      BY <3>1 DEF FormatInv, CallerInv
    <3>4. CASE /\ UNCHANGED data_storage_table
               /\ assign # "AREA_CREATE" /\ assign' # "AREA_CREATE"
      BY <3>3, <3>4 DEF data_storage_check_table, Listed
    <3>5. CASE /\ assign = "none" /\ assign' = "AREA_CREATE"
               /\ data_storage_table' =
                    [data_storage_table EXCEPT !.areas = @ \cup {data_storage_handle},
                                               !.checksum = TRUE]
      BY <3>2, <3>3, <3>5 DEF data_storage_check_table, Listed, Tables
    <3>6. CASE /\ assign = "AREA_CREATE" /\ assign' = "none"
               /\ data_storage_table' =
                    [data_storage_table EXCEPT !.areas = @ \ {data_storage_handle}]
      BY <3>2, <3>3, <3>6 DEF data_storage_check_table, Listed, Tables
    <3> QED BY <3>3, <3>4, <3>5, <3>6, TableEffect
  <2> QED BY <2>1, <2>2, <2>3, <2>4, <2>5
<1> QED BY <1>1, <1>2

(* The end of a transfer, for which the driver's caller is not told ...    *)
LEMMA NotToldKeepsStorage ==
  ASSUME StorageInv, CallerNotTold, UNCHANGED dsVars
  PROVE  TransferInv' /\ HandleKnown' /\ CallerInv' /\ LateInv' /\ FormatInv'
<1>1. UNCHANGED <<pcallerCallback, cell, data_storage_table>>
  BY DEF CallerNotTold, PageSent, NextPage, Recovered, StillProgramming, ramVars
<1>2. TransferInv'
  BY DEF CallerNotTold, PageSent, NextPage, Recovered, StillProgramming, chipVars,
         dsVars, StorageInv, TransferInv
<1>3. HandleKnown' /\ CallerInv' /\ LateInv' /\ FormatInv'
  BY <1>1 DEF StorageInv, dsVars, HandleKnown, CallerInv, LateInv, FormatInv, Waits,
              data_storage_check_table, Listed
<1> QED BY <1>2, <1>3

(* ... and for which it is: nobody is to be told again.                    *)
LEMMA ToldEffect ==
  ASSUME StorageInv, CallerTold
  PROVE  /\ pcallerCallback' = "none" /\ cell' = cell /\ ~programming'
         /\ MCP24LC256_state' \in {"STOPPED", "FAILED_TRX"}
BY DEF CallerTold, ReadDone, WriteDone, TransferFailed, chipVars, StorageInv,
       TransferInv

(* The completion moves the storage on; a status still to be assigned is   *)
(* then a late one.                                                        *)
LEMMA ToldKeepsStorage ==
  ASSUME StorageInv, CallerTold, StorageTold(Reported)
  PROVE  TransferInv' /\ HandleKnown' /\ CallerInv' /\ LateInv' /\ FormatInv'
<1> USE DEF StorageInv
<1>1. /\ data_storage_status' = StatusAfter(pcallerCallback, TRUE)
      /\ UNCHANGED <<data_storage_handle, assign>>
  BY DEF StorageTold, Reported
<1>2. TransferInv' /\ CallerInv' /\ FormatInv'
  BY ToldEffect DEF TransferInv, CallerInv, FormatInv
<1>3. pcallerCallback \in Reads \cup Writes \cup {"none"}
  BY DEF CallerTold, ReadDone, WriteDone, TransferFailed, TransferInv,
         FailedHasNoCaller, DriverInv
<1>4. HandleKnown'
  BY <1>1, <1>3, ToldEffect DEF HandleKnown, StatusAfter, Reads, Writes
<1>5. LateInv'
  BY <1>1, <1>3 DEF LateInv, CallerInv, Waits, StatusAfter, Reads, Writes
<1> QED BY <1>2, <1>4, <1>5

(* The services, and the handler of a message, ask the storage for at most *)
(* one thing, and touch nothing else of it and below.                      *)
Takings ==
  {<<"AREA_CREATE", "init_all">>, <<"READ", "read">>, <<"WRITE", "write">>,
   <<"AREA_CLEAR", "preflight">>}

(* What the services and messages ask for, and that they ask for an area   *)
(* that exists.                                                            *)
LEMMA ServicesEffect ==
  ASSUME data_services \/ handleMessage
  PROVE  /\ assign = "none"
         /\ UNCHANGED <<nvVars, data_storage_table, data_storage_header, crashes>>
         /\ \/ UNCHANGED dsVars
            \/ \E t \in Takings, b \in Blocks :
                 /\ StorageTakes(t[1], b, t[2])
                 /\ t[1] \in {"READ", "WRITE"} => AreaExists(b)
<1>1. CASE handleMessage
  <2>1. CASE ClearMessage
    BY <1>1, <2>1 DEF handleMessage, ClearMessage, storage_clear_area, ramVars, Takings
  <2>2. CASE ServiceMessage \/ OtherMessage
    BY <1>1, <2>2 DEF handleMessage, ServiceMessage, OtherMessage, data_services_all,
                      data_services_specific, Take, ramVars
  <2> QED BY <1>1, <2>1, <2>2 DEF handleMessage
<1>2. CASE data_services
  <2>1. CASE InitCreate
    BY <1>2, <2>1 DEF data_services, InitCreate, storage_create_area, ramVars, Takings
  <2>2. CASE ReadBlock
    BY <1>2, <2>2 DEF data_services, ReadBlock, storage_read, InTable, ramVars, Takings
  <2>3. CASE WriteBlock
    BY <1>2, <2>3 DEF data_services, WriteBlock, storage_write, InTable, Takings
  <2>4. CASE data_services_init_all \/ InitLater \/ InitDone \/ BeyondTable
    BY <1>2, <2>4 DEF data_services, data_services_init_all, InitLater, InitDone,
                      BeyondTable, BelowUnchanged, ramVars
  <2>5. CASE StepOver \/ data_services_read_done \/ NothingToDo
    BY <1>2, <2>5 DEF data_services, StepOver, data_services_read_done, NothingToDo,
                      BelowUnchanged, ramVars
  <2> QED BY <1>2, <2>1, <2>2, <2>3, <2>4, <2>5 DEF data_services
<1> QED BY <1>1, <1>2

(* They are taken on by a storage that waits only, to which nobody owes a  *)
(* completion.                                                             *)
LEMMA ServicesKeepStorage ==
  ASSUME StorageInv, data_services \/ handleMessage
  PROVE  TransferInv' /\ HandleKnown' /\ CallerInv' /\ LateInv' /\ FormatInv'
<1> USE DEF StorageInv, nvVars, mcpVars, chipVars
<1>1. CASE UNCHANGED dsVars
  BY <1>1, ServicesEffect
     DEF dsVars, TransferInv, HandleKnown, CallerInv, LateInv, FormatInv, Waits,
         data_storage_check_table, Listed
<1>2. ASSUME NEW t \in Takings, NEW b \in Blocks, StorageTakes(t[1], b, t[2]),
             t[1] \in {"READ", "WRITE"} => AreaExists(b)
      PROVE  TransferInv' /\ HandleKnown' /\ CallerInv' /\ LateInv' /\ FormatInv'
  <2>1. /\ data_storage_status = "WAITING" /\ assign = "none" /\ assign' = "none"
        /\ data_storage_status' \in {"AREA_CREATE", "READ", "WRITE", "AREA_CLEAR"}
        /\ data_storage_handle' \in Blocks
        /\ data_storage_status' \in {"READ", "WRITE"} => data_storage_table.areas # {}
    BY <1>2, ServicesEffect DEF StorageTakes, Takings, AreaExists
  <2>2. pcallerCallback \in {"none", "format"}
    BY <2>1 DEF TransferInv, CallerInv, Waits, Reads, Writes
  <2>3. TransferInv' /\ FormatInv'
    BY <2>1, <2>2, ServicesEffect
       DEF TransferInv, FormatInv, data_storage_check_table, Listed
  <2>4. HandleKnown' /\ CallerInv' /\ LateInv'
    BY <2>1, <2>2, ServicesEffect
       DEF HandleKnown, CallerInv, LateInv, FormatInv, Listed
  <2> QED BY <2>3, <2>4
<1> QED BY <1>1, <1>2, ServicesEffect

(* What leaves the storage alone, and the driver but for its bus.          *)
LEMMA StorageUntouched ==
  ASSUME StorageInv, programming' => programming,
         UNCHANGED <<dsVars, MCP24LC256_state, pcallerCallback, cell, data_storage_table>>
  PROVE  TransferInv' /\ HandleKnown' /\ CallerInv' /\ LateInv' /\ FormatInv'
BY DEF StorageInv, dsVars, TransferInv, HandleKnown, CallerInv, LateInv, FormatInv,
       Waits, data_storage_check_table, Listed

(* Every step of the system keeps what is known between storage and        *)
(* driver.                                                                 *)
LEMMA StorageInvNext ==
  ASSUME TypeOK, StorageInv, [Next]_vars
  PROVE  StorageInv'
<1>0. DriverInv'
  BY DriverInvNext DEF StorageInv
<1>1. CASE data_storage_service
  BY <1>0, <1>1, ServiceKeepsStorage DEF StorageInv
<1>2. CASE I2CInterrupt
  BY <1>0, <1>2, NotToldKeepsStorage, ToldKeepsStorage DEF I2CInterrupt, StorageInv
<1>3. CASE data_services \/ handleMessage
  BY <1>0, <1>3, ServicesKeepStorage DEF StorageInv
<1>4. CASE NvService \/ BusStops \/ ChipIsDone \/ Pulse \/ UNCHANGED vars
  <2>1. /\ programming' => programming
        /\ UNCHANGED <<dsVars, MCP24LC256_state, pcallerCallback, cell, data_storage_table>>
    BY <1>4 DEF NvService, nv_memory_service, BusStops, StopEnds, ChipIsDone,
                PageProgrammed, Pulse, vars, belowVars, nvVars, mcpVars, chipVars,
                ramVars, AboveUnchanged
  <2> QED BY <1>0, <2>1, StorageUntouched DEF StorageInv
<1>5. CASE PowerFails
  <2>1. TransferInv' /\ HandleKnown' /\ CallerInv' /\ LateInv' /\ FormatInv'
    BY <1>5 DEF PowerFails, NvRestart, TransferInv, HandleKnown, CallerInv, LateInv,
                FormatInv, Reads, Writes
  <2> QED BY <1>0, <2>1 DEF StorageInv
<1> QED
  BY <1>1, <1>2, <1>3, <1>4, <1>5 DEF Next, EventInterrupt

-----------------------------------------------------------------------------
(***************************************************************************)
(* Between services and storage: what the storage does for the services,   *)
(* and that the services wait for it.                                      *)
(***************************************************************************)
ForServices ==
  data_storage_handle = data_services_table_index /\ data_storage_handle \in Blocks

(* A load is one that the services wait for, of an area that exists.       *)
ReadInv ==
  data_storage_status \in ReadStatuses =>
    /\ data_storage_user_callback = "read" /\ data_service_state = "READ_WAITING"
    /\ ForServices /\ AreaExists(data_storage_handle)

(* A header that is written and nobody has to be told of is one of which   *)
(* the services have been told: its completion came early.                 *)
WriteInv ==
  \/ data_storage_status \in WriteStatuses \ {"WRITING_HEADER"}
  \/ pcallerCallback = "write_header"
  => /\ data_storage_user_callback = "write" /\ data_service_state = "WRITE_WAITING"
     /\ ForServices /\ AreaExists(data_storage_handle)
     /\ data_services_buffer \in {data_storage_handle} \X Values

(* An area is made for the services while they start; it is in the table   *)
(* from before the write of the table is asked for.                        *)
CreateInv ==
  /\ \/ data_storage_status = "AREA_CREATE"
     \/ assign = "AREA_CREATE"
     \/ pcallerCallback = "table"
     => /\ data_storage_user_callback = "init_all" /\ data_service_state = "INIT_WAIT"
        /\ ForServices
  /\ assign = "AREA_CREATE" \/ pcallerCallback = "table" => AreaExists(data_storage_handle)

(* Areas are cleared for messages only.                                    *)
ClearInv ==
  data_storage_status = "AREA_CLEAR" \/ pcallerCallback = "clear" =>
    data_storage_user_callback = "preflight"

(* The services work on a block of the table.                              *)
IndexInv ==
  data_service_state \in {"INIT_WAIT", "READ_DONE"} => data_services_table_index \in Blocks

(* The table in the RAM: once the storage has started it is good, and the  *)
(* services have found or made an area for each block they have passed.    *)
Starting == data_service_state \in {"INIT", "INIT_ALL", "INIT_WAIT"}

(* The storage has started once the services have passed a block, and what *)
(* they passed has its area.                                               *)
TableInv ==
  /\ storage_services_started => data_storage_check_table
  /\ pcallerCallback = "format" => Starting
  /\ data_service_state = "INIT" => data_services_table_index = 1
  /\ data_service_state \in {"INIT_ALL", "INIT_WAIT"} =>
       /\ data_services_table_index # 0
       /\ data_services_table_index > 1 => storage_services_started
       /\ \A b \in Blocks : b < data_services_table_index => AreaExists(b)
  /\ ~Starting => storage_services_started /\ data_storage_table.areas = Blocks

(* All that is known between services and storage.                         *)
ServicesInv ==
  /\ ReadInv /\ WriteInv /\ CreateInv /\ ClearInv /\ IndexInv /\ TableInv
  /\ ServicesAwaitStorage

(* The inductive invariant of storage, services and driver.                *)
NvInv == TypeOK /\ StorageInv /\ ServicesInv

(* Services that start have asked for nothing yet.                         *)
LEMMA ServicesInvInit == Init => ServicesInv
BY NvMemoryAssumption
   DEF Init, NvInit, DsInit, SvcInit, ServicesInv, ReadInv, WriteInv, CreateInv,
       ClearInv, IndexInv, TableInv, Starting, ServicesAwaitStorage, ReadStatuses,
       WriteStatuses, storage_services_started, Blocks

(* What the services know when their callback is called, one by one.       *)
LEMMA Callbacks ==
  ASSUME NEW ok \in BOOLEAN, UserCallback(ok)
  PROVE  /\ data_storage_user_callback = "init_all" => data_services_init_all_callback(ok)
         /\ data_storage_user_callback = "read" => data_services_read_callback(ok)
         /\ data_storage_user_callback = "write" => data_services_write_callback(ok)
         /\ data_storage_user_callback \notin {"init_all", "read", "write"} =>
              UNCHANGED svcVars
BY DEF UserCallback

(* An accepted request is still the one the services wait for.             *)
LEMMA AcceptedKeepsServices ==
  ASSUME NvInv, RequestAccepted, UNCHANGED svcVars
  PROVE  ServicesInv'
<1> USE AcceptedEffect DEF NvInv, Requests, Request, Asking
<1>1. UNCHANGED <<data_service_state, data_services_table_index, data_services_buffer>>
  BY DEF svcVars, reqVars, RequestAccepted, Prepare
<1>2. data_storage_table \in Tables
  BY DEF TypeOK, NvTypeOK
<1>3. data_storage_table' =
        CASE data_storage_status = "START" ->
              [data_storage_table EXCEPT !.preamble = FALSE, !.checksum = FALSE]
         [] data_storage_status = "CHECK_TABLE" ->
              [preamble |-> TRUE, areas |-> {}, checksum |-> TRUE]
         [] OTHER -> data_storage_table
  BY DEF RequestAccepted, Prepare
<1>4. ReadInv' /\ ServicesAwaitStorage'
  BY <1>1, <1>2, <1>3 DEF ServicesInv, ReadInv, ServicesAwaitStorage, ReadStatuses,
                          WriteStatuses, ForServices, AreaExists
<1>5. WriteInv' /\ ClearInv' /\ IndexInv'
  BY <1>1, <1>2, <1>3 DEF ServicesInv, WriteInv, WriteStatuses, ForServices, AreaExists,
                          ClearInv, IndexInv
<1>6. CreateInv'
  BY <1>1, <1>2, <1>3 DEF ServicesInv, CreateInv, ForServices, AreaExists, Tables
<1>7. TableInv'
  <2>1. data_services_table_index \in Nat
    BY NvMemoryAssumption DEF TypeOK
  <2>2. CASE data_storage_status \in {"START", "CHECK_TABLE"}
    <3>1. Starting /\ ~(data_services_table_index > 1)
          /\ ~storage_services_started /\ ~storage_services_started'
      BY <2>1, <2>2 DEF ServicesInv, TableInv, Starting, storage_services_started
    <3>2. \A b \in Blocks : ~(b < data_services_table_index)
      BY <2>1, <3>1, NvMemoryAssumption DEF Blocks
    <3> QED
      BY <1>1, <3>1, <3>2 DEF ServicesInv, TableInv, Starting
  <2>3. CASE data_storage_status \notin {"START", "CHECK_TABLE"}
    <3>1. UNCHANGED <<data_storage_table, data_storage_status>>
      BY <1>3, <2>3
    <3>2. pcallerCallback' # "format"
      BY <2>3
    <3> QED
      BY <1>1, <3>1, <3>2 DEF ServicesInv, TableInv, Starting, AreaExists,
                              storage_services_started, data_storage_check_table
  <2> QED BY <2>2, <2>3
<1> QED BY <1>4, <1>5, <1>6, <1>7 DEF ServicesInv

(* An area that is made, and one whose creation is accepted, is one that   *)
(* the services wait for.                                                  *)
LEMMA CreationKeepsServices ==
  ASSUME NvInv, (assign = "none" /\ CreationMade) \/ CreationAccepted, UNCHANGED svcVars
  PROVE  ServicesInv'
<1> USE DEF NvInv
<1>1. /\ data_service_state = "INIT_WAIT" /\ data_storage_user_callback = "init_all"
      /\ ForServices
      /\ pcallerCallback \in {"none", "format"}
      /\ UNCHANGED <<data_service_state, data_services_table_index, data_storage_handle,
                     data_storage_user_callback, data_services_buffer>>
  <2>1. CASE assign = "none" /\ CreationMade
    BY <2>1 DEF CreationMade, ServicesInv, CreateInv, StorageInv, TransferInv, CallerInv,
                Waits, Reads, Writes, svcVars, reqVars
  <2>2. CASE CreationAccepted
    BY <2>2, CreationEffect DEF ServicesInv, CreateInv, svcVars, reqVars, ramVars
  <2> QED BY <2>1, <2>2
<1>2. /\ data_storage_status' \in {"AREA_CREATING", "WAITING"}
      /\ pcallerCallback' \in {"none", "format", "table"}
      /\ pcallerCallback' = "format" => pcallerCallback = "format"
  <2>1. CASE assign = "none" /\ CreationMade
    BY <1>1, <2>1 DEF CreationMade, nvVars, mcpVars
  <2>2. CASE CreationAccepted
    BY <2>2, CreationEffect
  <2> QED BY <2>1, <2>2
<1>3. ReadInv' /\ WriteInv' /\ ClearInv' /\ IndexInv' /\ ServicesAwaitStorage'
  BY <1>1, <1>2 DEF ReadInv, WriteInv, ClearInv, IndexInv, ServicesAwaitStorage,
                    ReadStatuses, WriteStatuses, ForServices
<1>4. storage_services_started /\ storage_services_started'
  BY <1>2, CreationEffect DEF storage_services_started, CreationMade
<1>5. /\ AreaExists(data_storage_handle)'
      /\ \A b \in Blocks : AreaExists(b) => AreaExists(b)'
      /\ data_storage_check_table => data_storage_check_table'
  <2>1. CASE CreationMade
    <3>1. data_storage_table \in Tables
      BY DEF TypeOK, NvTypeOK
    <3> QED BY <1>1, <2>1, <3>1 DEF CreationMade, AreaExists, Tables, data_storage_check_table
  <2>2. CASE CreationAccepted
    BY <1>1, <2>2, CreationEffect
       DEF ramVars, AreaExists, data_storage_check_table, ServicesInv, CreateInv
  <2> QED BY <2>1, <2>2
<1>6. CreateInv'
  BY <1>1, <1>5 DEF CreateInv, ForServices, AreaExists
<1>7. TableInv'
  BY <1>1, <1>2, <1>4, <1>5 DEF ServicesInv, TableInv, Starting, AreaExists
<1> QED BY <1>3, <1>6, <1>7 DEF ServicesInv

(* An area that was made and is refused: the services are told to search   *)
(* again, from the same block on.                                          *)
LEMMA RefusalKeepsServices ==
  ASSUME NvInv, CreationRefused, UserCallback(FALSE)
  PROVE  ServicesInv'
<1> USE DEF NvInv
<1>0. data_storage_table \in Tables
  BY DEF TypeOK, NvTypeOK
<1>1. /\ assign = "AREA_CREATE" /\ assign' = "none"
      /\ data_storage_status \in {"AREA_CREATING", "WAITING"}
      /\ data_storage_status' = "WAITING"
      /\ UNCHANGED <<pcallerCallback, data_storage_handle>>
      /\ data_storage_table' =
           [data_storage_table EXCEPT !.areas = @ \ {data_storage_handle}]
  BY RefusedEffect DEF CreationRefused, StorageInv, LateInv, nvVars, mcpVars
<1>2. /\ data_service_state = "INIT_WAIT" /\ ForServices
      /\ pcallerCallback \in {"none", "format"}
      /\ data_services_init_all_callback(FALSE)
  BY <1>1, Callbacks DEF ServicesInv, CreateInv, StorageInv, TransferInv, CallerInv,
                         Waits, Reads, Writes
<1>3. data_service_state' = "INIT_ALL" /\ UNCHANGED data_services_table_index
  BY <1>2 DEF data_services_init_all_callback
<1>4. ReadInv' /\ WriteInv' /\ CreateInv' /\ ClearInv' /\ IndexInv' /\ ServicesAwaitStorage'
  BY <1>1, <1>2, <1>3 DEF ReadInv, WriteInv, CreateInv, ClearInv, IndexInv,
                          ServicesAwaitStorage, ReadStatuses, WriteStatuses
<1>5. storage_services_started /\ storage_services_started'
      /\ (data_storage_check_table => data_storage_check_table')
  BY <1>0, <1>1 DEF storage_services_started, data_storage_check_table, Tables
<1>6. \A b \in Blocks : b < data_services_table_index => AreaExists(b)'
  <2>1. \A b \in Blocks : b < data_services_table_index => b # data_storage_handle
    BY <1>2, NvMemoryAssumption DEF ForServices, Blocks
  <2>2. \A b \in Blocks : b < data_services_table_index => AreaExists(b)
    BY <1>2 DEF ServicesInv, TableInv
  <2> QED BY <1>0, <1>1, <2>1, <2>2 DEF AreaExists, Tables
<1>7. TableInv'
  BY <1>1, <1>2, <1>3, <1>5, <1>6 DEF ServicesInv, TableInv, Starting, AreaExists
<1> QED BY <1>4, <1>7 DEF ServicesInv

(* Runs of the storage service that ask for nothing and tell nobody.       *)
LEMMA QuietKeepsServices ==
  ASSUME NvInv, (assign = "none" /\ (TableRefused \/ NothingToAsk)) \/ StorageReturns,
         data_storage_service, ~Accepts, UNCHANGED svcVars
  PROVE  ServicesInv'
<1> USE DEF NvInv, nvVars, mcpVars
<1>0. /\ assign \in {"none", "INIT", "WRITING_DATA", "WRITING_HEADER", "READING_HEADER",
                     "READING_DATA", "AREA_CREATING", "AREA_CLEARING"}
      /\ assign' = "none"
  BY DEF StorageReturns, TableRefused, NothingToAsk, Awaiting
<1>1. UNCHANGED <<data_service_state, data_services_table_index, data_services_buffer>>
  BY DEF svcVars, reqVars, TableRefused, NothingToAsk, StorageReturns, Prepare, ramVars
<1>2. \/ /\ assign # "none" /\ assign' = "none"
         /\ data_storage_status' = assign /\ UNCHANGED data_storage_table
      \/ UNCHANGED <<data_storage_status, data_storage_table>>
      \/ /\ data_storage_status \in {"START", "CHECK_TABLE"}
         /\ data_storage_status' = "START"
      \/ /\ data_storage_status = "CHECK_TABLE" /\ data_storage_check_table
         /\ data_storage_status' = "WAITING" /\ UNCHANGED data_storage_table
  <2>1. CASE StorageReturns
    BY <2>1 DEF StorageReturns, Awaiting, ramVars
  <2>2. CASE TableRefused
    BY <2>2 DEF TableRefused
  <2>3. CASE NothingToAsk
    BY <2>3 DEF NothingToAsk, Asks, Asking, ramVars
  <2> QED BY <2>1, <2>2, <2>3
<1>3. data_storage_status \in {"START", "CHECK_TABLE"} \/ UNCHANGED data_storage_table
  BY DEF StorageReturns, TableRefused, NothingToAsk, ramVars
<1>4. ReadInv' /\ ServicesAwaitStorage'
  BY <1>0, <1>1, <1>2, <1>3, ServiceEffect
     DEF ServicesInv, ReadInv, ServicesAwaitStorage, ReadStatuses, WriteStatuses,
         ForServices, AreaExists, StorageInv, LateInv
<1>5. WriteInv' /\ ClearInv' /\ IndexInv'
  BY <1>0, <1>1, <1>2, <1>3, ServiceEffect
     DEF ServicesInv, WriteInv, WriteStatuses, ForServices, AreaExists, ClearInv,
         IndexInv, StorageInv, LateInv, CallerInv, Waits
<1>6. CreateInv'
  BY <1>0, <1>1, <1>2, <1>3, ServiceEffect
     DEF ServicesInv, CreateInv, ForServices, AreaExists, StorageInv, LateInv,
         CallerInv, Waits
<1>7. TableInv'
  <2>1. data_services_table_index \in Nat
    BY NvMemoryAssumption DEF TypeOK
  <2>2. CASE data_storage_status \in {"START", "CHECK_TABLE"}
    <3>1. Starting /\ ~(data_services_table_index > 1)
      BY <2>1, <2>2 DEF ServicesInv, TableInv, Starting, storage_services_started
    <3>2. \A b \in Blocks : ~(b < data_services_table_index)
      BY <2>1, <3>1, NvMemoryAssumption DEF Blocks
    <3>3. storage_services_started' => data_storage_check_table'
      BY <1>0, <1>2, <2>2, ServiceEffect DEF storage_services_started,
                                             data_storage_check_table,
         StorageInv, LateInv
    <3> QED
      BY <1>1, <3>1, <3>2, <3>3 DEF ServicesInv, TableInv, Starting
  <2>3. CASE data_storage_status \notin {"START", "CHECK_TABLE"}
    <3>1. UNCHANGED data_storage_table /\ storage_services_started' = storage_services_started
      BY <1>0, <1>2, <1>3, <2>3 DEF storage_services_started, StorageInv, LateInv
    <3> QED
      BY <1>1, <3>1, ServiceEffect DEF ServicesInv, TableInv, Starting, AreaExists,
                                       data_storage_check_table
  <2> QED BY <2>2, <2>3
<1> QED BY <1>4, <1>5, <1>6, <1>7 DEF ServicesInv

(* Runs that tell the user that a request has ended, well or not.          *)
LEMMA TellsKeepsServices ==
  ASSUME NvInv, NEW ok \in BOOLEAN, StorageTells(ok), UserCallback(ok),
         data_storage_service, ~Accepts, ~CreationRefused
  PROVE  ServicesInv'
<1> USE DEF NvInv, nvVars, mcpVars
<1>1. /\ data_storage_status \in {"READ", "READ_HEADER_COMPLETE", "READ_DATA_COMPLETE",
           "WRITE", "WRITING_DATA_COMPLETE", "AREA_CLEAR"}
      /\ data_storage_status' = "WAITING" /\ assign = "none" /\ assign' = "none"
      /\ UNCHANGED <<pcallerCallback, data_storage_handle>>
      /\ ok => data_storage_status = "READ_DATA_COMPLETE"
  BY ServiceEffect
     DEF StorageTells, ReadChecked, RequestRefused, NothingToClear, Asks, Asking
<1>2. pcallerCallback \in {"none", "format"}
  BY <1>1 DEF StorageInv, TransferInv, CallerInv, Waits, Reads, Writes
<1>3. ReadInv' /\ WriteInv' /\ CreateInv' /\ ClearInv'
  BY <1>1, <1>2
     DEF ReadInv, WriteInv, CreateInv, ClearInv, ReadStatuses, WriteStatuses
<1>4. data_storage_table' = data_storage_table
  BY <1>1, TableEffect
<1>5. /\ data_storage_table'.areas = data_storage_table.areas
      /\ data_storage_check_table => data_storage_check_table'
  BY <1>4 DEF data_storage_check_table
<1>6. storage_services_started /\ storage_services_started'
  BY <1>1 DEF storage_services_started
<1>7. CASE data_storage_status \in {"READ", "READ_HEADER_COMPLETE", "READ_DATA_COMPLETE"}
  <2>1. /\ data_services_read_callback(ok) /\ data_service_state = "READ_WAITING"
        /\ data_services_table_index \in Blocks /\ pcallerCallback = "none"
    BY <1>1, <1>2, <1>7, Callbacks
       DEF ServicesInv, ReadInv, ReadStatuses, ForServices, StorageInv, CallerInv
  <2>2. /\ data_service_state' \in {"READ_DONE", "READ", "WAITING"}
        /\ data_service_state' = "READ_DONE" => data_services_table_index' \in Blocks
    BY <2>1 DEF data_services_read_callback
  <2>3. IndexInv' /\ ServicesAwaitStorage'
    BY <2>2 DEF IndexInv, ServicesAwaitStorage
  <2>4. TableInv'
    BY <1>1, <1>5, <1>6, <2>1, <2>2 DEF ServicesInv, TableInv, Starting
  <2> QED BY <1>3, <2>3, <2>4 DEF ServicesInv
<1>8. CASE data_storage_status \in {"WRITE", "WRITING_DATA_COMPLETE"}
  <2>1. /\ data_services_write_callback(ok) /\ data_service_state = "WRITE_WAITING"
        /\ pcallerCallback = "none"
    BY <1>1, <1>2, <1>8, Callbacks
       DEF ServicesInv, WriteInv, WriteStatuses, StorageInv, CallerInv
  <2>2. data_service_state' \in {"WRITE", "WAITING"}
    BY <2>1 DEF data_services_write_callback
  <2>3. IndexInv' /\ ServicesAwaitStorage'
    BY <2>2 DEF IndexInv, ServicesAwaitStorage
  <2>4. TableInv'
    BY <1>1, <1>5, <1>6, <2>1, <2>2 DEF ServicesInv, TableInv, Starting
  <2> QED BY <1>3, <2>3, <2>4 DEF ServicesInv
<1>9. CASE data_storage_status = "AREA_CLEAR"
  <2>1. UNCHANGED <<data_service_state, data_services_table_index>>
    BY <1>1, <1>9, Callbacks DEF ServicesInv, ClearInv, svcVars, reqVars
  <2>2. IndexInv' /\ ServicesAwaitStorage'
    BY <1>9, <2>1
       DEF ServicesInv, IndexInv, ServicesAwaitStorage, ReadStatuses, WriteStatuses
  <2>3. TableInv'
    BY <1>1, <1>5, <1>6, <2>1 DEF ServicesInv, TableInv, Starting, AreaExists
  <2> QED BY <1>3, <2>2, <2>3 DEF ServicesInv
<1> QED BY <1>1, <1>7, <1>8, <1>9

(* Whatever leaves the storage, the services and the buffers alone.        *)
LEMMA ServicesUntouched ==
  ASSUME NvInv,
         UNCHANGED <<dsVars, svcVars, pcallerCallback, data_storage_table,
                     data_services_buffer>>
  PROVE  ServicesInv'
<1> USE DEF NvInv, ServicesInv, dsVars, svcVars, reqVars
<1>1. ReadInv' /\ WriteInv' /\ ServicesAwaitStorage'
  BY DEF ReadInv, WriteInv, ServicesAwaitStorage, ForServices, AreaExists
<1>2. CreateInv' /\ ClearInv' /\ IndexInv' /\ TableInv'
  BY DEF CreateInv, ClearInv, IndexInv, TableInv, ForServices, AreaExists, Starting,
         storage_services_started, data_storage_check_table
<1> QED BY <1>1, <1>2

(* What a completion comes with: only a read changes a buffer, and only    *)
(* its own.                                                                *)
LEMMA BuffersRead ==
  ASSUME StorageInv, CallerTold
  PROVE  /\ pcallerCallback # "init" => UNCHANGED data_storage_table
         /\ pcallerCallback # "read_header" => UNCHANGED data_storage_header
         /\ pcallerCallback # "read_data" => UNCHANGED data_services_buffer
         /\ pcallerCallback \in Reads \cup Writes \cup {"none"}
<1>1. CASE ReadDone
  BY <1>1 DEF ReadDone, StorageInv, TransferInv, Reads, TheTable, Cell
<1>2. CASE WriteDone \/ TransferFailed
  BY <1>2 DEF WriteDone, TransferFailed, ramVars, StorageInv, TransferInv, DriverInv,
              FailedHasNoCaller
<1> QED BY <1>1, <1>2 DEF CallerTold

(* A completion that ends a request tells the services, which then wait no *)
(* more; one in the middle leaves them waiting.                            *)
LEMMA ToldKeepsServices ==
  ASSUME NvInv, CallerTold, StorageTold(Reported),
         IF TellsUser(pcallerCallback, Reported) THEN UserCallback(Reported)
         ELSE UNCHANGED svcVars
  PROVE  ServicesInv'
<1> USE DEF NvInv
<1>1. /\ data_storage_status' = StatusAfter(pcallerCallback, TRUE)
      /\ pcallerCallback' = "none"
      /\ UNCHANGED <<data_storage_handle, data_storage_user_callback, assign>>
  BY ToldEffect DEF StorageTold, Reported
<1>2. IF pcallerCallback \in {"table", "write_header", "clear"} THEN UserCallback(TRUE)
      ELSE UNCHANGED <<data_service_state, data_services_table_index>>
  BY DEF TellsUser, Reported, svcVars, reqVars
<1>3. pcallerCallback # "none" => CreateInv' /\ ClearInv'
  <2>1. pcallerCallback # "none" => data_storage_status' \notin {"AREA_CREATE", "AREA_CLEAR"}
    BY <1>1, BuffersRead DEF StatusAfter, Reads, Writes
  <2>2. pcallerCallback # "none" /\ assign = "AREA_CREATE" => pcallerCallback = "format"
    BY BuffersRead DEF StorageInv, CallerInv, Waits, Reads, Writes
  <2>3. pcallerCallback = "format" => UNCHANGED data_storage_table
    BY BuffersRead
  <2> QED
    BY <1>1, <1>2, <2>1, <2>2, <2>3
       DEF ServicesInv, CreateInv, ClearInv, ForServices, AreaExists
<1>4. CASE pcallerCallback = "none"
  <2>1. UNCHANGED <<dsVars, svcVars, pcallerCallback, data_storage_table, data_services_buffer>>
    BY <1>1, <1>4, BuffersRead DEF StatusAfter, TellsUser, dsVars
  <2> QED BY <2>1, ServicesUntouched
<1>5. CASE pcallerCallback \in {"init", "format"}
  <2>1. /\ data_storage_status \in
              {"START", "INIT", "CHECK_TABLE", "WAITING", "AREA_CREATE", "AREA_CREATING",
               "AREA_CLEAR"}
        /\ data_storage_status' = IF pcallerCallback = "init" THEN "CHECK_TABLE" ELSE "WAITING"
        /\ UNCHANGED <<data_service_state, data_services_table_index>>
    BY <1>1, <1>2, <1>5 DEF StorageInv, CallerInv, Waits, StatusAfter
  <2>2. ReadInv' /\ WriteInv' /\ IndexInv' /\ ServicesAwaitStorage'
    BY <1>1, <2>1 DEF ServicesInv, ReadInv, WriteInv, IndexInv, ServicesAwaitStorage,
                      ReadStatuses, WriteStatuses
  <2>3. CASE pcallerCallback = "init"
    <3>1. data_storage_status \in {"START", "INIT"}
      BY <2>3 DEF StorageInv, CallerInv, Waits
    <3>2. Starting /\ ~(data_services_table_index > 1)
      BY <3>1 DEF ServicesInv, TableInv, Starting, storage_services_started
    <3>3. \A b \in Blocks : ~(b < data_services_table_index)
      BY <3>2, NvMemoryAssumption DEF Blocks, TypeOK
    <3> QED
      BY <1>1, <1>3, <2>1, <2>2, <2>3, <3>2, <3>3 DEF ServicesInv, TableInv, Starting,
             storage_services_started
  <2>4. CASE pcallerCallback = "format"
    <3>1. /\ Starting /\ UNCHANGED data_storage_table /\ data_storage_check_table'
          /\ storage_services_started'
      BY <2>1, <2>4, BuffersRead DEF ServicesInv, TableInv, StorageInv, FormatInv,
                                     data_storage_check_table, storage_services_started
    <3> QED
      BY <1>1, <1>3, <1>5, <2>1, <2>2, <2>4, <3>1 DEF ServicesInv, TableInv, Starting,
             AreaExists
  <2> QED BY <1>5, <2>3, <2>4
<1>6. CASE pcallerCallback \in {"write", "read_header", "read_data"}
  <2>1. /\ UNCHANGED <<data_service_state, data_services_table_index, data_storage_table>>
        /\ pcallerCallback # "read_data" => UNCHANGED data_services_buffer
    BY <1>2, <1>6, BuffersRead
  <2>2. /\ pcallerCallback = "write" =>
              /\ data_storage_status \in {"WRITE", "WRITING_DATA"}
              /\ data_storage_status' = "WRITING_DATA_COMPLETE"
        /\ pcallerCallback = "read_header" =>
              /\ data_storage_status \in {"READ", "READING_HEADER"}
              /\ data_storage_status' = "READ_HEADER_COMPLETE"
        /\ pcallerCallback = "read_data" =>
              /\ data_storage_status \in {"READ_HEADER_COMPLETE", "READING_DATA"}
              /\ data_storage_status' = "READ_DATA_COMPLETE"
    BY <1>1 DEF StorageInv, CallerInv, Waits, StatusAfter
  <2>3. ReadInv' /\ WriteInv' /\ IndexInv' /\ ServicesAwaitStorage'
    BY <1>1, <1>6, <2>1, <2>2 DEF ServicesInv, ReadInv, WriteInv, IndexInv,
                                  ServicesAwaitStorage, ReadStatuses, WriteStatuses,
                                  ForServices, AreaExists
  <2>4. TableInv'
    BY <1>1, <1>6, <2>1, <2>2 DEF ServicesInv, TableInv, Starting, AreaExists,
                                  storage_services_started, data_storage_check_table
  <2> QED BY <1>6, <1>3, <2>3, <2>4 DEF ServicesInv
<1>7. CASE pcallerCallback = "table"
  <2>1. /\ data_storage_status \in {"AREA_CREATING", "WAITING"}
        /\ data_storage_status' = "WAITING" /\ data_service_state = "INIT_WAIT" /\ UNCHANGED data_storage_table
        /\ data_services_table_index \in Blocks /\ AreaExists(data_services_table_index)
        /\ data_services_init_all_callback(TRUE)
    BY <1>1, <1>2, <1>7, BuffersRead, Callbacks DEF StorageInv, CallerInv, ServicesInv,
                                                    CreateInv, ForServices, StatusAfter
  <2>2. data_service_state' = "INIT_ALL" /\ data_services_table_index' = data_services_table_index + 1
    BY <2>1 DEF data_services_init_all_callback, Step
  <2>3. ReadInv' /\ WriteInv' /\ IndexInv' /\ ServicesAwaitStorage'
    BY <1>1, <2>1, <2>2 DEF ReadInv, WriteInv, IndexInv, ServicesAwaitStorage,
                            ReadStatuses, WriteStatuses
  <2>4. data_services_table_index + 1 # 0 /\
        \A b \in Blocks :
          b < data_services_table_index + 1 =>
            b < data_services_table_index \/ b = data_services_table_index
    BY <2>1, NvMemoryAssumption DEF Blocks
  <2>5. TableInv'
    BY <1>1, <2>1, <2>2, <2>4 DEF ServicesInv, TableInv, Starting, AreaExists,
                                  storage_services_started, data_storage_check_table
  <2> QED BY <1>7, <1>3, <2>3, <2>5 DEF ServicesInv
<1>8. CASE pcallerCallback = "write_header"
  <2>1. /\ data_storage_status \in {"WRITING_DATA_COMPLETE", "WRITING_HEADER"}
        /\ data_storage_status' = "WAITING"
        /\ data_service_state = "WRITE_WAITING" /\ UNCHANGED data_storage_table
        /\ data_services_write_callback(TRUE)
    BY <1>1, <1>2, <1>8, BuffersRead, Callbacks DEF StorageInv, CallerInv, Waits,
                                                    ServicesInv, WriteInv, StatusAfter
  <2>2. data_service_state' \in {"WRITE", "WAITING"}
    BY <2>1 DEF data_services_write_callback
  <2>3. ReadInv' /\ WriteInv' /\ IndexInv' /\ ServicesAwaitStorage'
    BY <1>1, <2>1, <2>2 DEF ReadInv, WriteInv, IndexInv, ServicesAwaitStorage,
                            ReadStatuses, WriteStatuses
  <2>4. TableInv'
    BY <1>1, <2>1, <2>2 DEF ServicesInv, TableInv, Starting, AreaExists,
                            storage_services_started, data_storage_check_table
  <2> QED BY <1>8, <1>3, <2>3, <2>4 DEF ServicesInv
<1>9. CASE pcallerCallback = "clear"
  <2>1. /\ data_storage_status \in {"AREA_CLEAR", "AREA_CLEARING"} /\ data_storage_status' = "WAITING"
        /\ UNCHANGED <<data_service_state, data_services_table_index, data_storage_table>>
    BY <1>1, <1>2, <1>9, BuffersRead, Callbacks DEF StorageInv, CallerInv, Waits,
                                                    ServicesInv, ClearInv, StatusAfter,
                                                    svcVars, reqVars
  <2>2. ReadInv' /\ WriteInv' /\ IndexInv' /\ ServicesAwaitStorage'
    BY <1>1, <2>1 DEF ServicesInv, ReadInv, WriteInv, IndexInv, ServicesAwaitStorage,
                      ReadStatuses, WriteStatuses
  <2>3. TableInv'
    BY <1>1, <2>1 DEF ServicesInv, TableInv, Starting, AreaExists,
                      storage_services_started, data_storage_check_table
  <2> QED BY <1>9, <1>3, <2>2, <2>3 DEF ServicesInv
<1> QED BY BuffersRead, <1>4, <1>5, <1>6, <1>7, <1>8, <1>9 DEF Reads, Writes

(* A set of numbers that is not empty has a least one.                     *)
LEMMA LeastNumber ==
  ASSUME NEW T, T \subseteq Nat, T # {}
  PROVE  \E m \in T : \A n \in T : m <= n
<1> DEFINE R == {ss \in Nat \X Nat : ss[1] < ss[2]}
<1>1. IsWellFoundedOn(R, Nat)
  BY NatLessThanWellFounded DEF OpToRel
<1>2. \A m, n \in Nat : n < m => <<n, m>> \in R
  OBVIOUS
<1> HIDE DEF R
<1>3. PICK m \in T : \A n \in T : <<n, m>> \notin R
  BY <1>1, WFMin
<1>4. \A n \in T : ~(n < m)
  BY <1>2, <1>3
<1>5. \A n \in T : m <= n
  BY <1>4
<1> QED BY <1>5

(* What the search of the table finds: all areas before it exist, and it   *)
(* does not.                                                               *)
LEMMA FirstMissingFound ==
  ASSUME data_services_table_index \in Nat
  PROVE  /\ FirstMissing \in Blocks =>
              /\ ~AreaExists(FirstMissing)
              /\ \A b \in Blocks :
                   data_services_table_index <= b /\ b < FirstMissing => AreaExists(b)
         /\ FirstMissing \notin Blocks =>
              \A b \in Blocks : data_services_table_index <= b => AreaExists(b)
<1> DEFINE missing == {b \in Blocks : b >= data_services_table_index /\ ~AreaExists(b)}
<1>0. Blocks \subseteq Nat /\ BlockCount + 1 \notin Blocks
  BY NvMemoryAssumption DEF Blocks
<1>1. CASE missing = {}
  <2>1. FirstMissing = BlockCount + 1
    BY <1>1 DEF FirstMissing
  <2>2. \A b \in Blocks : data_services_table_index <= b => AreaExists(b)
    BY <1>0, <1>1
  <2> QED BY <1>0, <2>1, <2>2
<1>2. CASE missing # {}
  <2>1. FirstMissing = CHOOSE b \in missing : \A c \in missing : b <= c
    BY <1>2 DEF FirstMissing
  <2>2. \E b \in missing : \A c \in missing : b <= c
    BY <1>0, <1>2, LeastNumber
  <2>3. FirstMissing \in missing /\ \A c \in missing : FirstMissing <= c
    BY <2>1, <2>2
  <2>4. ~AreaExists(FirstMissing) /\ FirstMissing \in Blocks
    BY <2>3
  <2>5. ASSUME NEW b \in Blocks, data_services_table_index <= b, b < FirstMissing
        PROVE  AreaExists(b)
    BY <1>0, <2>3, <2>4, <2>5
  <2> QED BY <2>4, <2>5
<1> QED BY <1>1, <1>2

(* Services that do not wait for the storage may do what they like with    *)
(* their own state; nothing is being done for them.                        *)
LEMMA FreeServices ==
  ASSUME NvInv, UNCHANGED <<dsVars, pcallerCallback>>,
         data_service_state \notin {"INIT_WAIT", "READ_WAITING", "WRITE_WAITING"}
  PROVE  ReadInv' /\ WriteInv' /\ CreateInv' /\ ClearInv'
<1> USE DEF NvInv, ServicesInv, dsVars
<1>1. ReadInv' /\ WriteInv'
  BY DEF ReadInv, WriteInv
<1>2. CreateInv' /\ ClearInv'
  BY DEF CreateInv, ClearInv
<1> QED BY <1>1, <1>2

(* A request that is taken by the storage, which was WAITING.              *)
LEMMA TakenEffect ==
  ASSUME NvInv, NEW s, NEW b, NEW callback, assign = "none",
         StorageTakes(s, b, callback), UNCHANGED nvVars
  PROVE  /\ data_storage_status = "WAITING" /\ data_storage_status' = s
         /\ assign' = "none"
         /\ data_storage_handle' = b
         /\ data_storage_user_callback' = callback
         /\ pcallerCallback' \in {"none", "format"} /\ UNCHANGED pcallerCallback
         /\ data_service_state \notin {"READ_WAITING", "WRITE_WAITING"}
<1>1. /\ data_storage_status = "WAITING" /\ data_storage_status' = s
      /\ assign' = "none"
      /\ data_storage_handle' = b
      /\ data_storage_user_callback' = callback
      /\ UNCHANGED pcallerCallback
  BY DEF StorageTakes, nvVars, mcpVars
<1>2. pcallerCallback \in {"none", "format"}
  BY <1>1 DEF NvInv, StorageInv, TransferInv, CallerInv, Waits, Reads, Writes
<1>3. data_service_state \notin {"READ_WAITING", "WRITE_WAITING"}
  BY <1>1 DEF NvInv, ServicesInv, ServicesAwaitStorage, ReadStatuses, WriteStatuses
<1> QED BY <1>1, <1>2, <1>3

(* A message makes the services start work when they wait for none, or has *)
(* the storage clear an area when it is idle.                              *)
LEMMA MessageKeepsServices ==
  ASSUME NvInv, handleMessage
  PROVE  ServicesInv'
<1>1. CASE OtherMessage
  BY <1>1, ServicesUntouched DEF handleMessage, OtherMessage, nvVars, mcpVars, ramVars
<1>2. CASE ServiceMessage
  <2>1. /\ data_service_state = "WAITING" /\ data_service_state' \in {"READ", "WRITE", "WAITING"}
        /\ UNCHANGED <<dsVars, pcallerCallback, data_storage_table>>
    BY <1>2 DEF handleMessage, ServiceMessage, data_services_all,
                data_services_specific, Take, nvVars, mcpVars, ramVars
  <2>2. ReadInv' /\ WriteInv' /\ CreateInv' /\ ClearInv'
    BY <2>1, FreeServices
  <2>3. IndexInv' /\ ServicesAwaitStorage'
    BY <2>1 DEF IndexInv, ServicesAwaitStorage
  <2>4. TableInv'
    BY <2>1 DEF NvInv, ServicesInv, TableInv, Starting, dsVars, AreaExists,
                storage_services_started, data_storage_check_table
  <2> QED BY <2>2, <2>3, <2>4 DEF ServicesInv
<1>3. CASE ClearMessage
  <2>1. PICK b \in Blocks : StorageTakes("AREA_CLEAR", b, "preflight")
    BY <1>3 DEF ClearMessage, storage_clear_area
  <2>2. /\ UNCHANGED <<nvVars, data_storage_table, data_service_state, data_services_table_index>>
        /\ assign = "none"
    BY <1>3 DEF handleMessage, ClearMessage, ramVars, reqVars
  <2>3. /\ data_storage_status = "WAITING" /\ data_storage_status' = "AREA_CLEAR"
        /\ assign' = "none" /\ data_storage_user_callback' = "preflight"
        /\ pcallerCallback' \in {"none", "format"} /\ UNCHANGED pcallerCallback
        /\ data_service_state \notin {"READ_WAITING", "WRITE_WAITING"}
    BY <2>1, <2>2, TakenEffect
  <2>4. ReadInv' /\ WriteInv' /\ CreateInv' /\ ClearInv'
    BY <2>3 DEF ReadInv, WriteInv, CreateInv, ClearInv, ReadStatuses, WriteStatuses
  <2>5. IndexInv' /\ ServicesAwaitStorage'
    BY <2>2, <2>3 DEF NvInv, ServicesInv, IndexInv, ServicesAwaitStorage
  <2>6. TableInv'
    BY <2>2, <2>3 DEF NvInv, ServicesInv, TableInv, Starting, AreaExists,
                storage_services_started, data_storage_check_table
  <2> QED BY <2>4, <2>5, <2>6 DEF ServicesInv
<1> QED BY <1>1, <1>2, <1>3 DEF handleMessage

(* Coming up: the search for missing areas.                                *)
LEMMA ComingUpKeepsServices ==
  ASSUME NvInv, data_services,
         data_services_init_all \/ InitCreate \/ InitLater \/ InitDone
  PROVE  ServicesInv'
<1>0. data_services_table_index \in Nat
  BY NvMemoryAssumption DEF NvInv, TypeOK
<1>1. CASE InitLater
  BY <1>1, ServicesUntouched DEF InitLater, BelowUnchanged, nvVars, mcpVars, ramVars
<1>2. CASE data_services_init_all \/ InitDone
  <2>1. /\ data_service_state \in {"INIT", "INIT_ALL"}
        /\ UNCHANGED <<dsVars, pcallerCallback, data_storage_table>>
        /\ data_service_state' \in {"INIT_ALL", "READ"} /\ data_services_table_index' = 1
    BY <1>2 DEF data_services_init_all, InitDone, BelowUnchanged, nvVars, mcpVars,
                ramVars
  <2>2. ReadInv' /\ WriteInv' /\ CreateInv' /\ ClearInv'
    BY <2>1, FreeServices
  <2>3. IndexInv' /\ ServicesAwaitStorage'
    BY <2>1 DEF IndexInv, ServicesAwaitStorage
  <2>4. \A b \in Blocks : ~(b < 1)
    BY NvMemoryAssumption DEF Blocks
  <2>5. CASE data_services_init_all
    <3>1. data_service_state' = "INIT_ALL" /\ data_service_state = "INIT"
      BY <2>5 DEF data_services_init_all
    <3> QED
      BY <2>1, <2>2, <2>3, <2>4, <3>1
         DEF NvInv, ServicesInv, TableInv, Starting, dsVars, storage_services_started,
             data_storage_check_table
  <2>6. CASE InitDone
    <3>1. /\ data_service_state = "INIT_ALL" /\ data_service_state' = "READ"
          /\ InTable => storage_services_started /\ FirstMissing \notin Blocks
      BY <2>6 DEF InitDone
    <3>2. \A b \in Blocks : b < data_services_table_index => AreaExists(b)
      BY <3>1 DEF NvInv, ServicesInv, TableInv
    <3>3. /\ storage_services_started
          /\ \A b \in Blocks : AreaExists(b)
      <4>1. CASE InTable
        <5>1. \A b \in Blocks : data_services_table_index <= b => AreaExists(b)
          BY <1>0, <3>1, <4>1, FirstMissingFound
        <5> QED BY <1>0, <3>1, <3>2, <4>1, <5>1, NvMemoryAssumption DEF Blocks
      <4>2. CASE ~InTable
        <5>1. data_services_table_index = BlockCount + 1
          BY <3>1, <4>2, NvMemoryAssumption
             DEF InTable, Blocks, NvInv, TypeOK, ServicesInv, TableInv
        <5> QED BY <3>1, <3>2, <5>1, NvMemoryAssumption DEF NvInv, ServicesInv,
                   TableInv, Blocks
      <4> QED BY <4>1, <4>2
    <3>4. data_storage_table.areas = Blocks
      BY <3>3 DEF NvInv, TypeOK, NvTypeOK, Tables, AreaExists
    <3>5. pcallerCallback # "format"
      BY <3>4, NvMemoryAssumption
         DEF NvInv, StorageInv, FormatInv, Blocks, Listed, data_services
    <3> QED
      BY <2>1, <2>2, <2>3, <3>1, <3>3, <3>4, <3>5
         DEF NvInv, ServicesInv, TableInv, Starting, dsVars, storage_services_started,
             data_storage_check_table
  <2> QED BY <1>2, <2>5, <2>6
<1>3. CASE InitCreate
  <2>1. /\ data_service_state = "INIT_ALL" /\ storage_services_started
        /\ FirstMissing \in Blocks /\ data_services_table_index' = FirstMissing
        /\ UNCHANGED <<nvVars, data_storage_table, pcallerCallback>> /\ assign = "none"
    BY <1>3 DEF InitCreate, data_services, ramVars, nvVars, mcpVars
  <2>2. /\ ~AreaExists(FirstMissing)
        /\ \A b \in Blocks :
             data_services_table_index <= b /\ b < FirstMissing => AreaExists(b)
    BY <1>0, <2>1, FirstMissingFound
  <2>3. FirstMissing # 0 /\ \A b \in Blocks : b < FirstMissing => AreaExists(b)
    <3>1. \A b \in Blocks : b < data_services_table_index => AreaExists(b)
      BY <2>1 DEF NvInv, ServicesInv, TableInv
    <3>2. \A b \in Blocks : b < data_services_table_index \/ data_services_table_index <= b
      BY <1>0, NvMemoryAssumption DEF Blocks
    <3>3. FirstMissing # 0
      BY <2>1, NvMemoryAssumption DEF Blocks
    <3> QED BY <2>2, <3>1, <3>2, <3>3
  <2>4. CASE data_storage_status = "WAITING"
    <3>1. /\ StorageTakes("AREA_CREATE", FirstMissing, "init_all")
          /\ data_service_state' = "INIT_WAIT"
      BY <1>3, <2>4 DEF InitCreate, storage_create_area
    <3>2. /\ data_storage_status' = "AREA_CREATE" /\ data_storage_handle' = FirstMissing
          /\ assign' = "none"
          /\ data_storage_user_callback' = "init_all"
          /\ pcallerCallback' \in {"none", "format"}
      BY <2>1, <3>1, TakenEffect
    <3>3. ReadInv' /\ WriteInv' /\ CreateInv' /\ ClearInv'
      BY <2>1, <2>2, <3>1, <3>2
         DEF ReadInv, WriteInv, CreateInv, ClearInv, ReadStatuses, WriteStatuses,
             ForServices, AreaExists
    <3>4. IndexInv' /\ ServicesAwaitStorage'
      BY <2>1, <3>1 DEF IndexInv, ServicesAwaitStorage
    <3>5. TableInv'
      BY <2>1, <2>3, <3>1, <3>2
         DEF NvInv, ServicesInv, TableInv, Starting, AreaExists,
             storage_services_started, data_storage_check_table
    <3> QED BY <3>3, <3>4, <3>5 DEF ServicesInv
  <2>5. CASE data_storage_status # "WAITING"
    <3>1. UNCHANGED <<dsVars, data_service_state>>
      BY <1>3, <2>5 DEF InitCreate
    <3>2. ReadInv' /\ WriteInv' /\ CreateInv' /\ ClearInv'
      BY <2>1, <3>1, FreeServices
    <3>3. IndexInv' /\ ServicesAwaitStorage'
      BY <2>1, <3>1 DEF IndexInv, ServicesAwaitStorage
    <3>4. TableInv'
      BY <2>1, <2>3, <3>1
         DEF NvInv, ServicesInv, TableInv, Starting, AreaExists,
             storage_services_started, data_storage_check_table, dsVars
    <3> QED BY <3>2, <3>3, <3>4 DEF ServicesInv
  <2> QED BY <2>4, <2>5
<1> QED BY <1>1, <1>2, <1>3

(* Loading and saving, a block at a time.                                  *)
LEMMA BlocksKeepServices ==
  ASSUME NvInv, data_services,
         \/ BeyondTable \/ StepOver \/ ReadBlock \/ WriteBlock
         \/ data_services_read_done \/ NothingToDo
  PROVE  ServicesInv'
<1>1. CASE NothingToDo
  BY <1>1, ServicesUntouched DEF NothingToDo, BelowUnchanged, nvVars, mcpVars, ramVars
<1>2. ASSUME UNCHANGED <<dsVars, pcallerCallback, data_storage_table>>,
             data_service_state \in {"READ", "WRITE", "READ_DONE"},
             data_service_state' \in {"READ", "WRITE", "WAITING"}
      PROVE  ServicesInv'
  <2>1. ReadInv' /\ WriteInv' /\ CreateInv' /\ ClearInv'
    BY <1>2, FreeServices
  <2>2. IndexInv' /\ ServicesAwaitStorage'
    BY <1>2 DEF IndexInv, ServicesAwaitStorage
  <2>3. TableInv'
    BY <1>2 DEF NvInv, ServicesInv, TableInv, Starting, dsVars,
                storage_services_started, data_storage_check_table
  <2> QED BY <2>1, <2>2, <2>3 DEF ServicesInv
<1>3. CASE BeyondTable \/ data_services_read_done
  BY <1>2, <1>3 DEF BeyondTable, data_services_read_done, BelowUnchanged, nvVars,
                    mcpVars, ramVars
<1>4. CASE StepOver
  BY <1>2, <1>4 DEF StepOver, nvVars, mcpVars
<1>5. CASE ReadBlock /\ UNCHANGED dsVars
  <2>1. data_service_state' = data_service_state
    BY <1>5 DEF ReadBlock, storage_read, StorageTakes, dsVars
  <2> QED BY <1>2, <1>5, <2>1 DEF ReadBlock, nvVars, mcpVars, ramVars
<1>6. CASE WriteBlock /\ UNCHANGED dsVars
  <2>1. data_service_state' = data_service_state
    BY <1>6 DEF WriteBlock, storage_write, StorageTakes, dsVars
  <2> QED BY <1>2, <1>6, <2>1 DEF WriteBlock, nvVars, mcpVars
<1>7. CASE (ReadBlock \/ WriteBlock) /\ ~UNCHANGED dsVars
  <2>1. PICK s \in {"READ", "WRITE"}, callback \in {"read", "write"} :
          /\ StorageTakes(s, data_services_table_index, callback)
          /\ s = "READ" <=> callback = "read"
          /\ data_service_state' = IF s = "READ" THEN "READ_WAITING" ELSE "WRITE_WAITING"
          /\ s = "WRITE" => Serialise
    BY <1>7 DEF ReadBlock, WriteBlock, storage_read, storage_write
  <2>2. /\ data_services_table_index \in Blocks /\ AreaExists(data_services_table_index)
        /\ data_service_state \in {"READ", "WRITE"} /\ assign = "none"
        /\ UNCHANGED <<nvVars, data_storage_table, data_services_table_index, pcallerCallback>>
    BY <1>7 DEF ReadBlock, WriteBlock, InTable, data_services, ramVars, reqVars, nvVars,
                mcpVars
  <2>3. /\ data_storage_status' = s /\ data_storage_handle' = data_services_table_index
        /\ data_storage_status = "WAITING" /\ data_storage_user_callback' = callback
        /\ assign' = "none"
        /\ pcallerCallback' \in {"none", "format"}
    BY <2>1, <2>2, TakenEffect
  <2>4. ReadInv' /\ WriteInv'
    BY <2>1, <2>2, <2>3
       DEF ReadInv, WriteInv, ReadStatuses, WriteStatuses, ForServices, AreaExists,
           Serialise
  <2>5. CreateInv' /\ ClearInv' /\ IndexInv'
    BY <2>1, <2>2, <2>3 DEF CreateInv, ClearInv, IndexInv
  <2>6. ServicesAwaitStorage'
    BY <2>1, <2>2, <2>3 DEF ServicesAwaitStorage, ReadStatuses, WriteStatuses
  <2>7. TableInv'
    BY <2>1, <2>2, <2>3
       DEF NvInv, ServicesInv, TableInv, Starting, AreaExists, storage_services_started,
           data_storage_check_table
  <2> QED BY <2>4, <2>5, <2>6, <2>7 DEF ServicesInv
<1> QED BY <1>1, <1>3, <1>4, <1>5, <1>6, <1>7

(* A request that is accepted, or an area that is made, is the whole of    *)
(* what the service does.                                                  *)
LEMMA AcceptedAlone ==
  ASSUME NvInv, data_storage_service, Accepts \/ (assign = "none" /\ CreationMade)
  PROVE  UNCHANGED svcVars
<1>1. SUFFICES ASSUME NEW ok \in BOOLEAN, StorageTells(ok)
               PROVE  FALSE
  BY DEF data_storage_service
<1>2. CASE RequestAccepted
  BY <1>1, <1>2, AcceptedEffect
     DEF NvInv, StorageTells, ReadChecked, RequestRefused, CreationRefused,
         NothingToClear, Asks, NvRefuses, RequestAccepted, Requests, Asking
<1>3. CASE CreationAccepted
  BY <1>1, <1>3 DEF StorageTells, CreationAccepted, CreationRefused, NvRefuses
<1>4. CASE assign = "none" /\ CreationMade
  BY <1>1, <1>4
     DEF StorageTells, ReadChecked, RequestRefused, CreationRefused, NothingToClear,
         CreationMade, Asks, Asking
<1> QED BY <1>2, <1>3, <1>4 DEF Accepts

(* Every step of the system keeps what is known between services and       *)
(* storage.                                                                *)
LEMMA ServicesInvNext ==
  ASSUME NvInv, [Next]_vars
  PROVE  ServicesInv'
<1>1. CASE data_storage_service
  <2>1. CASE Accepts \/ (assign = "none" /\ CreationMade)
    <3>1. UNCHANGED svcVars
      BY <1>1, <2>1, AcceptedAlone DEF Accepts
    <3> QED BY <2>1, <3>1, AcceptedKeepsServices, CreationKeepsServices DEF Accepts
  <2>2. CASE ~Accepts /\ ~(assign = "none" /\ CreationMade)
    <3>1. CASE StorageQuiet /\ UNCHANGED svcVars
      BY <1>1, <2>2, <3>1, QuietKeepsServices DEF StorageQuiet, Accepts
    <3>2. ASSUME NEW ok \in BOOLEAN, StorageTells(ok), UserCallback(ok)
          PROVE  ServicesInv'
      <4>1. CASE CreationRefused
        <5>1. ~ok
          BY <3>2, <4>1 DEF StorageTells, CreationRefused
        <5> QED BY <3>2, <4>1, <5>1, RefusalKeepsServices
      <4>2. CASE ~CreationRefused
        BY <1>1, <2>2, <3>2, <4>2, TellsKeepsServices
      <4> QED BY <4>1, <4>2
    <3> QED BY <1>1, <3>1, <3>2 DEF data_storage_service
  <2> QED BY <2>1, <2>2
<1>2. CASE I2CInterrupt
  <2>1. CASE CallerNotTold /\ UNCHANGED <<dsVars, svcVars>>
    BY <2>1, ServicesUntouched
       DEF CallerNotTold, PageSent, NextPage, Recovered, StillProgramming, ramVars
  <2> QED BY <1>2, <2>1, ToldKeepsServices DEF I2CInterrupt
<1>3. CASE handleMessage
  BY <1>3, MessageKeepsServices
<1>4. CASE data_services
  BY <1>4, ComingUpKeepsServices, BlocksKeepServices DEF data_services
<1>5. CASE NvService \/ BusStops \/ ChipIsDone \/ Pulse \/ UNCHANGED vars
  BY <1>5, ServicesUntouched
     DEF NvService, nv_memory_service, BusStops, StopEnds, ChipIsDone, PageProgrammed,
         Pulse, vars, belowVars, nvVars, mcpVars, ramVars, AboveUnchanged
<1>6. CASE PowerFails
  BY <1>6, NvMemoryAssumption
     DEF PowerFails, NvRestart, ServicesInv, ReadInv, WriteInv, CreateInv, ClearInv,
         IndexInv, TableInv, Starting, ServicesAwaitStorage, ReadStatuses,
         WriteStatuses, storage_services_started, Blocks
<1> QED
  BY <1>1, <1>2, <1>3, <1>4, <1>5, <1>6 DEF Next, EventInterrupt

-----------------------------------------------------------------------------
(***************************************************************************)
(* Types.                                                                  *)
(***************************************************************************)
LEMMA EventsKeepType ==
  ASSUME EventsTypeOK,
         \/ \E h : CalledAndReturned(h) \/ Called(h) \/ TriggeredAndReturned(h)
         \/ Returned \/ trigger_event({"nv", "storage", "services"}) \/ UNCHANGED evVars
  PROVE  EventsTypeOK'
<1>1. Len(Handlers) \in Nat
  BY EventsAssumption
<1>2. CASE \E h : CalledAndReturned(h) \/ Called(h) \/ TriggeredAndReturned(h)
  BY <1>1, <1>2 DEF CalledAndReturned, Called, TriggeredAndReturned, CallAndReturn,
                    Call, EventsTypeOK
<1>3. CASE Returned \/ trigger_event({"nv", "storage", "services"}) \/ UNCHANGED evVars
  BY <1>1, <1>3, DataServicesAssumption DEF Returned, trigger_event, evVars,
                                            EventsTypeOK
<1> QED BY <1>2, <1>3

(* A cell is the table, or a part of the area of a block.                  *)
LEMMA CellBlock ==
  ASSUME cell \in Cells
  PROVE  \/ cell.what = "table"
         \/ cell.what \in {"header", "data", "mark"} /\ cell.block \in Blocks
BY DEF Cells, TheTable, Cell

(* A header, or a part of the table, replaced in what the chip holds.      *)
LEMMA HeaderReplaced ==
  ASSUME NEW e \in EEPROMs, NEW b \in Blocks, NEW h \in Headers
  PROVE  [e EXCEPT !.header[b] = h] \in EEPROMs
BY DEF EEPROMs

(* The same for the table.                                                 *)
LEMMA TableReplaced ==
  ASSUME NEW e \in EEPROMs, NEW t \in Tables
  PROVE  [e EXCEPT !.table = t] \in EEPROMs
BY DEF EEPROMs

(* What the chip holds when a page was programmed has its type.            *)
LEMMA ProgrammedType ==
  ASSUME NvTypeOK
  PROVE  Programmed \in EEPROMs
<1> USE DEF NvTypeOK
<1>1. CASE cell.what = "table"
  <2>1. ee.table \in Tables /\ Areas \subseteq Blocks
    BY DEF EEPROMs, Areas, Tables
  <2>2. CASE pages = 2
    <3> DEFINE t == [ee.table EXCEPT
                       !.preamble = data_storage_table.preamble,
                       !.areas = (ee.table.areas \ FirstPage)
                           \cup (Areas \cap FirstPage)]
    <3>1. t \in Tables
      BY <2>1 DEF Tables
    <3>2. Programmed = [ee EXCEPT !.table = t]
      BY <1>1, <2>2 DEF Programmed
    <3> HIDE DEF t
    <3> QED BY <3>1, <3>2, TableReplaced
  <2>3. CASE pages = 1
    <3> DEFINE t == [ee.table EXCEPT !.areas = (ee.table.areas \cap FirstPage)
                                 \cup (Areas \ FirstPage)]
    <3>1. t \in Tables
      BY <2>1 DEF Tables
    <3>2. Programmed = [ee EXCEPT !.table = t]
      BY <1>1, <2>3 DEF Programmed
    <3> HIDE DEF t
    <3> QED BY <3>1, <3>2, TableReplaced
  <2>4. CASE pages \notin {1, 2}
    <3> DEFINE t == [ee.table EXCEPT !.checksum = data_storage_table.checksum]
    <3>1. t \in Tables
      BY <2>1 DEF Tables
    <3>2. Programmed = [ee EXCEPT !.table = t]
      BY <1>1, <2>4 DEF Programmed
    <3> HIDE DEF t
    <3> QED BY <3>1, <3>2, TableReplaced
  <2> QED BY <2>2, <2>3, <2>4
<1>2. CASE cell.what = "header"
  BY <1>2, CellBlock, HeaderReplaced DEF Programmed
<1>3. CASE cell.what = "mark"
  <2> DEFINE h == [ee.header[cell.block] EXCEPT !.preamble = data_storage_header.preamble]
  <2>1. cell.block \in Blocks
    BY <1>3, CellBlock
  <2>2. h \in Headers
    <3>1. ee.header[cell.block] \in Headers
      BY <2>1 DEF EEPROMs
    <3> QED BY <3>1 DEF Headers
  <2>3. Programmed = [ee EXCEPT !.header[cell.block] = h]
    BY <1>3, <2>1 DEF Programmed, EEPROMs
  <2> HIDE DEF h
  <2> QED BY <2>1, <2>2, <2>3, HeaderReplaced
<1>4. CASE cell.what = "data"
  BY <1>4, CellBlock DEF Programmed, EEPROMs
<1> QED BY <1>1, <1>2, <1>3, <1>4, CellBlock

(* ... and so has what it holds when a page was cut.                       *)
LEMMA CutType ==
  ASSUME NvTypeOK, NEW e \in Cut
  PROVE  e \in EEPROMs
<1>0. Programmed \in EEPROMs /\ ee \in EEPROMs
  BY ProgrammedType DEF NvTypeOK
<1> USE DEF NvTypeOK
<1>1. CASE cell.what = "table"
  <2>1. e \in {ee, Programmed, [ee EXCEPT !.table.preamble = FALSE]}
    BY <1>1 DEF Cut
  <2> DEFINE t == [ee.table EXCEPT !.preamble = FALSE]
  <2>2. ee.table \in Tables
    BY DEF EEPROMs
  <2>3. t \in Tables
    BY <2>2 DEF Tables
  <2>4. [ee EXCEPT !.table.preamble = FALSE] = [ee EXCEPT !.table = t]
    OBVIOUS
  <2> HIDE DEF t
  <2> QED BY <1>0, <2>1, <2>3, <2>4, TableReplaced
<1>2. CASE cell.what = "header"
  <2>1. cell.block \in Blocks /\ ee.header[cell.block] \in Headers
    BY <1>2, CellBlock DEF EEPROMs
  <2> DEFINE Torn ==
        {[ee.header[cell.block] EXCEPT !.preamble = FALSE]} \cup
        {[data_storage_header EXCEPT !.checksum = c] :
           c \in {Junk, ee.header[cell.block].checksum}}
  <2>2. Torn \subseteq Headers
    <3>1. data_storage_header \in Headers /\ Junk \in Contents
      BY <1>0 DEF Contents
    <3>2. ee.header[cell.block].checksum \in Contents
      BY <2>1 DEF Headers
    <3> QED BY <2>1, <3>1, <3>2 DEF Headers
  <2>3. e \in {ee, Programmed} \cup {[ee EXCEPT !.header[cell.block] = h] : h \in Torn}
    BY <1>2 DEF Cut
  <2> HIDE DEF Torn
  <2>4. \A h \in Torn : [ee EXCEPT !.header[cell.block] = h] \in EEPROMs
    BY <2>1, <2>2, HeaderReplaced
  <2> QED BY <1>0, <2>3, <2>4
<1>3. CASE cell.what = "mark"
  <2>1. e \in {ee, Programmed}
    BY <1>3 DEF Cut
  <2> QED BY <1>0, <2>1
<1>4. CASE cell.what = "data"
  <2>1. e \in {ee, Programmed, [ee EXCEPT !.data[cell.block] = Junk]}
    BY <1>4 DEF Cut
  <2> QED BY <1>0, <1>4, <2>1, CellBlock DEF EEPROMs, Contents
<1> QED BY <1>1, <1>2, <1>3, <1>4, CellBlock

(* A handler that triggers, calls or returns keeps the types of the        *)
(* events.                                                                 *)
LEMMA EventsTypeNext ==
  ASSUME NvInv, [Next]_vars
  PROVE  EventsTypeOK'
<1>0. EventsTypeOK
  BY DEF NvInv, TypeOK
<1> DEFINE Handled == \E h : CalledAndReturned(h) \/ Called(h) \/ TriggeredAndReturned(h)
<1>1. CASE data_storage_service
  <2>1. CASE RequestAccepted \/ CreationMade \/ CreationAccepted \/ CreationRefused
    BY <1>0, <2>1, EventsKeepType
       DEF RequestAccepted, CreationMade, CreationAccepted, CreationRefused
  <2>2. CASE TableRefused \/ NothingToAsk \/ StorageReturns \/ RequestRefused \/ NothingToClear
    BY <1>0, <2>2, EventsKeepType
       DEF TableRefused, NothingToAsk, StorageReturns, RequestRefused, NothingToClear
  <2>3. ASSUME NEW ok \in BOOLEAN, ReadChecked(ok)
        PROVE  EventsTypeOK'
    BY <1>0, <2>3, EventsKeepType DEF ReadChecked
  <2> QED BY <1>1, <2>1, <2>2, <2>3 DEF data_storage_service, StorageQuiet, StorageTells
<1>2. CASE data_services
  <2>1. Run
    BY <1>2 DEF data_services, data_services_init_all, InitCreate, InitLater, InitDone,
                BeyondTable, StepOver, ReadBlock, WriteBlock, data_services_read_done,
                NothingToDo
  <2> QED BY <1>0, <2>1, EventsKeepType DEF Run
<1>3. CASE NvService \/ handleMessage
  BY <1>0, <1>3, EventsKeepType DEF NvService, handleMessage
<1>4. CASE I2CInterrupt \/ BusStops \/ ChipIsDone \/ UNCHANGED vars
  BY <1>0, <1>4, EventsKeepType
     DEF I2CInterrupt, BusStops, ChipIsDone, AboveUnchanged, vars
<1>5. CASE Pulse
  BY <1>0, <1>5, EventsKeepType DEF Pulse
<1>6. CASE PowerFails
  BY <1>6, EventsAssumption DEF PowerFails, EventsTypeOK
<1> QED
  BY <1>1, <1>2, <1>3, <1>4, <1>5, <1>6 DEF Next, EventInterrupt

(* A completion moves the storage to a status it has.                      *)
LEMMA StorageTypeNext ==
  ASSUME NvInv, [Next]_vars
  PROVE  DsTypeOK'
<1>0. DsTypeOK
  BY DEF NvInv, TypeOK
<1>1. CASE data_storage_service
  <2>1. CASE RequestAccepted
    BY <1>0, <2>1, AcceptedEffect
       DEF NvInv, DsTypeOK, Statuses, Asking, Awaiting, Requests, Request
  <2>2. CASE CreationAccepted
    BY <1>0, <2>2, CreationEffect DEF NvInv, DsTypeOK, Awaiting
  <2>3. CASE ~Accepts
    BY <1>0, <1>1, <2>3, ServiceEffect DEF NvInv, DsTypeOK, Statuses, Asking, Awaiting
  <2> QED BY <2>1, <2>2, <2>3 DEF Accepts
<1>2. CASE I2CInterrupt
  <2>1. CASE UNCHANGED dsVars
    BY <1>0, <2>1 DEF dsVars, DsTypeOK
  <2>2. CASE StorageTold(Reported)
    <3>1. pcallerCallback \in StorageCallbacks
      BY DEF NvInv, TypeOK, NvTypeOK
    <3> QED
      BY <1>0, <2>2, <3>1
         DEF StorageTold, StatusAfter, Reported, StorageCallbacks, DsTypeOK, Statuses,
             Asking, Awaiting
  <2> QED BY <1>2, <2>1, <2>2 DEF I2CInterrupt
<1>3. CASE data_services \/ handleMessage
  BY <1>0, <1>3, ServicesEffect
     DEF dsVars, StorageTakes, Takings, DsTypeOK, Statuses, Asking, UserCallbacks
<1>4. CASE NvService \/ BusStops \/ ChipIsDone \/ Pulse \/ UNCHANGED vars
  BY <1>0, <1>4
     DEF NvService, BusStops, ChipIsDone, Pulse, vars, belowVars, dsVars,
         AboveUnchanged, DsTypeOK
<1>5. CASE PowerFails
  BY <1>5 DEF PowerFails, DsTypeOK, Statuses, Asking, UserCallbacks
<1> QED
  BY <1>1, <1>2, <1>3, <1>4, <1>5 DEF Next, EventInterrupt

(* Which callback a run of the storage service calls, if any ...           *)
LEMMA TellsEffect ==
  ASSUME NvInv, NEW ok \in BOOLEAN, StorageTells(ok), UserCallback(ok),
         data_storage_service, ~Accepts
  PROVE  /\ data_storage_status' = "WAITING" /\ assign' = "none"
         /\ assign \in {"none", "AREA_CREATE"}
         /\ pcallerCallback \in {"none", "format"}
         /\ UNCHANGED <<nvVars, data_storage_handle, data_services_buffer>>
         /\ \/ /\ data_storage_status \in
                    {"READ", "READ_HEADER_COMPLETE", "READ_DATA_COMPLETE"}
               /\ data_services_read_callback(ok) /\ data_service_state = "READ_WAITING"
               /\ ForServices
               /\ ok => /\ data_storage_status = "READ_DATA_COMPLETE"
                        /\ GoodArea(data_storage_header, data_storage_handle,
                                    data_services_buffer)
            \/ /\ data_storage_status \in {"WRITE", "WRITING_DATA_COMPLETE"}
               /\ data_services_write_callback(FALSE)
               /\ data_service_state = "WRITE_WAITING" /\ ForServices
            \/ /\ CreationRefused /\ assign = "AREA_CREATE"
               /\ data_services_init_all_callback(FALSE)
               /\ data_service_state = "INIT_WAIT" /\ ForServices
            \/ data_storage_status = "AREA_CLEAR" /\ UNCHANGED svcVars
<1>0. CASE CreationRefused
  <2>1. /\ assign = "AREA_CREATE" /\ assign' = "none" /\ data_storage_status' = "WAITING"
        /\ UNCHANGED <<nvVars, data_storage_handle, data_services_buffer>>
        /\ ~ok
    BY <1>0, RefusedEffect DEF CreationRefused, StorageTells, NvInv
  <2>2. /\ data_service_state = "INIT_WAIT" /\ ForServices
        /\ pcallerCallback \in {"none", "format"}
        /\ data_storage_user_callback = "init_all"
    BY <2>1 DEF NvInv, ServicesInv, CreateInv, StorageInv, TransferInv, CallerInv, Waits,
                Reads, Writes
  <2> QED BY <1>0, <2>1, <2>2, Callbacks
<1> SUFFICES ASSUME ~CreationRefused
             PROVE  /\ data_storage_status' = "WAITING" /\ assign' = "none"
                    /\ assign \in {"none", "AREA_CREATE"}
                    /\ pcallerCallback \in {"none", "format"}
                    /\ UNCHANGED <<nvVars, data_storage_handle, data_services_buffer>>
                    /\ \/ /\ data_storage_status \in
                               {"READ", "READ_HEADER_COMPLETE", "READ_DATA_COMPLETE"}
                          /\ data_services_read_callback(ok)
                          /\ data_service_state = "READ_WAITING" /\ ForServices
                          /\ ok => /\ data_storage_status = "READ_DATA_COMPLETE"
                                   /\ GoodArea(data_storage_header, data_storage_handle,
                                               data_services_buffer)
                       \/ /\ data_storage_status \in {"WRITE", "WRITING_DATA_COMPLETE"}
                          /\ data_services_write_callback(FALSE)
                          /\ data_service_state = "WRITE_WAITING" /\ ForServices
                       \/ data_storage_status = "AREA_CLEAR" /\ UNCHANGED svcVars
  BY <1>0
<1>1. /\ data_storage_status \in {"READ", "READ_HEADER_COMPLETE", "READ_DATA_COMPLETE",
           "WRITE", "WRITING_DATA_COMPLETE", "AREA_CLEAR"}
      /\ data_storage_status' = "WAITING" /\ assign = "none" /\ assign' = "none"
      /\ UNCHANGED <<nvVars, data_storage_handle, data_services_buffer>>
      /\ ok => data_storage_status = "READ_DATA_COMPLETE"
      /\ ok => GoodArea(data_storage_header, data_storage_handle, data_services_buffer)
  BY ServiceEffect
     DEF NvInv, StorageTells, ReadChecked, RequestRefused, NothingToClear, Asks, Asking,
         Prepare, ramVars
<1>2. pcallerCallback \in {"none", "format"}
  BY <1>1 DEF NvInv, StorageInv, TransferInv, CallerInv, Waits, Reads, Writes
<1>3. CASE data_storage_status \in {"READ", "READ_HEADER_COMPLETE", "READ_DATA_COMPLETE"}
  BY <1>1, <1>2, <1>3, Callbacks DEF NvInv, ServicesInv, ReadInv, ReadStatuses
<1>4. CASE data_storage_status \in {"WRITE", "WRITING_DATA_COMPLETE"}
  <2>1. ~ok
    BY <1>1, <1>4
  <2> QED BY <1>1, <1>2, <1>4, <2>1, Callbacks DEF NvInv, ServicesInv, WriteInv,
                                                   WriteStatuses
<1>5. CASE data_storage_status = "AREA_CLEAR"
  BY <1>1, <1>2, <1>5, Callbacks DEF NvInv, ServicesInv, ClearInv
<1> QED BY <1>1, <1>3, <1>4, <1>5

(* ... and which one a completion calls.                                   *)
LEMMA ToldCallback ==
  ASSUME NvInv, CallerTold, StorageTold(Reported),
         IF TellsUser(pcallerCallback, Reported) THEN UserCallback(Reported)
         ELSE UNCHANGED svcVars
  PROVE  /\ pcallerCallback = "table" =>
              /\ data_services_init_all_callback(TRUE)
              /\ data_service_state = "INIT_WAIT" /\ ForServices
         /\ pcallerCallback = "write_header" =>
              /\ data_services_write_callback(TRUE)
              /\ data_service_state = "WRITE_WAITING" /\ ForServices
         /\ pcallerCallback \notin {"table", "write_header"} => UNCHANGED svcVars
<1>1. CASE pcallerCallback \in {"table", "write_header", "clear"}
  <2>1. UserCallback(TRUE)
    BY <1>1 DEF TellsUser, Reported
  <2> QED BY <1>1, <2>1, Callbacks DEF NvInv, ServicesInv, CreateInv, WriteInv, ClearInv
<1>2. CASE pcallerCallback \notin {"table", "write_header", "clear"}
  BY <1>2 DEF TellsUser, Reported
<1> QED BY <1>1, <1>2

(* The types of what the services own.                                     *)
SvcTypeOK ==
  /\ data_service_state \in ServiceStates
  /\ data_services_table_index \in 0 .. BlockCount + 1
  /\ data_services_do_all_areas \in BOOLEAN
  /\ data_services_serialize_flags \in Flags
  /\ stored \in [Blocks -> Contents]

(* The index passes the table by at most one: a callback that steps it     *)
(* finds it in the table.                                                  *)
LEMMA CallbackTypes ==
  ASSUME NvInv, NEW ok \in BOOLEAN, data_services_table_index \in Blocks,
         \/ data_services_init_all_callback(ok)
         \/ data_services_read_callback(ok)
         \/ data_services_write_callback(ok)
  PROVE  SvcTypeOK'
<1>1. SvcTypeOK /\ data_services_buffer \in Contents
  BY DEF NvInv, TypeOK, NvTypeOK, SvcTypeOK
<1>2. data_services_table_index' \in 0 .. BlockCount + 1
  BY <1>1, NvMemoryAssumption
     DEF SvcTypeOK, data_services_init_all_callback, data_services_read_callback,
         data_services_write_callback, Step, Blocks
<1>3. stored' \in [Blocks -> Contents]
  BY <1>1 DEF SvcTypeOK, data_services_init_all_callback, data_services_read_callback,
         data_services_write_callback
<1> QED
  BY <1>1, <1>2, <1>3
     DEF SvcTypeOK, data_services_init_all_callback, data_services_read_callback,
         data_services_write_callback, ServiceStates

(* The index of the services passes the table by at most one, in any step. *)
LEMMA ServicesTypeNext ==
  ASSUME NvInv, [Next]_vars
  PROVE  SvcTypeOK'
<1>0. SvcTypeOK
  BY DEF NvInv, TypeOK, SvcTypeOK
<1>1. ASSUME UNCHANGED svcVars
      PROVE  SvcTypeOK'
  BY <1>0, <1>1 DEF SvcTypeOK, svcVars, reqVars
<1>2. CASE data_storage_service
  <2>1. CASE Accepts
    <3>1. UNCHANGED svcVars
      BY <1>2, <2>1, AcceptedAlone
    <3> QED BY <1>1, <3>1
  <2>2. ASSUME NEW ok \in BOOLEAN, StorageTells(ok), UserCallback(ok), ~Accepts
        PROVE  SvcTypeOK'
    <3>1. \/ UNCHANGED svcVars
          \/ /\ data_services_table_index \in Blocks
             /\ \/ data_services_init_all_callback(FALSE)
                \/ data_services_read_callback(ok)
                \/ data_services_write_callback(FALSE)
      BY <1>2, <2>2, TellsEffect DEF ForServices, NvInv, ServicesInv, IndexInv
    <3> QED BY <1>1, <3>1, CallbackTypes
  <2> QED BY <1>1, <1>2, <2>1, <2>2 DEF data_storage_service
<1>3. CASE I2CInterrupt
  <2>1. CASE CallerTold /\ StorageTold(Reported) /\ ~UNCHANGED svcVars
    <3>1. /\ data_services_table_index \in Blocks
          /\ data_services_init_all_callback(TRUE) \/ data_services_write_callback(TRUE)
      BY <1>3, <2>1, ToldCallback DEF I2CInterrupt, ForServices
    <3> QED BY <3>1, CallbackTypes
  <2> QED BY <1>1, <1>3, <2>1 DEF I2CInterrupt
<1>4. CASE handleMessage
  <2>1. Junk \in Contents /\ 1 \in 0 .. BlockCount + 1 /\ 0 \in 0 .. BlockCount + 1
        /\ Blocks \subseteq 0 .. BlockCount + 1
    BY NvMemoryAssumption DEF Contents, Blocks
  <2>2. CASE ServiceMessage
    <3>1. PICK state \in {"READ", "WRITE"} :
                 data_services_all(state) \/ data_services_specific(state)
      BY <2>2 DEF ServiceMessage
    <3> QED
      BY <1>0, <2>1, <3>1
         DEF data_services_all, data_services_specific, Take, SvcTypeOK, ServiceStates,
             Flags
  <2>3. CASE ClearMessage
    BY <1>0, <2>1, <2>3 DEF ClearMessage, SvcTypeOK, reqVars
  <2> QED BY <1>1, <1>4, <2>2, <2>3 DEF handleMessage, OtherMessage
<1>5. CASE data_services
  <2>1. Junk \in Contents /\ 1 \in 0 .. BlockCount + 1
        /\ \A b \in Blocks : b \in 0 .. BlockCount + 1 /\ b + 1 \in 0 .. BlockCount + 1
    BY NvMemoryAssumption DEF Contents, Blocks
  <2>2. CASE data_services_init_all \/ InitCreate \/ InitLater \/ InitDone \/ BeyondTable
    BY <1>0, <2>1, <2>2
       DEF data_services_init_all, InitCreate, InitLater, InitDone, BeyondTable,
           svcVars, reqVars, SvcTypeOK, ServiceStates, Flags
  <2>3. CASE StepOver
    BY <1>0, <2>1, <2>3 DEF StepOver, InTable, Step, SvcTypeOK, ServiceStates
  <2>4. CASE data_services_read_done
    <3>1. data_services_table_index \in Blocks
      BY <2>4 DEF data_services_read_done, NvInv, ServicesInv, IndexInv
    <3> QED
      BY <1>0, <2>1, <2>4, <3>1 DEF data_services_read_done, Step, SvcTypeOK,
                                    ServiceStates
  <2>5. CASE ReadBlock \/ WriteBlock
    BY <1>0, <2>1, <2>5 DEF ReadBlock, WriteBlock, InTable, SvcTypeOK, ServiceStates,
                            reqVars
  <2> QED
    BY <1>1, <1>5, <2>2, <2>3, <2>4, <2>5 DEF data_services, NothingToDo
<1>6. CASE PowerFails
  <2>1. 1 \in 0 .. BlockCount + 1
    BY NvMemoryAssumption
  <2>2. /\ data_service_state' = "INIT" /\ data_services_table_index' = 1
        /\ data_services_do_all_areas' = FALSE
        /\ data_services_serialize_flags' = "startup" /\ UNCHANGED stored
    BY <1>6 DEF PowerFails
  <2> QED BY <1>0, <2>1, <2>2 DEF SvcTypeOK, ServiceStates, Flags
<1> QED
  BY <1>1, <1>2, <1>3, <1>4, <1>5, <1>6
     DEF Next, EventInterrupt, NvService, BusStops, ChipIsDone, Pulse, AboveUnchanged,
         vars

(* The types of the buffers in the RAM.                                    *)
RamTypeOK ==
  /\ data_storage_table \in Tables
  /\ data_storage_header \in Headers
  /\ data_services_buffer \in Contents

(* The buffers the storage prepares for a request.                         *)
LEMMA PrepareTypes ==
  ASSUME NvInv, Prepare
  PROVE  RamTypeOK'
<1>1. /\ data_storage_table \in Tables /\ data_storage_header \in Headers
      /\ data_services_buffer \in Contents /\ data_storage_handle \in Blocks \cup {0}
  BY DEF NvInv, TypeOK, NvTypeOK, DsTypeOK
<1>2. data_storage_table' \in Tables
  <2>1. CASE data_storage_status = "START"
    BY <1>1, <2>1 DEF Prepare, Tables
  <2>2. CASE data_storage_status = "CHECK_TABLE"
    <3>1. data_storage_table' = [preamble |-> TRUE, areas |-> {}, checksum |-> TRUE]
      BY <2>2 DEF Prepare
    <3> QED BY <3>1 DEF Tables
  <2>3. CASE data_storage_status \notin {"START", "CHECK_TABLE"}
    BY <1>1, <2>3 DEF Prepare
  <2> QED BY <2>1, <2>2, <2>3
<1>3. data_storage_header' \in Headers
  <2>1. BlankHeader \in Headers
    BY DEF BlankHeader, Headers, Contents
  <2>2. [preamble |-> TRUE, handle |-> data_storage_handle,
         checksum |-> data_services_buffer] \in Headers
    BY <1>1 DEF Headers
  <2> QED BY <1>1, <2>1, <2>2 DEF Prepare
<1> QED BY <1>1, <1>2, <1>3 DEF Prepare, RamTypeOK

(* The entry of an area that is put into the table, or taken out of it.    *)
LEMMA CreationTypes ==
  ASSUME NvInv, CreationMade \/ CreationRefused
  PROVE  RamTypeOK'
<1>1. data_storage_table \in Tables /\ RamTypeOK
  BY DEF NvInv, TypeOK, NvTypeOK, RamTypeOK
<1>2. data_storage_handle \in Blocks
  BY DEF CreationMade, CreationRefused, NvInv, StorageInv, HandleKnown
<1>3. data_storage_table' \in Tables
  <2>1. CASE CreationMade
    BY <1>1, <1>2, <2>1 DEF CreationMade, Tables
  <2>2. CASE CreationRefused
    BY <1>1, <1>2, <2>2 DEF CreationRefused, Tables
  <2> QED BY <2>1, <2>2
<1> QED BY <1>1, <1>3 DEF CreationMade, CreationRefused, RamTypeOK

(* The driver and the chip, whoever uses them.                             *)
McpTypeOK ==
  /\ bus \in {"free", "busy", "stopping"}
  /\ MCP24LC256_state \in
       {"STOPPED", "READING", "WRITING", "WAITING_WRITE", "FAILED_TRX"}
  /\ pcallerCallback \in StorageCallbacks
  /\ cell \in Cells
  /\ pages \in 0 .. TablePages
  /\ programming \in BOOLEAN
  /\ received \subseteq Blocks
  /\ ee \in EEPROMs
  /\ faults \in 0 .. MaxFaults

(* An accepted request gives the driver a cell and a number of pages that  *)
(* exist.                                                                  *)
LEMMA AcceptedTypes ==
  ASSUME NvInv, RequestAccepted
  PROVE  McpTypeOK'
<1> USE AcceptedEffect DEF NvInv
<1>1. McpTypeOK
  BY DEF TypeOK, NvTypeOK, McpTypeOK
<1>2. data_storage_status \notin {"START", "CHECK_TABLE"} => data_storage_handle \in Blocks
  BY DEF StorageInv, HandleKnown, Asking
<1>3. cell' \in Cells
  BY <1>2 DEF Requests, Request, Asking, Cells, TheTable, Cell
<1>4. pages' \in 0 .. TablePages
  <2>1. pages' \in {pages, Pages(cell') - 1}
    BY DEF RequestAccepted, udb_nv_memory_read, udb_nv_memory_write
  <2> QED BY <1>1, <2>1 DEF McpTypeOK, Pages, TablePages
<1>5. bus' = "busy"
  BY DEF RequestAccepted, udb_nv_memory_read, udb_nv_memory_write
<1>6. pcallerCallback' \in StorageCallbacks
  BY DEF Requests, Request, Asking, StorageCallbacks
<1> QED
  BY <1>1, <1>3, <1>4, <1>5, <1>6 DEF McpTypeOK, chipVars

(* The same for the creation of an area.                                   *)
LEMMA CreationAcceptedTypes ==
  ASSUME NvInv, CreationAccepted
  PROVE  McpTypeOK'
<1> USE CreationEffect DEF NvInv
<1>1. McpTypeOK
  BY DEF TypeOK, NvTypeOK, McpTypeOK
<1>2. cell' \in Cells /\ pages' \in 0 .. TablePages
  BY DEF Cells, Pages, TablePages, TheTable
<1>3. bus' = "busy"
  BY DEF CreationAccepted, udb_nv_memory_write
<1> QED
  BY <1>1, <1>2, <1>3 DEF McpTypeOK, chipVars, StorageCallbacks

(* What a read brings has the type of its buffer.                          *)
LEMMA ReadTypes ==
  ASSUME NvTypeOK, ReadDone
  PROVE  McpTypeOK' /\ RamTypeOK'
<1>1. ee.table \in Tables
  BY DEF NvTypeOK, EEPROMs
<1>2. cell.what = "header" => ee.header[cell.block] \in Headers
  BY CellBlock DEF NvTypeOK, EEPROMs
<1>3. cell.what = "data" => ee.data[cell.block] \in Contents
  BY CellBlock DEF NvTypeOK, EEPROMs
<1>4. RamTypeOK'
  BY <1>1, <1>2, <1>3 DEF ReadDone, NvTypeOK, RamTypeOK
<1>5. McpTypeOK'
  BY DEF ReadDone, NvTypeOK, McpTypeOK, chipVars, StorageCallbacks
<1> QED BY <1>4, <1>5

(* The other steps of the driver and the chip.                             *)
LEMMA DriverTypes ==
  ASSUME NvTypeOK,
         \/ PageSent \/ NextPage \/ WriteDone \/ Recovered \/ StillProgramming
         \/ TransferFailed \/ StopEnds \/ PageProgrammed
  PROVE  McpTypeOK'
<1>1. McpTypeOK /\ MaxFaults \in Nat
  BY NvMemoryAssumption DEF NvTypeOK, McpTypeOK
<1>2. CASE PageSent \/ WriteDone \/ Recovered \/ StopEnds
  BY <1>1, <1>2 DEF PageSent, WriteDone, Recovered, StopEnds, McpTypeOK, chipVars,
                    StorageCallbacks, NvTypeOK, Tables
<1>3. CASE NextPage
  <2>1. pages' \in 0 .. TablePages
    BY <1>1, <1>3 DEF NextPage, McpTypeOK, TablePages
  <2> QED BY <1>1, <1>3, <2>1 DEF NextPage, McpTypeOK, chipVars
<1>4. CASE StillProgramming
  <2>1. faults' \in 0 .. MaxFaults
    BY <1>1, <1>4 DEF StillProgramming, Fault, McpTypeOK
  <2> QED BY <1>1, <1>4, <2>1 DEF StillProgramming, McpTypeOK
<1>5. CASE TransferFailed
  <2>1. faults' \in 0 .. MaxFaults
    BY <1>1, <1>5 DEF TransferFailed, Fault, McpTypeOK
  <2>2. ee' \in EEPROMs
    BY <1>1, <1>5, CutType DEF TransferFailed, McpTypeOK
  <2> QED BY <1>1, <1>5, <2>1, <2>2 DEF TransferFailed, McpTypeOK, StorageCallbacks
<1>6. CASE PageProgrammed
  BY <1>1, <1>6, ProgrammedType DEF PageProgrammed, McpTypeOK, mcpVars
<1> QED BY <1>2, <1>3, <1>4, <1>5, <1>6

(* A restart cuts a page at most and clears the RAM.                       *)
LEMMA RestartTypes ==
  ASSUME NvTypeOK, NvRestart
  PROVE  McpTypeOK' /\ RamTypeOK'
<1>1. ee' \in EEPROMs
  BY CutType DEF NvRestart, NvTypeOK
<1>2. data_storage_header' \in Headers
  BY DEF NvRestart, BlankHeader, Headers, Contents
<1>3. data_storage_table' \in Tables
  BY DEF NvRestart, Tables
<1>4. cell' \in Cells
  BY DEF NvRestart, Cells
<1>5. pages' \in 0 .. TablePages
  BY DEF NvRestart, TablePages
<1>6. McpTypeOK'
  BY <1>1, <1>4, <1>5 DEF NvRestart, NvTypeOK, McpTypeOK, StorageCallbacks
<1> QED BY <1>2, <1>3, <1>6 DEF NvRestart, RamTypeOK, Contents

(* Driver, chip and buffers keep their types in every step.                *)
LEMMA NvTypeNext ==
  ASSUME NvInv, [Next]_vars
  PROVE  NvTypeOK'
<1>0. NvTypeOK /\ McpTypeOK /\ RamTypeOK
  BY DEF NvInv, TypeOK, NvTypeOK, McpTypeOK, RamTypeOK
<1>1. SUFFICES McpTypeOK' /\ RamTypeOK'
  BY DEF NvTypeOK, McpTypeOK, RamTypeOK
<1>2. ASSUME UNCHANGED nvVars
      PROVE  McpTypeOK'
  BY <1>0, <1>2 DEF nvVars, mcpVars, chipVars, McpTypeOK
<1>3. ASSUME UNCHANGED ramVars
      PROVE  RamTypeOK'
  BY <1>0, <1>3 DEF ramVars, RamTypeOK
<1>4. CASE data_storage_service
  <2>1. CASE Accepts
    <3>1. RequestAccepted => Prepare
      BY DEF RequestAccepted
    <3>2. CreationAccepted => UNCHANGED ramVars
      BY DEF CreationAccepted
    <3> QED
      BY <1>3, <2>1, <3>1, <3>2, AcceptedTypes, CreationAcceptedTypes, PrepareTypes
         DEF Accepts
  <2>2. CASE ~Accepts
    <3>1. UNCHANGED nvVars
      BY <1>4, <2>2, ServiceEffect DEF NvInv
    <3>2. UNCHANGED ramVars \/ Prepare \/ CreationMade \/ CreationRefused
      BY <1>4, <2>2
         DEF data_storage_service, StorageQuiet, StorageTells, StorageReturns, Accepts,
             TableRefused, RequestRefused, NothingToAsk, NothingToClear, ReadChecked
    <3> QED BY <1>2, <1>3, <3>1, <3>2, PrepareTypes, CreationTypes
  <2> QED BY <2>1, <2>2
<1>5. CASE data_services \/ handleMessage
  <2>1. UNCHANGED <<nvVars, data_storage_table, data_storage_header>>
    BY <1>5, ServicesEffect
  <2>2. UNCHANGED data_services_buffer \/ (Serialise /\ InTable)
    BY <1>5
       DEF data_services, handleMessage, data_services_init_all, InitCreate, InitLater,
           InitDone, BeyondTable, StepOver, ReadBlock, WriteBlock,
           data_services_read_done, NothingToDo, BelowUnchanged, ramVars
  <2>3. data_services_buffer' \in Contents
    BY <1>0, <2>2 DEF RamTypeOK, Serialise, InTable, Contents
  <2> QED BY <1>0, <1>2, <2>1, <2>3 DEF RamTypeOK
<1>6. CASE I2CInterrupt \/ BusStops \/ ChipIsDone
  <2>1. CASE ReadDone
    BY <1>0, <2>1, ReadTypes
  <2>2. CASE ~ReadDone
    <3>1. \/ PageSent \/ NextPage \/ WriteDone \/ Recovered \/ StillProgramming
          \/ TransferFailed \/ StopEnds \/ PageProgrammed
      BY <1>6, <2>2
         DEF I2CInterrupt, BusStops, ChipIsDone, CallerTold, CallerNotTold
    <3>2. UNCHANGED ramVars
      BY <3>1 DEF PageSent, NextPage, WriteDone, Recovered, StillProgramming,
                  TransferFailed, StopEnds, PageProgrammed
    <3> QED BY <1>0, <1>3, <3>1, <3>2, DriverTypes
  <2> QED BY <2>1, <2>2
<1>7. CASE NvService
  BY <1>0, <1>3, <1>7 DEF NvService, nv_memory_service, chipVars, McpTypeOK
<1>8. CASE Pulse \/ UNCHANGED vars
  BY <1>2, <1>3, <1>8 DEF Pulse, vars, belowVars
<1>9. CASE PowerFails
  BY <1>0, <1>9, RestartTypes DEF PowerFails
<1> QED
  BY <1>4, <1>5, <1>6, <1>7, <1>8, <1>9 DEF Next, EventInterrupt

(* The system starts in the invariant, with any contents of the chip that  *)
(* its blocks own.                                                         *)
LEMMA NvInvInit == Init /\ ee \in OwnEEPROMs => NvInv
<1> SUFFICES ASSUME Init, ee \in OwnEEPROMs
             PROVE  NvInv
  OBVIOUS
<1>1. RamTypeOK
  BY DEF Init, NvInit, RamTypeOK, BlankHeader, Headers, Tables, Contents
<1>2. McpTypeOK
  <2>1. TheTable \in Cells /\ 0 \in 0 .. TablePages /\ 0 \in 0 .. MaxFaults
    BY NvMemoryAssumption DEF Cells, TablePages
  <2>2. ee \in EEPROMs
    BY DEF OwnEEPROMs
  <2> QED BY <2>1, <2>2 DEF Init, NvInit, McpTypeOK, StorageCallbacks
<1>3. TypeOK
  <2>1. DsTypeOK /\ EventsTypeOK
    BY EventsAssumption
       DEF Init, DsInit, EventsInit, DsTypeOK, EventsTypeOK, Statuses, Asking,
           UserCallbacks
  <2>2. 1 \in 0 .. BlockCount + 1 /\ 0 \in 0 .. MaxCrashes
    BY NvMemoryAssumption, DataServicesAssumption
  <2>3. SvcTypeOK /\ crashes \in 0 .. MaxCrashes
    BY <2>2 DEF Init, SvcInit, SvcTypeOK, ServiceStates, Flags, Contents
  <2> QED
    BY <1>1, <1>2, <2>1, <2>3 DEF TypeOK, NvTypeOK, McpTypeOK, RamTypeOK, SvcTypeOK
<1> QED
  BY <1>3, StorageInvInit, ServicesInvInit DEF NvInv

(* Losses of power are counted up to the bound.                            *)
LEMMA CrashesCounted ==
  ASSUME TypeOK, [Next]_vars
  PROVE  crashes' \in 0 .. MaxCrashes
<1>1. UNCHANGED crashes \/ PowerFails
  BY DEF Next, EventInterrupt, NvService, data_storage_service, data_services,
         handleMessage, I2CInterrupt, BusStops, ChipIsDone, AboveUnchanged, Pulse, vars
<1> QED
  BY <1>1, DataServicesAssumption DEF TypeOK, PowerFails

(* The invariant is inductive.                                             *)
LEMMA NvInvNext ==
  ASSUME NvInv, [Next]_vars
  PROVE  NvInv'
<1>1. TypeOK'
  BY NvTypeNext, StorageTypeNext, EventsTypeNext, ServicesTypeNext, CrashesCounted
     DEF NvInv, TypeOK, SvcTypeOK
<1>2. StorageInv'
  BY StorageInvNext DEF NvInv
<1> QED
  BY <1>1, <1>2, ServicesInvNext DEF NvInv

(***************************************************************************)
(* Storage, services and driver keep to their types: the index of the      *)
(* services never passes the table by more than one, the handle and the    *)
(* addresses the driver is given are those of a block, and the pages still *)
(* to be written never run below zero.                                     *)
(***************************************************************************)
THEOREM TypeCorrect == Spec => []TypeOK
<1>1. NvInv => TypeOK
  BY DEF NvInv
<1> QED
  BY <1>1, NvInvInit, NvInvNext, PTL DEF Spec

(***************************************************************************)
(* While the services wait for a block the storage works on that block for *)
(* them: no request of a message, of the services or of a late assignment  *)
(* replaces theirs, and no callback that they wait for is lost with it     *)
(* (data_storage.c:470-632 with data_services.c:180-295, 468-540).         *)
(***************************************************************************)
THEOREM ServicesAwaitCorrect == Spec => []ServicesAwaitStorage
<1>1. NvInv => ServicesAwaitStorage
  BY DEF NvInv, ServicesInv
<1> QED
  BY <1>1, NvInvInit, NvInvNext, PTL DEF Spec

-----------------------------------------------------------------------------
(***************************************************************************)
(* The buffers of a write that is under way.                               *)
(***************************************************************************)

(* What the driver writes tells whose request it is.                       *)
LEMMA WhatIsWritten ==
  ASSUME StorageInv, MCP24LC256_state \in {"WRITING", "WAITING_WRITE"}
  PROVE  /\ cell.what = "table" <=> pcallerCallback \in {"format", "table"}
         /\ cell.what = "data" <=> pcallerCallback = "write"
         /\ cell.what = "header" <=> pcallerCallback = "write_header"
         /\ cell.what = "mark" <=> pcallerCallback = "clear"
         /\ pcallerCallback \in Writes
BY DEF StorageInv, TransferInv, Writes, TheTable, Cell

(* The buffer that is being sent is the same after the step, but for the   *)
(* area that is made while an empty table is sent.                         *)
TableKept ==
  \/ UNCHANGED data_storage_table
  \/ /\ pcallerCallback = "format"
     /\ \E areas \in {{}, {data_storage_handle}} :
          data_storage_table' = [data_storage_table EXCEPT !.areas = areas]

BuffersKept ==
  /\ cell.what = "table" => TableKept
  /\ cell.what = "data" => data_services_buffer' = data_services_buffer
  /\ cell.what \notin {"table", "data"} => data_storage_header' = data_storage_header

(* The storage prepares a buffer for a request only, and makes none while  *)
(* its own is written; while the table is formatted it may make an area,   *)
(* the only one in that table, and take it back.                           *)
LEMMA ServiceKeepsBuffers ==
  ASSUME NvInv, data_storage_service,
         MCP24LC256_state \in {"WRITING", "WAITING_WRITE"}
  PROVE  BuffersKept
<1>1. ~Accepts
  BY DEF Accepts, RequestAccepted, CreationAccepted, NvAccepts
<1>2. data_storage_table \in Tables
  BY DEF NvInv, TypeOK, NvTypeOK
<1>3. ASSUME cell.what = "table"
      PROVE  TableKept
  <2>1. pcallerCallback \in {"format", "table"}
    BY <1>3, WhatIsWritten DEF NvInv
  <2>2. /\ data_storage_status # "START"
        /\ data_storage_status = "CHECK_TABLE" => data_storage_check_table
        /\ pcallerCallback = "format" => data_storage_check_table /\ Listed = {}
        /\ data_storage_status = "AREA_CREATE" \/ assign = "AREA_CREATE" =>
              pcallerCallback = "format"
    BY <2>1 DEF NvInv, StorageInv, CallerInv, FormatInv
  <2>3. CASE /\ assign = "none" /\ data_storage_status = "AREA_CREATE"
             /\ data_storage_table' =
                  [data_storage_table EXCEPT !.areas = @ \cup {data_storage_handle},
                                             !.checksum = TRUE]
    <3>1. data_storage_table.areas = {} /\ data_storage_table.checksum = TRUE
      BY <1>2, <2>2, <2>3 DEF Listed, data_storage_check_table, Tables
    <3>2. data_storage_table' = [data_storage_table EXCEPT !.areas = {data_storage_handle}]
      BY <1>2, <2>3, <3>1 DEF Tables
    <3> QED BY <2>2, <2>3, <3>2 DEF TableKept
  <2>4. CASE /\ assign = "AREA_CREATE"
             /\ data_storage_table' =
                  [data_storage_table EXCEPT !.areas = @ \ {data_storage_handle}]
    <3>1. data_storage_table' = [data_storage_table EXCEPT !.areas = {}]
      BY <1>2, <2>2, <2>4 DEF Listed, Tables
    <3> QED BY <2>2, <2>4, <3>1 DEF TableKept
  <2>5. \/ UNCHANGED data_storage_table
        \/ /\ assign = "none" /\ data_storage_status = "AREA_CREATE"
           /\ data_storage_table' =
                [data_storage_table EXCEPT !.areas = @ \cup {data_storage_handle},
                                           !.checksum = TRUE]
        \/ /\ assign = "AREA_CREATE"
           /\ data_storage_table' =
                [data_storage_table EXCEPT !.areas = @ \ {data_storage_handle}]
    BY <1>1, <2>2, TableEffect DEF NvInv
  <2> QED BY <2>3, <2>4, <2>5 DEF TableKept
<1>4. UNCHANGED data_services_buffer
  BY <1>1 DEF data_storage_service, StorageQuiet, StorageTells, StorageReturns, Accepts,
              TableRefused, RequestRefused, NothingToAsk, NothingToClear, ReadChecked,
              CreationMade, CreationRefused, Prepare, ramVars
<1>5. ASSUME cell.what \notin {"table", "data"}
      PROVE  data_storage_header' = data_storage_header
  <2>1. pcallerCallback \in {"write_header", "clear"}
    BY <1>5, WhatIsWritten DEF NvInv, Writes
  <2>2. assign = "none" => data_storage_status \in {"WRITING_HEADER", "AREA_CLEARING"}
    BY <2>1 DEF NvInv, StorageInv, CallerInv, Waits
  <2> QED
    BY <1>1, <2>2
       DEF data_storage_service, StorageQuiet, StorageTells, StorageReturns, Accepts,
           TableRefused, RequestRefused, NothingToAsk, NothingToClear, ReadChecked,
           CreationMade, CreationRefused, Prepare, Asks, Asking, ramVars
<1> QED BY <1>3, <1>4, <1>5 DEF BuffersKept

(* Nobody but a loss of power changes the buffer that is being sent.       *)
LEMMA BuffersKeptNext ==
  ASSUME NvInv, [Next]_vars, MCP24LC256_state \in {"WRITING", "WAITING_WRITE"},
         crashes' = crashes
  PROVE  BuffersKept
<1>0. ASSUME UNCHANGED ramVars
      PROVE  BuffersKept
  BY <1>0 DEF ramVars, BuffersKept, TableKept
<1>1. CASE data_storage_service
  BY <1>1, ServiceKeepsBuffers
<1>2. CASE data_services \/ handleMessage
  <2>1. UNCHANGED <<data_storage_table, data_storage_header>>
    BY <1>2, ServicesEffect
  <2>2. UNCHANGED data_services_buffer \/ data_service_state \in {"READ", "WRITE"}
    BY <1>2
       DEF data_services, handleMessage, data_services_init_all, InitCreate, InitLater,
           InitDone, BeyondTable, StepOver, ReadBlock, WriteBlock,
           data_services_read_done, NothingToDo, BelowUnchanged, ramVars
  <2>3. cell.what = "data" => data_service_state = "WRITE_WAITING"
    <3>1. SUFFICES ASSUME pcallerCallback = "write"
                   PROVE  data_service_state = "WRITE_WAITING"
      BY WhatIsWritten DEF NvInv
    <3> QED
      BY <3>1 DEF NvInv, StorageInv, CallerInv, Waits, ServicesInv, WriteInv,
                  WriteStatuses
  <2> QED BY <2>1, <2>2, <2>3 DEF BuffersKept, TableKept
<1>3. CASE I2CInterrupt
  BY <1>0, <1>3 DEF I2CInterrupt, CallerTold, CallerNotTold, ReadDone, WriteDone,
                    TransferFailed, PageSent, NextPage, Recovered, StillProgramming
<1>4. CASE NvService \/ BusStops \/ ChipIsDone \/ Pulse \/ UNCHANGED vars
  BY <1>0, <1>4 DEF NvService, BusStops, StopEnds, ChipIsDone, PageProgrammed, Pulse,
                    belowVars, vars
<1>5. ~PowerFails
  BY DEF PowerFails, NvInv, TypeOK
<1> QED
  BY <1>1, <1>2, <1>3, <1>4, <1>5 DEF Next, EventInterrupt

(***************************************************************************)
(* Nobody writes a buffer that is being sent: the driver was given a       *)
(* pointer, and the storage, the services and the messages that come in    *)
(* the meantime leave what it points to alone (24LC256.c:101-106).  The    *)
(* one exception is the empty table of a format, for which nobody waits:   *)
(* an area that is created meanwhile is in it until the driver refuses to  *)
(* write it (data_storage.c:329, 338-351), and nothing else of it changes. *)
(***************************************************************************)
THEOREM BuffersCorrect == Spec => BuffersStable
<1> DEFINE
     Stable ==
       /\ MCP24LC256_state \in {"WRITING", "WAITING_WRITE"}
       /\ crashes' = crashes
       => CASE cell.what = "table" ->
                 \/ UNCHANGED data_storage_table
                 \/ /\ pcallerCallback = "format"
                    /\ \E areas \in {{}, {data_storage_handle}} :
                         data_storage_table' =
                           [data_storage_table EXCEPT !.areas = areas]
            [] cell.what = "data" -> data_services_buffer' = data_services_buffer
            [] OTHER -> data_storage_header' = data_storage_header
<1>1. NvInv /\ [Next]_vars => [Stable]_vars
  <2>1. SUFFICES ASSUME NvInv, [Next]_vars, crashes' = crashes,
                        MCP24LC256_state \in {"WRITING", "WAITING_WRITE"}
                 PROVE  CASE cell.what = "table" -> TableKept
                          [] cell.what = "data" ->
                               data_services_buffer' = data_services_buffer
                          [] OTHER -> data_storage_header' = data_storage_header
    BY Zenon DEF TableKept
  <2>2. BuffersKept
    BY <2>1, BuffersKeptNext
  <2>3. CASE cell.what = "table"
    BY <2>2, <2>3, cell.what # "data", Zenon DEF BuffersKept
  <2>4. CASE cell.what = "data"
    BY <2>2, <2>4, cell.what # "table", Zenon DEF BuffersKept
  <2>5. CASE cell.what \notin {"table", "data"}
    BY <2>2, <2>5, cell.what # "table", cell.what # "data", Zenon DEF BuffersKept
  <2> QED BY <2>3, <2>4, <2>5
<1> QED
  BY <1>1, NvInvInit, NvInvNext, PTL DEF Spec, BuffersStable

-----------------------------------------------------------------------------
(***************************************************************************)
(* Completions that are due.  CompletionDue is not inductive: the status   *)
(* that is waited in is assigned after the request was made, and what is   *)
(* about to be assigned has to have its completion as well.  An area that  *)
(* is made has its status before it is asked for.                          *)
(***************************************************************************)
Due(awaiting, callback) ==
  awaiting \in {data_storage_status, assign} => pcallerCallback = callback

(* For each status that is waited in, now or as soon as it is assigned,    *)
(* the completion that ends it.                                            *)
DueInv ==
  /\ assign # "AREA_CREATE" => Due("AREA_CREATING", "table")
  /\ Due("INIT", "init") /\ Due("AREA_CLEARING", "clear")
  /\ Due("WRITING_DATA", "write") /\ Due("WRITING_HEADER", "write_header")
  /\ Due("READING_HEADER", "read_header") /\ Due("READING_DATA", "read_data")

(* Without overtaking, a status is assigned before its completion comes,   *)
(* so that each step keeps the two together.                               *)
LEMMA DueInvNext ==
  ASSUME CanOvertake = FALSE, NvInv, DueInv, [Next]_vars
  PROVE  DueInv'
<1> USE DEF DueInv, Due
<1>1. CASE data_storage_service
  <2>1. CASE RequestAccepted
    BY <2>1, AcceptedEffect DEF NvInv, Requests, Request, Asking
  <2>2. CASE CreationAccepted
    BY <2>2, CreationEffect DEF NvInv
  <2>3. CASE ~Accepts
    BY <1>1, <2>3, ServiceEffect DEF NvInv, nvVars, mcpVars
  <2> QED BY <2>1, <2>2, <2>3 DEF Accepts
<1>2. CASE I2CInterrupt
  <2>1. CASE CallerNotTold /\ UNCHANGED dsVars
    BY <2>1 DEF CallerNotTold, PageSent, NextPage, Recovered, StillProgramming, dsVars
  <2>2. CASE CallerTold /\ StorageTold(Reported)
    <3>1. /\ assign \in {"none", "AREA_CREATE"} /\ assign' = assign
          /\ data_storage_status' = StatusAfter(pcallerCallback, TRUE)
      BY <2>2 DEF StorageTold, Reported
    <3>2. pcallerCallback' = "none" /\ pcallerCallback \in Reads \cup Writes \cup {"none"}
      BY <2>2, ToldEffect, BuffersRead DEF NvInv
    <3> QED BY <3>1, <3>2 DEF StatusAfter, Reads, Writes
  <2> QED BY <1>2, <2>1, <2>2 DEF I2CInterrupt
<1>3. CASE data_services \/ handleMessage
  BY <1>3, ServicesEffect DEF dsVars, StorageTakes, Takings, nvVars, mcpVars
<1>4. CASE NvService \/ BusStops \/ ChipIsDone \/ Pulse \/ UNCHANGED vars
  BY <1>4 DEF NvService, nv_memory_service, BusStops, StopEnds, ChipIsDone,
              PageProgrammed, Pulse, vars, belowVars, nvVars, mcpVars, dsVars,
              AboveUnchanged
<1>5. CASE PowerFails
  BY <1>5 DEF PowerFails
<1> QED
  BY <1>1, <1>2, <1>3, <1>4, <1>5 DEF Next, EventInterrupt

(***************************************************************************)
(* When no completion overtakes the assignment it should follow, a storage *)
(* that waits is waited for by the driver: faults, refusals and losses of  *)
(* power never leave it waiting for a completion that nobody owes it       *)
(* (data_storage.c:152-368 with 24LC256.c:131-192).                        *)
(***************************************************************************)
THEOREM CompletionDueCorrect ==
  ASSUME CanOvertake = FALSE
  PROVE  Spec => []CompletionDue
<1>1. Init => DueInv
  BY DEF Init, NvInit, DsInit, DueInv, Due
<1>2. NvInv /\ DueInv /\ [Next]_vars => DueInv'
  BY DueInvNext
<1>3. NvInv /\ DueInv => CompletionDue
  <2>1. SUFFICES ASSUME NvInv, DueInv, NEW s \in DOMAIN Requests,
                        assign # "AREA_CREATE", Requests[s].next # "none",
                        data_storage_status = Requests[s].next
                 PROVE  /\ pcallerCallback = Requests[s].callback
                        /\ MCP24LC256_state # "STOPPED"
    BY DEF CompletionDue
  <2>2. pcallerCallback = Requests[s].callback /\ pcallerCallback # "none"
    BY <2>1 DEF DueInv, Due, Requests, Request, Asking
  <2> QED BY <2>1, <2>2 DEF NvInv, StorageInv, DriverInv, StoppedMeansFree
<1> QED
  BY <1>1, <1>2, <1>3, NvInvInit, NvInvNext, PTL DEF Spec

-----------------------------------------------------------------------------
(***************************************************************************)
(* What a load makes the live parameters.  A header that matches says who  *)
(* wrote the data, as the chip never holds a header that vouches for the   *)
(* data of another block.                                                  *)
(***************************************************************************)
OwnInv ==
  /\ ee \in OwnEEPROMs
  /\ data_storage_header.handle \in Blocks =>
       data_storage_header.checksum \in Own(data_storage_header.handle)

(* The header that is being written is that of the data in the buffer, or  *)
(* a blank one.                                                            *)
HeaderInv ==
  /\ pcallerCallback = "write_header" =>
       data_storage_header = [preamble |-> TRUE, handle |-> data_storage_handle,
                              checksum |-> data_services_buffer]
  /\ pcallerCallback = "clear" => data_storage_header = BlankHeader

(* The invariant of what is loaded.                                        *)
WholeInv == OwnInv /\ HeaderInv /\ LoadedIsWhole

(* A header of its block put into the chip is still one of its block ...   *)
LEMMA HeaderOwned ==
  ASSUME NEW e \in OwnEEPROMs, NEW b \in Blocks, NEW h \in OwnHeaders(b)
  PROVE  [e EXCEPT !.header[b] = h] \in OwnEEPROMs
<1>1. h \in Headers
  BY DEF OwnHeaders, Own, Headers, Contents
<1>2. e \in EEPROMs /\ \A c \in Blocks : e.header[c] \in OwnHeaders(c) /\ e.data[c] \in Own(c)
  BY DEF OwnEEPROMs
<1> DEFINE n == [e EXCEPT !.header[b] = h]
<1>3. n \in EEPROMs
  BY <1>1, <1>2, HeaderReplaced
<1>4. /\ n.data = e.data
      /\ \A c \in Blocks : n.header[c] = IF c = b THEN h ELSE e.header[c]
  BY <1>2 DEF EEPROMs
<1> HIDE DEF n
<1>5. n \in OwnEEPROMs
  BY <1>2, <1>3, <1>4 DEF OwnEEPROMs
<1> QED BY <1>5 DEF n

(* ... and so is the data of a block, or a torn page of it.                *)
LEMMA DataOwned ==
  ASSUME NEW e \in OwnEEPROMs, NEW b \in Blocks, NEW d \in Own(b)
  PROVE  [e EXCEPT !.data[b] = d] \in OwnEEPROMs
<1>1. d \in Contents
  BY DEF Own, Contents
<1>2. e \in EEPROMs /\ \A c \in Blocks : e.header[c] \in OwnHeaders(c) /\ e.data[c] \in Own(c)
  BY DEF OwnEEPROMs
<1> DEFINE n == [e EXCEPT !.data[b] = d]
<1>3. n \in EEPROMs
  BY <1>1, <1>2 DEF EEPROMs
<1>4. /\ n.header = e.header
      /\ \A c \in Blocks : n.data[c] = IF c = b THEN d ELSE e.data[c]
  BY <1>2 DEF EEPROMs
<1> HIDE DEF n
<1>5. n \in OwnEEPROMs
  BY <1>2, <1>3, <1>4 DEF OwnEEPROMs
<1> QED BY <1>5 DEF n

(* The table has no owner.                                                 *)
LEMMA TableOwned ==
  ASSUME NEW e \in OwnEEPROMs, NEW n \in EEPROMs, n.header = e.header, n.data = e.data
  PROVE  n \in OwnEEPROMs
BY DEF OwnEEPROMs

(* A transfer that writes has the handle's cell, and a buffer of its own.  *)
LEMMA WrittenIsOwn ==
  ASSUME NvInv, WholeInv, MCP24LC256_state \in {"WRITING", "WAITING_WRITE"},
         cell.what # "table"
  PROVE  /\ cell.block \in Blocks
         /\ cell.what = "data" => data_services_buffer \in Own(cell.block)
         /\ cell.what = "header" => data_storage_header \in OwnHeaders(cell.block)
         /\ ee.header[cell.block] \in OwnHeaders(cell.block)
<1>1. cell.block \in Blocks /\ cell.what \in {"header", "data", "mark"}
  BY CellBlock DEF NvInv, TypeOK, NvTypeOK
<1>2. cell.what \in {"data", "header"} =>
        /\ cell.block = data_storage_handle
        /\ data_services_buffer \in {data_storage_handle} \X Values
  <2>1. SUFFICES ASSUME pcallerCallback \in {"write", "write_header"}
                 PROVE  /\ cell.block = data_storage_handle
                        /\ data_services_buffer \in {data_storage_handle} \X Values
    BY WhatIsWritten DEF NvInv
  <2>2. cell.block = data_storage_handle
    BY <2>1 DEF NvInv, StorageInv, TransferInv, Cell
  <2>3. \/ data_storage_status \in {"WRITE", "WRITING_DATA"}
        \/ pcallerCallback = "write_header"
    BY <2>1 DEF NvInv, StorageInv, CallerInv, Waits
  <2> QED BY <2>2, <2>3 DEF NvInv, ServicesInv, WriteInv, WriteStatuses
<1>3. cell.what = "data" => data_services_buffer \in Own(cell.block)
  BY <1>2 DEF Own
<1>4. cell.what = "header" => data_storage_header \in OwnHeaders(cell.block)
  <2>1. SUFFICES ASSUME cell.what = "header"
                 PROVE  data_storage_header \in OwnHeaders(cell.block)
    OBVIOUS
  <2>2. data_storage_header = [preamble |-> TRUE, handle |-> data_storage_handle,
                               checksum |-> data_services_buffer]
    BY <2>1, WhatIsWritten DEF NvInv, WholeInv, HeaderInv
  <2> QED BY <1>2, <2>1, <2>2 DEF OwnHeaders, Own
<1>5. ee.header[cell.block] \in OwnHeaders(cell.block)
  BY <1>1 DEF WholeInv, OwnInv, OwnEEPROMs
<1> QED BY <1>1, <1>3, <1>4, <1>5

(* What is programmed is the block that the handle names.                  *)
LEMMA ProgrammedOwned ==
  ASSUME NvInv, WholeInv, MCP24LC256_state \in {"WRITING", "WAITING_WRITE"}
  PROVE  Programmed \in OwnEEPROMs
<1>0. ee \in OwnEEPROMs /\ ee \in EEPROMs /\ Programmed \in EEPROMs
  BY ProgrammedType DEF WholeInv, OwnInv, OwnEEPROMs, NvInv, TypeOK
<1>1. CASE cell.what = "table"
  <2>1. Programmed.header = ee.header /\ Programmed.data = ee.data
    BY <1>0, <1>1 DEF Programmed, EEPROMs
  <2> QED BY <1>0, <2>1, TableOwned
<1>2. CASE cell.what = "header"
  BY <1>0, <1>2, WrittenIsOwn, HeaderOwned DEF Programmed
<1>3. CASE cell.what = "mark"
  <2> DEFINE h == [ee.header[cell.block] EXCEPT !.preamble = data_storage_header.preamble]
  <2>1. /\ cell.block \in Blocks
        /\ ee.header[cell.block] \in OwnHeaders(cell.block)
    BY <1>3, WrittenIsOwn
  <2>2. data_storage_header.preamble \in BOOLEAN
    BY DEF NvInv, TypeOK, NvTypeOK, Headers
  <2>3. h \in OwnHeaders(cell.block)
    BY <2>1, <2>2 DEF OwnHeaders
  <2>4. Programmed = [ee EXCEPT !.header[cell.block] = h]
    BY <1>0, <1>3, <2>1 DEF Programmed, EEPROMs
  <2> HIDE DEF h
  <2> QED BY <1>0, <2>1, <2>3, <2>4, HeaderOwned
<1>4. CASE cell.what = "data"
  BY <1>0, <1>4, WrittenIsOwn, DataOwned DEF Programmed
<1> QED
  BY <1>1, <1>2, <1>3, <1>4, CellBlock DEF NvInv, TypeOK, NvTypeOK

(* What remains of a write that was cut is of the block that was written,  *)
(* or is junk.                                                             *)
LEMMA CutOwned ==
  ASSUME NvInv, WholeInv, MCP24LC256_state \in {"WRITING", "WAITING_WRITE"}, NEW e \in Cut
  PROVE  e \in OwnEEPROMs
<1>0. ee \in OwnEEPROMs /\ ee \in EEPROMs /\ Programmed \in OwnEEPROMs
  BY ProgrammedOwned DEF WholeInv, OwnInv, OwnEEPROMs
<1>1. CASE cell.what = "table"
  <2> DEFINE n == [ee EXCEPT !.table.preamble = FALSE]
  <2>1. e \in {ee, Programmed, n}
    BY <1>1 DEF Cut
  <2>2. n.header = ee.header /\ n.data = ee.data
    BY <1>0 DEF EEPROMs
  <2>3. e \in EEPROMs
    BY CutType DEF NvInv, TypeOK
  <2> HIDE DEF n
  <2> QED BY <1>0, <2>1, <2>2, <2>3, TableOwned
<1>2. CASE cell.what = "header"
  <2>1. /\ cell.block \in Blocks
        /\ data_storage_header \in OwnHeaders(cell.block)
        /\ ee.header[cell.block] \in OwnHeaders(cell.block)
    BY <1>2, WrittenIsOwn
  <2> DEFINE Torn ==
        {[ee.header[cell.block] EXCEPT !.preamble = FALSE]} \cup
        {[data_storage_header EXCEPT !.checksum = c] :
           c \in {Junk, ee.header[cell.block].checksum}}
  <2>2. Torn \subseteq OwnHeaders(cell.block)
    BY <2>1 DEF OwnHeaders, Own
  <2>3. e \in {ee, Programmed} \cup {[ee EXCEPT !.header[cell.block] = h] : h \in Torn}
    BY <1>2 DEF Cut
  <2> HIDE DEF Torn
  <2>4. \A h \in Torn : [ee EXCEPT !.header[cell.block] = h] \in OwnEEPROMs
    BY <1>0, <2>1, <2>2, HeaderOwned
  <2> QED BY <1>0, <2>3, <2>4
<1>3. CASE cell.what = "mark"
  <2>1. e \in {ee, Programmed}
    BY <1>3 DEF Cut
  <2> QED BY <1>0, <2>1
<1>4. CASE cell.what = "data"
  <2>1. e \in {ee, Programmed, [ee EXCEPT !.data[cell.block] = Junk]}
    BY <1>4 DEF Cut
  <2>2. cell.block \in Blocks /\ Junk \in Own(cell.block)
    BY <1>4, WrittenIsOwn DEF Own
  <2> QED BY <1>0, <2>1, <2>2, DataOwned
<1> QED
  BY <1>1, <1>2, <1>3, <1>4, CellBlock DEF NvInv, TypeOK, NvTypeOK

(* The data buffer has three writers: the services while they prepare a    *)
(* save, a read of data for them, and a loss of power.                     *)
LEMMA BufferWriters ==
  ASSUME NvInv, [Next]_vars
  PROVE  \/ UNCHANGED data_services_buffer
         \/ data_service_state = "WRITE"
         \/ /\ ReadDone /\ pcallerCallback = "read_data"
            /\ data_storage_status \in {"READ_HEADER_COMPLETE", "READING_DATA"}
            /\ data_service_state = "READ_WAITING"
         \/ PowerFails
<1>1. CASE data_storage_service
  BY <1>1 DEF data_storage_service, StorageQuiet, StorageTells, StorageReturns,
              TableRefused, RequestRefused, NothingToAsk, NothingToClear, ReadChecked,
              RequestAccepted, CreationMade, CreationAccepted, CreationRefused, Prepare,
              ramVars
<1>2. CASE data_services \/ handleMessage
  BY <1>2 DEF data_services, handleMessage, data_services_init_all, InitCreate,
              InitLater, InitDone, BeyondTable, StepOver, ReadBlock, WriteBlock,
              data_services_read_done, NothingToDo, BelowUnchanged, ramVars
<1>3. CASE I2CInterrupt
  <2>1. CASE ReadDone
    <3>1. CASE pcallerCallback = "read_data"
      <4>1. data_storage_status \in {"READ_HEADER_COMPLETE", "READING_DATA"}
        BY <3>1 DEF NvInv, StorageInv, CallerInv, Waits
      <4>2. data_service_state = "READ_WAITING"
        BY <4>1 DEF NvInv, ServicesInv, ReadInv, ReadStatuses
      <4> QED BY <2>1, <3>1, <4>1, <4>2
    <3>2. CASE pcallerCallback # "read_data"
      BY <2>1, <3>2, BuffersRead DEF CallerTold, NvInv
    <3> QED BY <3>1, <3>2
  <2>2. CASE ~ReadDone
    BY <1>3, <2>2 DEF I2CInterrupt, CallerTold, CallerNotTold, WriteDone,
                      TransferFailed, PageSent, NextPage, Recovered, StillProgramming,
                      ramVars
  <2> QED BY <2>1, <2>2
<1>4. CASE NvService \/ BusStops \/ ChipIsDone \/ Pulse \/ UNCHANGED vars
  BY <1>4 DEF NvService, BusStops, StopEnds, ChipIsDone, PageProgrammed, Pulse,
              belowVars, vars, ramVars
<1> QED
  BY <1>1, <1>2, <1>3, <1>4 DEF Next, EventInterrupt

(* What becomes of the services' state, index and knowledge in a step.     *)
LEMMA ServicesStep ==
  ASSUME NvInv, [Next]_vars
  PROVE  \/ UNCHANGED svcVars
         \/ data_services \/ handleMessage \/ PowerFails
         \/ /\ data_storage_service
            /\ \E ok \in BOOLEAN :
                 StorageTells(ok) /\ UserCallback(ok) /\ ~Accepts
         \/ /\ I2CInterrupt /\ CallerTold /\ StorageTold(Reported)
            /\ IF TellsUser(pcallerCallback, Reported) THEN UserCallback(Reported)
               ELSE UNCHANGED svcVars
<1>1. CASE data_storage_service
  BY <1>1, AcceptedAlone DEF data_storage_service
<1>2. CASE I2CInterrupt
  BY <1>2 DEF I2CInterrupt
<1> QED
  BY <1>1, <1>2 DEF Next, EventInterrupt, NvService, BusStops, ChipIsDone, Pulse,
                    AboveUnchanged, vars

(* The buffer of a load that is good is filled by a read of its block and  *)
(* kept until it is copied.                                                *)
LEMMA LoadedIsWholeNext ==
  ASSUME NvInv, WholeInv, [Next]_vars
  PROVE  LoadedIsWhole'
<1>0. SUFFICES ASSUME data_service_state' = "READ_DONE"
               PROVE  data_services_buffer' \in {data_services_table_index'} \X Values
  BY DEF LoadedIsWhole
<1>1. CASE UNCHANGED <<data_service_state, data_services_table_index>>
  <2>1. UNCHANGED data_services_buffer
    BY <1>0, <1>1, BufferWriters DEF PowerFails
  <2> QED BY <1>0, <1>1, <2>1 DEF WholeInv, LoadedIsWhole
<1>2. CASE data_services
  BY <1>0, <1>1, <1>2
     DEF data_services, data_services_init_all, InitCreate, InitLater, InitDone,
         BeyondTable, StepOver, ReadBlock, WriteBlock, data_services_read_done,
         NothingToDo, svcVars, reqVars
<1>3. CASE handleMessage
  BY <1>0, <1>1, <1>3
     DEF handleMessage, ServiceMessage, ClearMessage, OtherMessage, data_services_all,
         data_services_specific, Take, svcVars, reqVars
<1>4. ASSUME data_storage_service, NEW ok \in BOOLEAN, StorageTells(ok), UserCallback(ok),
             ~Accepts
      PROVE  data_services_buffer' \in {data_services_table_index'} \X Values
  <2>1. CASE /\ data_storage_status \in
                  {"READ", "READ_HEADER_COMPLETE", "READ_DATA_COMPLETE"}
             /\ data_services_read_callback(ok) /\ ok
    <3>1. /\ UNCHANGED data_services_table_index /\ data_services_table_index \in Blocks
          /\ data_storage_handle = data_services_table_index
          /\ GoodArea(data_storage_header, data_storage_handle, data_services_buffer)
          /\ UNCHANGED data_services_buffer
      BY <1>4, <2>1, TellsEffect
         DEF data_services_read_callback, data_services_init_all_callback, ForServices
    <3>2. /\ data_storage_header.checksum \in Own(data_storage_handle)
          /\ data_storage_header.checksum = data_services_buffer
          /\ data_services_buffer # Junk
      BY <3>1 DEF WholeInv, OwnInv, GoodArea
    <3> QED BY <3>1, <3>2 DEF Own
  <2>2. CASE UNCHANGED svcVars
    BY <1>1, <2>2 DEF svcVars, reqVars
  <2>3. CASE \/ data_services_read_callback(FALSE) \/ data_services_write_callback(FALSE)
             \/ data_services_init_all_callback(FALSE)
    BY <1>0, <2>3 DEF data_services_read_callback, data_services_write_callback,
                      data_services_init_all_callback
  <2> QED BY <1>4, <2>1, <2>2, <2>3, TellsEffect
<1>5. CASE CallerTold /\ StorageTold(Reported)
           /\ IF TellsUser(pcallerCallback, Reported) THEN UserCallback(Reported)
              ELSE UNCHANGED svcVars
  BY <1>0, <1>1, <1>5, ToldCallback
     DEF data_services_write_callback, data_services_init_all_callback, svcVars, reqVars
<1> QED
  BY <1>0, <1>1, <1>2, <1>3, <1>4, <1>5, ServicesStep DEF PowerFails, svcVars, reqVars

(* What the chip holds changes when it has programmed a page, and when one *)
(* is cut by a fault or a loss of power.                                   *)
LEMMA ChipWriters ==
  ASSUME NvInv, [Next]_vars
  PROVE  \/ UNCHANGED ee
         \/ /\ MCP24LC256_state \in {"WRITING", "WAITING_WRITE"}
            /\ \/ ChipIsDone /\ ee' = Programmed
               \/ (TransferFailed \/ PowerFails) /\ ee' \in Cut
<1>1. SUFFICES ASSUME ~UNCHANGED ee
               PROVE  /\ MCP24LC256_state \in {"WRITING", "WAITING_WRITE"}
                      /\ \/ ChipIsDone /\ ee' = Programmed
                         \/ (TransferFailed \/ PowerFails) /\ ee' \in Cut
  OBVIOUS
<1>2. I2CInterrupt => TransferFailed
  BY <1>1 DEF I2CInterrupt, CallerTold, CallerNotTold, ReadDone, WriteDone, PageSent,
              NextPage, Recovered, StillProgramming, chipVars
<1>3. ~(data_services \/ handleMessage)
  BY <1>1, ServicesEffect DEF nvVars, chipVars
<1>4. ~data_storage_service
  BY <1>1, AcceptedEffect, CreationEffect, ServiceEffect
     DEF NvInv, nvVars, chipVars, Accepts
<1>5. ~(NvService \/ BusStops \/ Pulse \/ UNCHANGED vars)
  BY <1>1 DEF NvService, BusStops, StopEnds, Pulse, vars, belowVars, nvVars, chipVars
<1>6. TransferFailed \/ ChipIsDone \/ PowerFails
  BY <1>2, <1>3, <1>4, <1>5 DEF Next, EventInterrupt
<1> QED
  BY <1>1, <1>6 DEF TransferFailed, ChipIsDone, PageProgrammed, PowerFails, NvRestart,
                    NvInv, StorageInv, TransferInv

(* The header buffer: prepared for the data that was written, blanked,     *)
(* read, or left alone.                                                    *)
LEMMA OwnInvNext ==
  ASSUME NvInv, WholeInv, [Next]_vars
  PROVE  OwnInv'
<1>1. ee' \in OwnEEPROMs
  <2>1. CASE ~UNCHANGED ee
    BY <2>1, ChipWriters, ProgrammedOwned, CutOwned
  <2> QED BY <2>1 DEF WholeInv, OwnInv
<1>2. data_storage_header'.handle \in Blocks =>
        data_storage_header'.checksum \in Own(data_storage_header'.handle)
  <2>1. ASSUME UNCHANGED data_storage_header
        PROVE  data_storage_header'.handle \in Blocks =>
                 data_storage_header'.checksum \in Own(data_storage_header'.handle)
    BY <2>1 DEF WholeInv, OwnInv
  <2>2. ASSUME data_storage_header' = BlankHeader
        PROVE  data_storage_header'.handle \notin Blocks
    BY <2>2, NvMemoryAssumption DEF BlankHeader, Blocks
  <2>3. ASSUME Prepare
        PROVE  data_storage_header'.handle \in Blocks =>
                 data_storage_header'.checksum \in Own(data_storage_header'.handle)
    <3>1. CASE data_storage_status = "WRITING_DATA_COMPLETE"
      <4>1. data_services_buffer \in {data_storage_handle} \X Values
        BY <3>1 DEF NvInv, ServicesInv, WriteInv, WriteStatuses
      <4> QED BY <2>3, <3>1, <4>1 DEF Prepare, Own
    <3>2. CASE data_storage_status # "WRITING_DATA_COMPLETE"
      BY <2>1, <2>2, <2>3, <3>2 DEF Prepare
    <3> QED BY <3>1, <3>2
  <2>4. CASE data_storage_service
    <3>1. UNCHANGED data_storage_header \/ Prepare
      BY <2>4 DEF data_storage_service, StorageQuiet, StorageTells, StorageReturns,
           TableRefused, RequestRefused, NothingToAsk, NothingToClear, ReadChecked,
           RequestAccepted, CreationMade, CreationAccepted, CreationRefused, ramVars
    <3> QED BY <2>1, <2>3, <3>1
  <2>5. CASE ReadDone
    <3>1. CASE cell.what = "header"
      <4>1. cell.block \in Blocks
        BY <3>1, CellBlock DEF NvInv, TypeOK, NvTypeOK
      <4>2. ee.header[cell.block] \in OwnHeaders(cell.block)
        BY <4>1 DEF WholeInv, OwnInv, OwnEEPROMs
      <4>3. 0 \notin Blocks
        BY NvMemoryAssumption DEF Blocks
      <4> QED BY <2>5, <3>1, <4>2, <4>3 DEF ReadDone, OwnHeaders
    <3>2. CASE cell.what # "header"
      BY <2>1, <2>5, <3>2 DEF ReadDone
    <3> QED BY <3>1, <3>2
  <2>6. CASE I2CInterrupt /\ ~ReadDone
    BY <2>1, <2>6 DEF I2CInterrupt, CallerTold, CallerNotTold, WriteDone,
                      TransferFailed, PageSent, NextPage, Recovered, StillProgramming,
                      ramVars
  <2>7. CASE data_services \/ handleMessage
    BY <2>1, <2>7, ServicesEffect
  <2>8. CASE NvService \/ BusStops \/ ChipIsDone \/ Pulse \/ UNCHANGED vars
    BY <2>1, <2>8 DEF NvService, BusStops, StopEnds, ChipIsDone, PageProgrammed, Pulse,
                      belowVars, vars, ramVars
  <2>9. CASE PowerFails
    BY <2>2, <2>9 DEF PowerFails, NvRestart
  <2> QED
    BY <2>4, <2>5, <2>6, <2>7, <2>8, <2>9 DEF Next, EventInterrupt
<1> QED BY <1>1, <1>2 DEF OwnInv

(* A completion that the driver has stays there, with its handle, until it *)
(* is called or the power fails; a new one comes with an accepted request. *)
LEMMA CallerStep ==
  ASSUME NvInv, [Next]_vars
  PROVE  \/ data_storage_service /\ Accepts
         \/ pcallerCallback' = "none"
         \/ /\ UNCHANGED <<pcallerCallback, cell, crashes>> /\ ~PowerFails
            /\ data_storage_status # "WAITING" => UNCHANGED data_storage_handle
<1>1. CASE data_storage_service /\ ~Accepts
  <2>1. UNCHANGED crashes
    BY <1>1 DEF data_storage_service
  <2>2. ~PowerFails
    BY <2>1 DEF PowerFails, NvInv, TypeOK
  <2> QED BY <1>1, <2>1, <2>2, ServiceEffect DEF NvInv, nvVars, mcpVars
<1>2. CASE I2CInterrupt
  <2>1. UNCHANGED crashes
    BY <1>2 DEF I2CInterrupt
  <2>2. ~PowerFails
    BY <2>1 DEF PowerFails, NvInv, TypeOK
  <2>3. CASE CallerNotTold /\ UNCHANGED dsVars
    BY <2>1, <2>2, <2>3
       DEF CallerNotTold, PageSent, NextPage, Recovered, StillProgramming, dsVars
  <2>4. CASE CallerTold
    BY <2>4, ToldEffect DEF NvInv
  <2> QED BY <1>2, <2>3, <2>4 DEF I2CInterrupt
<1>3. CASE data_services \/ handleMessage
  <2>1. ~PowerFails
    BY <1>3, ServicesEffect DEF PowerFails, NvInv, TypeOK
  <2> QED BY <1>3, <2>1, ServicesEffect DEF nvVars, mcpVars, dsVars, StorageTakes
<1>4. CASE NvService \/ BusStops \/ ChipIsDone \/ Pulse \/ UNCHANGED vars
  <2>1. UNCHANGED <<pcallerCallback, cell, crashes, data_storage_handle>>
    BY <1>4 DEF NvService, nv_memory_service, BusStops, StopEnds, ChipIsDone,
                PageProgrammed, Pulse, vars, belowVars, nvVars, mcpVars, dsVars,
                AboveUnchanged
  <2>2. ~PowerFails
    BY <2>1 DEF PowerFails, NvInv, TypeOK
  <2> QED BY <2>1, <2>2
<1>5. CASE PowerFails
  BY <1>5 DEF PowerFails, NvRestart
<1> QED
  BY <1>1, <1>2, <1>3, <1>4, <1>5 DEF Next, EventInterrupt

(* The header is made when the data is in the chip, from the buffer it was *)
(* written from, and kept while it is on its way.                          *)
LEMMA HeaderInvNext ==
  ASSUME NvInv, WholeInv, [Next]_vars
  PROVE  HeaderInv'
<1>1. CASE RequestAccepted
  <2>1. pcallerCallback' = "write_header" => data_storage_status = "WRITING_DATA_COMPLETE"
    BY <1>1, AcceptedEffect DEF NvInv, Requests, Request, Asking
  <2>2. pcallerCallback' = "clear" => data_storage_status = "AREA_CLEAR"
    BY <1>1, AcceptedEffect DEF NvInv, Requests, Request, Asking
  <2>3. UNCHANGED <<data_storage_handle, data_services_buffer>>
    BY <1>1 DEF RequestAccepted, Prepare
  <2> QED BY <1>1, <2>1, <2>2, <2>3 DEF RequestAccepted, Prepare, HeaderInv
<1>2. CASE /\ UNCHANGED <<pcallerCallback, cell, crashes>> /\ ~PowerFails
           /\ data_storage_status # "WAITING" => UNCHANGED data_storage_handle
           /\ pcallerCallback' \in {"write_header", "clear"}
  <2>1. MCP24LC256_state \in {"WRITING", "WAITING_WRITE"}
    BY <1>2 DEF NvInv, StorageInv, TransferInv, Reads
  <2>2. cell.what \notin {"table", "data"}
    BY <1>2, <2>1, WhatIsWritten DEF NvInv
  <2>3. UNCHANGED data_storage_header
    BY <1>2, <2>1, <2>2, BuffersKeptNext DEF BuffersKept
  <2>4. ASSUME pcallerCallback = "write_header"
        PROVE  UNCHANGED <<data_services_buffer, data_storage_handle>>
    <3>1. /\ data_service_state = "WRITE_WAITING"
          /\ data_storage_status \in WriteStatuses
      BY <2>4 DEF NvInv, ServicesInv, WriteInv, ServicesAwaitStorage
    <3>2. UNCHANGED data_services_buffer
      BY <1>2, <3>1, BufferWriters
    <3> QED BY <1>2, <3>1, <3>2 DEF WriteStatuses
  <2> QED BY <1>2, <2>3, <2>4 DEF WholeInv, HeaderInv
<1>3. CASE pcallerCallback' \notin {"write_header", "clear"}
  BY <1>3 DEF HeaderInv
<1>4. CreationAccepted => pcallerCallback' = "table"
  BY CreationEffect DEF NvInv
<1> QED
  BY <1>1, <1>2, <1>3, <1>4, CallerStep DEF Accepts

(* At first nothing is loaded.                                             *)
LEMMA WholeInvInit == Init /\ ee \in OwnEEPROMs => WholeInv
BY NvMemoryAssumption
   DEF Init, NvInit, SvcInit, WholeInv, OwnInv, HeaderInv, LoadedIsWhole, BlankHeader,
       Blocks

(***************************************************************************)
(* What is made the live parameters is a whole value of the block that was *)
(* asked for, whatever was cut, torn or only said to be written before: a  *)
(* header that matches its data was written after it (data_storage.c:      *)
(* 304-317), and nobody uses the buffer between the checks and the copy    *)
(* (data_services.c:340-380).                                              *)
(***************************************************************************)
THEOREM LoadedWholeCorrect == Spec => []LoadedIsWhole
<1>1. NvInv /\ WholeInv /\ [Next]_vars => WholeInv'
  BY OwnInvNext, HeaderInvNext, LoadedIsWholeNext DEF WholeInv
<1>2. WholeInv => LoadedIsWhole
  BY DEF WholeInv
<1> QED
  BY <1>1, <1>2, WholeInvInit, NvInvInit, NvInvNext, PTL DEF Spec
=============================================================================
