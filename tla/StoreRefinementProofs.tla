----------------------- MODULE StoreRefinementProofs ------------------------
(***************************************************************************)
(* Theorems about what the EEPROM holds until the first transfer fails:    *)
(* what was said to be saved is there, and the services, with everything   *)
(* below them, implement BlockStore.                                       *)
(***************************************************************************)
EXTENDS StoreRefinement, NvMemoryProofs

(* The page that was sent is programmed.                                   *)
PageDone == MCP24LC256_state = "WAITING_WRITE" /\ ~programming

(* Nothing is said to be saved.                                            *)
Unsaved == \A b \in Blocks : stored[b] = Junk

(* A table that lists every block.                                         *)
FullTable == [preamble |-> TRUE, areas |-> Blocks, checksum |-> TRUE]

(***************************************************************************)
(* The inductive invariant, in parts.                                      *)
(***************************************************************************)

(* The chip has what the table in the RAM says, but for an area that is    *)
(* still being made; it may have one more, of which the table was sent     *)
(* before its creation was refused.                                        *)
InChip ==
  /\ ee.table.preamble = data_storage_table.preamble
  /\ ee.table.checksum = data_storage_table.checksum
  /\ Listed \subseteq ee.table.areas

(* So it is once the table was read, and but for the time it is being      *)
(* written; while anything is said to be saved the table lists every       *)
(* block, in the chip and in the RAM.                                      *)
TableSynced ==
  /\ data_storage_status \notin {"START", "INIT"} /\ pcallerCallback \notin {"format", "table"} =>
       InChip
  /\ \/ Unsaved
     \/ /\ ee.table = FullTable
        /\ data_storage_status \notin {"START", "INIT"} => data_storage_table = FullTable

(* The table reaches the chip page by page.                                *)
TableWritten ==
  pcallerCallback \in {"format", "table"} =>
    /\ pages <= 2
    /\ programming => Listed \subseteq received
    /\ pages < 2 \/ PageDone =>
         /\ ee.table.preamble = data_storage_table.preamble
         /\ Listed \cap FirstPage \subseteq ee.table.areas
    /\ pages < 1 \/ (pages = 1 /\ PageDone) => Listed \ FirstPage \subseteq ee.table.areas
    /\ pages = 0 /\ PageDone => ee.table.checksum = data_storage_table.checksum

(* The data is written before the header, the header before the services   *)
(* are told.                                                               *)
BlockWritten ==
  /\ \/ data_storage_status = "WRITING_DATA_COMPLETE"
     \/ pcallerCallback = "write_header"
     \/ pcallerCallback = "write" /\ PageDone
     => ee.data[data_storage_handle] = data_services_buffer
  /\ pcallerCallback = "write_header" /\ PageDone =>
       ee.header[data_storage_handle] = data_storage_header

(* What was read is what the chip holds.                                   *)
BlockRead ==
  /\ data_storage_status \in {"READ_HEADER_COMPLETE", "READING_DATA", "READ_DATA_COMPLETE"} =>
       data_storage_header = ee.header[data_storage_handle]
  /\ data_storage_status = "READ_DATA_COMPLETE" =>
       data_services_buffer = ee.data[data_storage_handle]

(* What is being written or erased is not said to be saved.                *)
NothingClaimed ==
  /\ \/ pcallerCallback \in {"format", "table"}
     \/ data_storage_status = "AREA_CREATE" \/ assign = "AREA_CREATE"
     => Unsaved
  /\ data_storage_status \in {"AREA_CLEAR", "AREA_CLEARING"} \/ assign = "AREA_CLEARING" =>
       stored[data_storage_handle] = Junk
  /\ data_service_state = "WRITE_WAITING" => stored[data_services_table_index] = Junk

(* No transfer has failed that the driver has still to recover from.       *)
NoFailure == MCP24LC256_state # "FAILED_TRX"

(* What holds while no transfer has failed.                                *)
FaultFree ==
  /\ NoFailure /\ TableSynced /\ TableWritten /\ BlockWritten /\ BlockRead /\ NothingClaimed
  /\ StoredDurable /\ LoadedIsStored

(* It is claimed up to the first failure only.                             *)
DataInv == faults = 0 => FaultFree

(* The inductive invariant.                                                *)
StoreInv == NvInv /\ WholeInv /\ DataInv

-----------------------------------------------------------------------------
(***************************************************************************)
(* What a page that is programmed or cut does to the chip.                 *)
(***************************************************************************)

(* The cells that are not written stay as they are.                        *)
Kept(e, b) == e.header[b] = ee.header[b] /\ e.data[b] = ee.data[b]

(* A write of the table leaves the areas alone, every other write the      *)
(* table and the areas of the other blocks.                                *)
LEMMA CutEffect ==
  ASSUME NvInv, MCP24LC256_state \in {"WRITING", "WAITING_WRITE"}, NEW e \in Cut
  PROVE  LET h == data_storage_handle IN
         /\ pcallerCallback \in {"format", "table"} =>
              e.header = ee.header /\ e.data = ee.data
         /\ pcallerCallback \notin {"format", "table"} =>
              /\ h \in Blocks /\ e.table = ee.table
              /\ \A b \in Blocks : b # h => Kept(e, b)
         /\ pcallerCallback = "write" =>
              e.header[h] = ee.header[h] /\ e.data[h] \in {ee.data[h], data_services_buffer, Junk}
         /\ pcallerCallback = "write_header" => e.data[h] = ee.data[h]
         /\ pcallerCallback = "clear" =>
              /\ e.data[h] = ee.data[h]
              /\ \/ e.header[h] = ee.header[h]
                 \/ e.header[h].preamble = data_storage_header.preamble
<1>0. ee \in EEPROMs /\ e \in EEPROMs /\ cell \in Cells
  BY CutType DEF NvInv, TypeOK, NvTypeOK
<1>1. CASE pcallerCallback \in {"format", "table"}
  <2>1. cell.what = "table"
    BY <1>1, WhatIsWritten DEF NvInv
  <2>2. e \in {ee, Programmed, [ee EXCEPT !.table.preamble = FALSE]}
    BY <2>1 DEF Cut
  <2>3. Programmed.header = ee.header /\ Programmed.data = ee.data
    BY <1>0, <2>1 DEF Programmed, EEPROMs
  <2>4. /\ [ee EXCEPT !.table.preamble = FALSE].header = ee.header
        /\ [ee EXCEPT !.table.preamble = FALSE].data = ee.data
    BY <1>0 DEF EEPROMs
  <2> QED BY <1>1, <2>2, <2>3, <2>4
<1>2. CASE pcallerCallback = "write"
  <2>1. cell = Cell("data", data_storage_handle) /\ data_storage_handle \in Blocks
    BY <1>2 DEF NvInv, StorageInv, TransferInv, HandleKnown
  <2>2. e \in {ee, [ee EXCEPT !.data[data_storage_handle] = data_services_buffer],
               [ee EXCEPT !.data[data_storage_handle] = Junk]}
    BY <2>1 DEF Cut, Programmed, Cell
  <2> QED BY <1>0, <1>2, <2>1, <2>2 DEF EEPROMs, Kept
<1>3. CASE pcallerCallback = "write_header"
  <2>1. cell = Cell("header", data_storage_handle) /\ data_storage_handle \in Blocks
    BY <1>3 DEF NvInv, StorageInv, TransferInv, HandleKnown
  <2>2. e = ee \/ \E h : e = [ee EXCEPT !.header[data_storage_handle] = h]
    BY <2>1 DEF Cut, Programmed, Cell
  <2> QED BY <1>0, <1>3, <2>1, <2>2 DEF EEPROMs, Kept
<1>4. CASE pcallerCallback = "clear"
  <2>1. cell = Cell("mark", data_storage_handle) /\ data_storage_handle \in Blocks
    BY <1>4 DEF NvInv, StorageInv, TransferInv, HandleKnown
  <2>2. e \in {ee, [ee EXCEPT !.header[data_storage_handle].preamble =
                                data_storage_header.preamble]}
    BY <2>1 DEF Cut, Programmed, Cell
  <2> QED BY <1>0, <1>4, <2>1, <2>2 DEF EEPROMs, Headers, Kept
<1> QED
  BY <1>1, <1>2, <1>3, <1>4, WhatIsWritten DEF NvInv, Writes

(* A page may be complete when the power is lost.                          *)
LEMMA ProgrammedIsCut == Programmed \in Cut
BY DEF Cut

-----------------------------------------------------------------------------
(***************************************************************************)
(* Steps, for the parts of the invariant that they can disturb.            *)
(***************************************************************************)

(* A step that leaves the count of faults at none is not one of them.      *)
LEMMA NoFault ==
  ASSUME NvInv, [Next]_vars, faults' = 0
  PROVE  faults = 0 /\ ~TransferFailed
<1>1. ~TransferFailed
  BY DEF TransferFailed, Fault, NvInv, TypeOK, NvTypeOK
<1>2. UNCHANGED faults \/ faults' = faults + 1
  <2>1. CASE data_storage_service
    BY <2>1, AcceptedEffect, CreationEffect, ServiceEffect
       DEF NvInv, nvVars, chipVars, Accepts
  <2>2. CASE data_services \/ handleMessage
    BY <2>2, ServicesEffect DEF nvVars, chipVars
  <2>3. CASE I2CInterrupt
    BY <2>3 DEF I2CInterrupt, CallerTold, CallerNotTold, ReadDone, WriteDone,
                TransferFailed, PageSent, NextPage, Recovered, StillProgramming,
                chipVars, Fault
  <2>4. CASE NvService \/ BusStops \/ ChipIsDone \/ Pulse \/ PowerFails \/ UNCHANGED vars
    BY <2>4 DEF NvService, BusStops, StopEnds, ChipIsDone, PageProgrammed, Pulse,
                PowerFails, NvRestart, vars, belowVars, nvVars, chipVars
  <2> QED BY <2>1, <2>2, <2>3, <2>4 DEF Next, EventInterrupt
<1>3. faults \in Nat
  BY DEF NvInv, TypeOK, NvTypeOK
<1> QED BY <1>1, <1>2, <1>3

(* The driver fails by a failing transfer, or by a bus that refuses it,    *)
(* and a stopped driver has the bus.                                       *)
LEMMA NoFailureNext ==
  ASSUME NvInv, NoFailure, [Next]_vars, faults' = 0
  PROVE  NoFailure'
<1>1. CASE data_storage_service
  BY <1>1, AcceptedEffect, CreationEffect, ServiceEffect
     DEF NvInv, nvVars, mcpVars, NoFailure, Accepts
<1>2. CASE data_services \/ handleMessage
  BY <1>2, ServicesEffect DEF nvVars, mcpVars, NoFailure
<1>3. CASE I2CInterrupt
  BY <1>3, NoFault
     DEF I2CInterrupt, CallerTold, CallerNotTold, ReadDone, WriteDone, PageSent,
         NextPage, Recovered, StillProgramming, NoFailure
<1>4. CASE NvService \/ BusStops \/ ChipIsDone \/ Pulse \/ PowerFails \/ UNCHANGED vars
  BY <1>4 DEF NvService, nv_memory_service, BusStops, StopEnds, ChipIsDone,
              PageProgrammed, Pulse, PowerFails, NvRestart, vars, belowVars, nvVars,
              mcpVars, NoFailure
<1> QED BY <1>1, <1>2, <1>3, <1>4 DEF Next, EventInterrupt

(* The progress of a write whose completion is still to come.              *)
LEMMA WriteStep ==
  ASSUME NvInv, [Next]_vars, ~PowerFails, pcallerCallback # "none",
         UNCHANGED pcallerCallback
  PROVE  /\ \/ UNCHANGED <<MCP24LC256_state, pages, programming, ee>>
            \/ /\ ChipIsDone /\ programming /\ ~PageDone
               /\ UNCHANGED pages /\ ee' = Programmed
            \/ ~PageDone /\ ~PageDone' /\ UNCHANGED <<pages, ee>>
            \/ /\ PageDone /\ ~PageDone' /\ UNCHANGED ee
               /\ pages' = pages - 1 /\ pages > 0
         /\ programming' => \/ programming /\ UNCHANGED received
                            \/ received' = data_storage_table.areas
<1>1. CASE data_storage_service
  BY <1>1, AcceptedEffect, CreationEffect, ServiceEffect
     DEF NvInv, nvVars, mcpVars, chipVars, Accepts
<1>2. CASE data_services \/ handleMessage
  BY <1>2, ServicesEffect DEF nvVars, mcpVars, chipVars
<1>3. CASE I2CInterrupt
  <2>1. ~CallerTold
    BY <1>3, ToldEffect DEF NvInv
  <2>2. ~Recovered
    BY DEF Recovered, NvInv, StorageInv, DriverInv, FailedHasNoCaller
  <2> QED
    BY <1>3, <2>1, <2>2
       DEF I2CInterrupt, CallerNotTold, PageSent, NextPage, StillProgramming, chipVars,
           PageDone
<1>4. CASE NvService \/ BusStops \/ Pulse \/ UNCHANGED vars
  BY <1>4 DEF NvService, nv_memory_service, BusStops, StopEnds, Pulse, vars, belowVars,
              nvVars, mcpVars, chipVars
<1>5. CASE ChipIsDone
  BY <1>5 DEF ChipIsDone, PageProgrammed, mcpVars, PageDone
<1> QED
  BY <1>1, <1>2, <1>3, <1>4, <1>5 DEF Next, EventInterrupt

(* When the completion of a write comes, its last page is programmed.      *)
LEMMA ToldWhenDone ==
  ASSUME NvInv, CallerTold, ~TransferFailed, pcallerCallback \in Writes
  PROVE  PageDone /\ pages = 0 /\ UNCHANGED <<ee, ramVars>>
<1>1. ~ReadDone
  BY DEF ReadDone, NvInv, StorageInv, TransferInv, Reads, Writes
<1> QED BY <1>1 DEF CallerTold, WriteDone, PageDone, chipVars

(* Once the services have started the table lists every block, in the RAM  *)
(* and in the chip.                                                        *)
LEMMA FullSynced ==
  ASSUME NvInv, FaultFree, ~Starting
  PROVE  ee.table = FullTable /\ data_storage_table = FullTable
<1>1. /\ storage_services_started /\ data_storage_table.areas = Blocks
      /\ data_storage_check_table
      /\ pcallerCallback \notin {"format", "table"} /\ assign # "AREA_CREATE"
  BY DEF NvInv, ServicesInv, TableInv, CreateInv, Starting
<1>2. ee.table \in Tables /\ data_storage_table \in Tables
  BY DEF NvInv, TypeOK, NvTypeOK, EEPROMs
<1>3. InChip
  BY <1>1 DEF FaultFree, TableSynced, storage_services_started
<1>4. ee.table.areas = Blocks
  BY <1>1, <1>2, <1>3 DEF InChip, Listed, Tables
<1> QED
  BY <1>1, <1>2, <1>3, <1>4 DEF InChip, data_storage_check_table, Tables, FullTable

(* What is in the chip when the header of a block was written.             *)
LEMMA BlockIsSaved ==
  ASSUME NvInv, WholeInv, FaultFree, pcallerCallback = "write_header"
  PROVE  LET h == data_storage_handle IN
         /\ h \in Blocks /\ h = data_services_table_index
         /\ data_services_buffer \in {h} \X Values /\ data_services_buffer # Junk
         /\ ee.table = FullTable /\ ee.data[h] = data_services_buffer
         /\ PageDone => GoodArea(ee.header[h], h, data_services_buffer)
<1>1. /\ data_storage_handle \in Blocks /\ data_storage_handle = data_services_table_index
      /\ data_services_buffer \in {data_storage_handle} \X Values
      /\ data_service_state = "WRITE_WAITING"
  BY DEF NvInv, ServicesInv, WriteInv, ForServices
<1>2. data_services_buffer # Junk
  BY <1>1, NvMemoryAssumption DEF Blocks
<1>5. ee.table = FullTable
  BY <1>1, FullSynced DEF Starting
<1>6. ee.data[data_storage_handle] = data_services_buffer
  BY DEF FaultFree, BlockWritten
<1>7. PageDone => GoodArea(ee.header[data_storage_handle], data_storage_handle,
                           data_services_buffer)
  BY <1>2 DEF FaultFree, BlockWritten, WholeInv, HeaderInv, GoodArea
<1> QED BY <1>1, <1>2, <1>5, <1>6, <1>7

(* What the services claim to be saved changes when a write begins, when   *)
(* one is done, and when an area is to be cleared.                         *)
LEMMA StoredStep ==
  ASSUME NvInv, [Next]_vars, ~TransferFailed, NEW b \in Blocks
  PROVE  \/ stored'[b] \in {stored[b], Junk}
         \/ /\ CallerTold /\ pcallerCallback = "write_header"
            /\ b = data_storage_handle /\ stored'[b] = data_services_buffer
<1>0. stored \in [Blocks -> Contents]
  BY DEF NvInv, TypeOK
<1>1. CASE data_services
  BY <1>0, <1>1
     DEF data_services, data_services_init_all, InitCreate, InitLater, InitDone,
         BeyondTable, StepOver, ReadBlock, WriteBlock, data_services_read_done,
         NothingToDo, svcVars
<1>2. CASE handleMessage
  BY <1>0, <1>2
     DEF handleMessage, ServiceMessage, ClearMessage, OtherMessage, data_services_all,
         data_services_specific, Take, svcVars
<1>3. ASSUME data_storage_service, NEW ok \in BOOLEAN, StorageTells(ok), UserCallback(ok),
             ~Accepts
      PROVE  UNCHANGED stored
  BY <1>3, TellsEffect
     DEF data_services_read_callback, data_services_write_callback,
         data_services_init_all_callback, svcVars
<1>4. ASSUME CallerTold, StorageTold(Reported),
             IF TellsUser(pcallerCallback, Reported) THEN UserCallback(Reported)
             ELSE UNCHANGED svcVars
      PROVE  \/ UNCHANGED stored
             \/ /\ pcallerCallback = "write_header"
                /\ stored' = [stored EXCEPT ![data_storage_handle] = data_services_buffer]
  BY <1>4, ToldCallback
     DEF data_services_write_callback, data_services_init_all_callback, svcVars,
         ForServices
<1> QED
  BY <1>0, <1>1, <1>2, <1>3, <1>4, ServicesStep DEF PowerFails, svcVars

-----------------------------------------------------------------------------
(***************************************************************************)
(* The table.                                                              *)
(***************************************************************************)

(* A completion goes when it is called, or the power with it.              *)
LEMMA CompletionGoes ==
  ASSUME NvInv, [Next]_vars, ~PowerFails, pcallerCallback # "none",
         pcallerCallback' # pcallerCallback
  PROVE  I2CInterrupt /\ CallerTold /\ StorageTold(Reported)
<1>1. ~data_storage_service
  BY AcceptedEffect, CreationEffect, ServiceEffect DEF NvInv, nvVars, mcpVars, Accepts
<1>2. ~(data_services \/ handleMessage)
  BY ServicesEffect DEF nvVars, mcpVars
<1>3. ~(NvService \/ BusStops \/ ChipIsDone \/ Pulse \/ UNCHANGED vars)
  BY DEF NvService, nv_memory_service, BusStops, StopEnds, ChipIsDone, PageProgrammed,
         Pulse, vars, belowVars, nvVars, mcpVars
<1>4. I2CInterrupt /\ ~CallerNotTold
  BY <1>1, <1>2, <1>3
     DEF Next, EventInterrupt, CallerNotTold, PageSent, NextPage, Recovered,
         StillProgramming
<1> QED BY <1>4 DEF I2CInterrupt

(* What is listed in the table in the RAM stays the same while it is being *)
(* written.                                                                *)
LEMMA ListedKept ==
  ASSUME NvInv, [Next]_vars, ~PowerFails, UNCHANGED pcallerCallback,
         pcallerCallback \in {"format", "table"}
  PROVE  /\ Listed' = Listed
         /\ data_storage_table'.preamble = data_storage_table.preamble
         /\ data_storage_table'.checksum = data_storage_table.checksum
<1>1. NvInv'
  BY NvInvNext
<1>2. CASE pcallerCallback = "format"
  <2>1. /\ data_storage_check_table /\ Listed = {}
        /\ data_storage_check_table' /\ Listed' = {}
    BY <1>1, <1>2 DEF NvInv, StorageInv, FormatInv
  <2>2. data_storage_table \in Tables /\ data_storage_table' \in Tables
    BY <1>1 DEF NvInv, TypeOK, NvTypeOK, Tables, Blocks
  <2> QED BY <2>1, <2>2 DEF data_storage_check_table, Tables
<1>3. CASE pcallerCallback = "table"
  <2>1. /\ MCP24LC256_state \in {"WRITING", "WAITING_WRITE"} /\ cell.what = "table"
        /\ assign # "AREA_CREATE" /\ assign' # "AREA_CREATE"
    BY <1>1, <1>3 DEF NvInv, StorageInv, TransferInv, CallerInv, Reads, TheTable
  <2>2. crashes' = crashes
    BY <1>3, CallerStep, AcceptedEffect, CreationEffect DEF NvInv, Accepts
  <2>3. UNCHANGED data_storage_table
    BY <1>3, <2>1, <2>2, BuffersKeptNext DEF BuffersKept, TableKept
  <2> QED BY <2>1, <2>3 DEF Listed
<1> QED BY <1>2, <1>3

(* What a page of the table puts in the chip.                              *)
LEMMA TablePage ==
  ASSUME NvInv, cell.what = "table", programming, Listed \subseteq received
  PROVE  LET t == data_storage_table
             n == Programmed.table
         IN  /\ pages = 2 =>
                  n.preamble = t.preamble /\ Listed \cap FirstPage \subseteq n.areas
             /\ pages = 1 =>
                  /\ n.preamble = ee.table.preamble
                  /\ ee.table.areas \cap FirstPage \subseteq n.areas
                  /\ Listed \ FirstPage \subseteq n.areas
             /\ pages \notin {1, 2} =>
                  /\ n.preamble = ee.table.preamble /\ n.areas = ee.table.areas
                  /\ n.checksum = t.checksum
<1>0. ee \in EEPROMs /\ ee.table \in Tables
  BY DEF NvInv, TypeOK, NvTypeOK, EEPROMs
<1>1. CASE pages = 2
  <2> DEFINE a == (ee.table.areas \ FirstPage) \cup (received \cap FirstPage)
  <2>1. Programmed = [ee EXCEPT !.table =
                        [@ EXCEPT !.preamble = data_storage_table.preamble, !.areas = a]]
    BY <1>1 DEF Programmed, Areas
  <2>2. Listed \cap FirstPage \subseteq a
    OBVIOUS
  <2> HIDE DEF a
  <2>3. Programmed.table =
          [ee.table EXCEPT !.preamble = data_storage_table.preamble, !.areas = a]
    BY <1>0, <2>1 DEF EEPROMs
  <2>4. Programmed.table.preamble = data_storage_table.preamble /\ Programmed.table.areas = a
    BY <1>0, <2>3 DEF Tables
  <2> QED BY <1>1, <2>2, <2>4
<1>2. CASE pages = 1
  <2> DEFINE a == (ee.table.areas \cap FirstPage) \cup (received \ FirstPage)
  <2>1. Programmed = [ee EXCEPT !.table = [@ EXCEPT !.areas = a]]
    BY <1>2 DEF Programmed, Areas
  <2>2. ee.table.areas \cap FirstPage \subseteq a /\ Listed \ FirstPage \subseteq a
    OBVIOUS
  <2> HIDE DEF a
  <2> QED BY <1>0, <1>2, <2>1, <2>2 DEF EEPROMs, Tables
<1>3. CASE pages \notin {1, 2}
  <2>1. Programmed = [ee EXCEPT !.table =
                        [@ EXCEPT !.checksum = data_storage_table.checksum]]
    BY <1>3 DEF Programmed
  <2> QED BY <1>0, <1>3, <2>1 DEF EEPROMs, Tables
<1> QED BY <1>1, <1>2, <1>3

(* A write of the table begins with its first page.                        *)
LEMMA TableAsked ==
  ASSUME NvInv, Accepts, pcallerCallback' \in {"format", "table"}
  PROVE  /\ MCP24LC256_state' = "WRITING" /\ pages' = 2 /\ ~programming'
         /\ pcallerCallback = "none"
         /\ \/ data_storage_status = "CHECK_TABLE" /\ RequestAccepted
            \/ CreationAccepted
<1>1. CASE RequestAccepted
  <2>1. /\ data_storage_status = "CHECK_TABLE" /\ pcallerCallback = "none" /\ ~programming'
        /\ Requests[data_storage_status].write
        /\ Requests[data_storage_status].cell = TheTable
        /\ MCP24LC256_state' = "WRITING"
    BY <1>1, AcceptedEffect DEF NvInv, Requests, Request, Asking, chipVars
  <2> QED BY <1>1, <2>1 DEF RequestAccepted, udb_nv_memory_write, Pages, TheTable,
                            TablePages
<1>2. CASE CreationAccepted
  BY <1>2, CreationEffect DEF NvInv, chipVars, Pages, TheTable, TablePages
<1> QED BY <1>1, <1>2 DEF Accepts

(* Each page of a write of the table puts its part of it in the chip and   *)
(* keeps the parts before.                                                 *)
LEMMA TableWrittenNext ==
  ASSUME NvInv, FaultFree, [Next]_vars
  PROVE  TableWritten'
<1>1. CASE Accepts
  BY <1>1, TableAsked DEF TableWritten, PageDone
<1>2. CASE /\ UNCHANGED <<pcallerCallback, cell, crashes>> /\ ~PowerFails
           /\ pcallerCallback' \in {"format", "table"}
  <2>1. /\ cell.what = "table" /\ Listed' = Listed
        /\ data_storage_table'.preamble = data_storage_table.preamble
        /\ data_storage_table'.checksum = data_storage_table.checksum
    BY <1>2, ListedKept DEF NvInv, StorageInv, TransferInv, TheTable
  <2>2. pages \in 0 .. 3
    BY DEF NvInv, TypeOK, NvTypeOK, TablePages
  <2>3. TableWritten
    BY DEF FaultFree
  <2>4. programming' => Listed' \subseteq received'
    BY <1>2, <2>1, <2>3, WriteStep DEF TableWritten, Listed
  <2>5. CASE UNCHANGED <<MCP24LC256_state, pages, programming, ee>>
    BY <1>2, <2>1, <2>3, <2>4, <2>5 DEF TableWritten, PageDone
  <2>6. CASE ChipIsDone /\ programming /\ ~PageDone /\ UNCHANGED pages /\ ee' = Programmed
    <3>1. CASE pages = 2
      BY <1>2, <2>1, <2>3, <2>4, <2>6, <3>1, TablePage DEF TableWritten
    <3>2. CASE pages = 1
      BY <1>2, <2>1, <2>3, <2>4, <2>6, <3>2, TablePage DEF TableWritten
    <3>3. CASE pages = 0
      BY <1>2, <2>1, <2>3, <2>4, <2>6, <3>3, TablePage DEF TableWritten
    <3> QED BY <1>2, <2>2, <2>3, <3>1, <3>2, <3>3 DEF TableWritten
  <2>7. CASE ~PageDone /\ ~PageDone' /\ UNCHANGED <<pages, ee>>
    BY <1>2, <2>1, <2>3, <2>4, <2>7 DEF TableWritten
  <2>8. CASE PageDone /\ ~PageDone' /\ pages' = pages - 1 /\ pages > 0 /\ UNCHANGED ee
    <3>1. pages \in {1, 2}
      BY <1>2, <2>2, <2>3, <2>8 DEF TableWritten
    <3> QED BY <1>2, <2>1, <2>3, <2>4, <2>8, <3>1 DEF TableWritten
  <2> QED BY <1>2, <2>5, <2>6, <2>7, <2>8, WriteStep
<1>3. CASE pcallerCallback' = "none"
  BY <1>3 DEF TableWritten
<1> QED BY <1>1, <1>2, <1>3, CallerStep DEF TableWritten

(* When the table was read or written, the chip has what it says.          *)
LEMMA TableReadOrWritten ==
  ASSUME NvInv, FaultFree, CallerTold, ~TransferFailed, StorageTold(Reported),
         pcallerCallback \in {"init", "format", "table"}
  PROVE  /\ InChip' /\ UNCHANGED ee
         /\ pcallerCallback = "init" => data_storage_table' = ee.table
<1>1. CASE pcallerCallback = "init"
  <2>1. ReadDone /\ cell.what = "table"
    BY <1>1 DEF CallerTold, WriteDone, NvInv, StorageInv, TransferInv, Writes, TheTable
  <2>2. data_storage_table' = ee.table /\ UNCHANGED ee
    BY <1>1, <2>1 DEF ReadDone, chipVars
  <2> QED BY <2>2 DEF InChip, Listed
<1>2. CASE pcallerCallback \in {"format", "table"}
  <2>1. PageDone /\ pages = 0 /\ UNCHANGED <<ee, data_storage_table>>
    BY <1>2, ToldWhenDone DEF Writes, ramVars
  <2>2. /\ ee.table.preamble = data_storage_table.preamble
        /\ Listed \cap FirstPage \subseteq ee.table.areas
        /\ Listed \ FirstPage \subseteq ee.table.areas
        /\ ee.table.checksum = data_storage_table.checksum
    BY <1>2, <2>1 DEF FaultFree, TableWritten
  <2>3. Listed \subseteq ee.table.areas
    BY <2>2
  <2>4. Listed' = Listed
    BY <2>1 DEF StorageTold, Listed
  <2> QED BY <1>2, <2>1, <2>2, <2>3, <2>4 DEF InChip
<1> QED BY <1>1, <1>2

(* Without failing transfers the chip changes when a page is programmed,   *)
(* or cut by a loss of power.                                              *)
LEMMA ChipStep ==
  ASSUME NvInv, [Next]_vars, faults' = 0
  PROVE  \/ UNCHANGED ee
         \/ /\ MCP24LC256_state \in {"WRITING", "WAITING_WRITE"} /\ ee' \in Cut
            /\ (ChipIsDone /\ ee' = Programmed) \/ PowerFails
BY NoFault, ChipWriters, ProgrammedIsCut

(* A block that is said to be saved afterwards was so before, or is the    *)
(* one whose header was just written.                                      *)
LEMMA ClaimsStep ==
  ASSUME NvInv, WholeInv, FaultFree, [Next]_vars, faults' = 0, NEW b \in Blocks,
         stored'[b] # Junk
  PROVE  \/ stored'[b] = stored[b]
         \/ /\ CallerTold /\ pcallerCallback = "write_header" /\ PageDone
            /\ b = data_storage_handle /\ stored'[b] = data_services_buffer
            /\ UNCHANGED <<ee, ramVars>>
BY NoFault, StoredStep, ToldWhenDone DEF Writes

(* What becomes of the table in the RAM: read anew, made new for the chip, *)
(* one area made or taken back, or what it was.                            *)
LEMMA TableStep ==
  ASSUME NvInv, [Next]_vars, ~TransferFailed, data_storage_status' \notin {"START", "INIT"}
  PROVE  \/ CallerTold /\ StorageTold(Reported) /\ pcallerCallback = "init"
         \/ /\ data_storage_status \notin {"START", "INIT"}
            /\ \/ /\ RequestAccepted /\ data_storage_status = "CHECK_TABLE"
                  /\ pcallerCallback' = "format"
               \/ /\ UNCHANGED data_storage_table
                  /\ Listed' = Listed \/ pcallerCallback' = "table"
               \/ /\ data_storage_status = "AREA_CREATE" \/ assign = "AREA_CREATE"
                  /\ data_storage_table'.preamble = data_storage_table.preamble
                  /\ data_storage_table'.checksum = data_storage_table.checksum
                  /\ Listed' \subseteq Listed
<1>1. CASE data_storage_service /\ RequestAccepted
  <2>1. /\ data_storage_status \in Asking \ {"START"} /\ assign' # "AREA_CREATE"
        /\ assign # "AREA_CREATE"
        /\ data_storage_status = "CHECK_TABLE" => pcallerCallback' = "format"
    BY <1>1, AcceptedEffect
       DEF NvInv, StorageInv, LateInv, Requests, Request, Asking
  <2>2. data_storage_status # "CHECK_TABLE" => UNCHANGED data_storage_table
    BY <1>1, <2>1 DEF RequestAccepted, Prepare
  <2> QED BY <1>1, <2>1, <2>2 DEF Asking, Listed
<1>2. CASE data_storage_service /\ CreationAccepted
  BY <1>2, CreationEffect DEF NvInv, ramVars
<1>3. CASE data_storage_service /\ ~Accepts
  <2>1. /\ data_storage_status \notin {"START", "INIT"}
        /\ UNCHANGED data_storage_handle
    <3>1. assign \in Awaiting \cup {"AREA_CREATE", "none"}
      BY DEF NvInv, TypeOK, DsTypeOK
    <3> QED BY <1>3, <3>1, ServiceEffect DEF NvInv, StorageInv, LateInv, Awaiting, Asking
  <2>2. data_storage_table \in Tables
    BY DEF NvInv, TypeOK, NvTypeOK
  <2>3. CASE /\ UNCHANGED data_storage_table
             /\ assign # "AREA_CREATE" /\ assign' # "AREA_CREATE"
    BY <2>1, <2>3 DEF Listed
  <2>4. CASE /\ assign = "none" /\ assign' = "AREA_CREATE"
             /\ data_storage_status = "AREA_CREATE"
             /\ data_storage_table' =
                  [data_storage_table EXCEPT !.areas = @ \cup {data_storage_handle},
                                             !.checksum = TRUE]
    <3>1. data_storage_table.checksum = TRUE
      BY <2>2, <2>4 DEF NvInv, ServicesInv, TableInv, storage_services_started,
                        data_storage_check_table, Tables
    <3>2. Listed' \subseteq Listed
      BY <2>1, <2>2, <2>4 DEF Listed, Tables
    <3> QED BY <2>1, <2>2, <2>4, <3>1, <3>2 DEF Tables
  <2>5. CASE /\ assign = "AREA_CREATE" /\ assign' = "none"
             /\ data_storage_table' =
                  [data_storage_table EXCEPT !.areas = @ \ {data_storage_handle}]
    BY <2>1, <2>2, <2>5 DEF Listed, Tables
  <2> QED BY <1>3, <2>3, <2>4, <2>5, TableEffect DEF NvInv
<1>4. CASE data_services \/ handleMessage
  <2>1. UNCHANGED <<data_storage_table, assign>> /\ assign = "none"
    BY <1>4, ServicesEffect DEF dsVars, StorageTakes
  <2>2. data_storage_status \notin {"START", "INIT"}
    BY <1>4, ServicesEffect DEF dsVars, StorageTakes
  <2> QED BY <2>1, <2>2 DEF Listed
<1>5. CASE I2CInterrupt /\ CallerTold /\ StorageTold(Reported)
  <2>1. CASE pcallerCallback # "init"
    <3>1. data_storage_status \notin {"START", "INIT"}
      BY <1>5, <2>1, BuffersRead
         DEF NvInv, StorageInv, CallerInv, Waits, Reads, Writes, StorageTold, Reported,
             StatusAfter
    <3>2. UNCHANGED <<data_storage_table, assign, data_storage_handle>>
      <4>1. CASE pcallerCallback \in {"format", "table"}
        BY <1>5, <4>1, ToldWhenDone DEF Writes, ramVars, StorageTold
      <4>2. CASE pcallerCallback \notin {"format", "table"}
        BY <1>5, <2>1, <4>2, BuffersRead DEF NvInv, StorageTold
      <4> QED BY <4>1, <4>2
    <3> QED BY <3>1, <3>2 DEF Listed
  <2> QED BY <1>5, <2>1
<1>6. CASE /\ ~PowerFails
           /\ \/ I2CInterrupt /\ CallerNotTold /\ UNCHANGED dsVars
              \/ NvService \/ BusStops \/ ChipIsDone \/ Pulse \/ UNCHANGED vars
  <2>1. UNCHANGED <<data_storage_table, dsVars>>
    BY <1>6 DEF CallerNotTold, PageSent, NextPage, Recovered, StillProgramming,
                NvService, BusStops, StopEnds, ChipIsDone, PageProgrammed, Pulse,
                AboveUnchanged, vars, belowVars, ramVars
  <2> QED BY <2>1 DEF dsVars, Listed
<1>7. ~PowerFails
  BY DEF PowerFails
<1> QED
  BY <1>1, <1>2, <1>3, <1>4, <1>5, <1>6, <1>7
     DEF Next, EventInterrupt, Accepts, I2CInterrupt

(* After its last page the chip has the table of the RAM, and nothing is   *)
(* claimed while it has not.                                               *)
LEMMA TableSyncedNext ==
  ASSUME NvInv, WholeInv, FaultFree, [Next]_vars, faults' = 0
  PROVE  TableSynced'
<1>1. ~TransferFailed /\ TableSynced /\ TableWritten
  BY NoFault DEF FaultFree
<1>2. ASSUME data_storage_status' \notin {"START", "INIT"},
             pcallerCallback' \notin {"format", "table"}
      PROVE  InChip'
  <2>1. CASE CallerTold /\ StorageTold(Reported)
             /\ pcallerCallback \in {"init", "format", "table"}
    BY <1>1, <2>1, TableReadOrWritten
  <2>2. CASE ~(CallerTold /\ StorageTold(Reported)
               /\ pcallerCallback \in {"init", "format", "table"})
    <3>1. ~PowerFails
      BY <1>2 DEF PowerFails
    <3>2. pcallerCallback \notin {"format", "table"}
      BY <1>2, <2>2, <3>1, CompletionGoes
    <3>3. UNCHANGED ee.table
      BY <3>2, ChipStep, CutEffect
    <3>4. /\ data_storage_status \notin {"START", "INIT"}
          /\ data_storage_table'.preamble = data_storage_table.preamble
          /\ data_storage_table'.checksum = data_storage_table.checksum
          /\ Listed' \subseteq Listed
      BY <1>1, <1>2, <2>2, TableStep
    <3> QED BY <1>1, <3>2, <3>3, <3>4 DEF TableSynced, InChip
  <2> QED BY <2>1, <2>2
<1>3. ASSUME ~Unsaved'
      PROVE  /\ ee'.table = FullTable
             /\ data_storage_status' \notin {"START", "INIT"} => data_storage_table' = FullTable
  <2>1. PICK b \in Blocks : stored'[b] # Junk
    BY <1>3 DEF Unsaved
  <2>2. CASE stored'[b] = stored[b]
    <3>1. /\ ~Unsaved /\ ee.table = FullTable
          /\ data_storage_status \notin {"START", "INIT"} => data_storage_table = FullTable
      BY <1>1, <2>1, <2>2 DEF Unsaved, TableSynced
    <3>2. /\ pcallerCallback \notin {"format", "table"}
          /\ data_storage_status # "AREA_CREATE" /\ assign # "AREA_CREATE"
      BY <3>1 DEF FaultFree, NothingClaimed
    <3>3. ee'.table = FullTable
      BY <3>1, <3>2, ChipStep, CutEffect
    <3>4. ASSUME data_storage_status' \notin {"START", "INIT"}
          PROVE  data_storage_table' = FullTable
      <4>1. CASE CallerTold /\ StorageTold(Reported) /\ pcallerCallback = "init"
        BY <1>1, <3>1, <4>1, TableReadOrWritten
      <4>2. CASE RequestAccepted /\ data_storage_status = "CHECK_TABLE"
        BY <3>1, <4>2 DEF RequestAccepted, Asks, data_storage_check_table, FullTable
      <4> QED BY <1>1, <3>1, <3>2, <3>4, <4>1, <4>2, TableStep
    <3> QED BY <3>3, <3>4
  <2>3. CASE pcallerCallback = "write_header" /\ UNCHANGED <<ee, ramVars>>
    <3>1. ~Starting
      BY <2>3 DEF NvInv, ServicesInv, WriteInv, Starting
    <3> QED BY <2>3, <3>1, FullSynced DEF ramVars
  <2> QED BY <2>1, <2>2, <2>3, ClaimsStep
<1>4. (\/ Unsaved
       \/ /\ ee.table = FullTable
          /\ data_storage_status \notin {"START", "INIT"} => data_storage_table = FullTable)'
  BY <1>3 DEF FullTable, Blocks
<1> QED BY <1>2, <1>4 DEF TableSynced

-----------------------------------------------------------------------------
(***************************************************************************)
(* The block that is written, and the one that is read.                    *)
(***************************************************************************)

(* The handle changes with a new request only.                             *)
LEMMA HandleKept ==
  ASSUME NvInv, [Next]_vars, ~PowerFails, data_storage_status # "WAITING"
  PROVE  UNCHANGED data_storage_handle
<1>1. CASE data_storage_service
  BY <1>1, AcceptedEffect, CreationEffect, ServiceEffect DEF NvInv, Accepts
<1>2. CASE data_services \/ handleMessage
  BY <1>2, ServicesEffect DEF dsVars, StorageTakes
<1>3. CASE I2CInterrupt
  BY <1>3 DEF I2CInterrupt, StorageTold, dsVars
<1>4. CASE NvService \/ BusStops \/ ChipIsDone \/ Pulse \/ UNCHANGED vars
  BY <1>4 DEF NvService, BusStops, ChipIsDone, Pulse, AboveUnchanged, vars, belowVars,
              dsVars
<1> QED
  BY <1>1, <1>2, <1>3, <1>4 DEF Next, EventInterrupt

(* Nothing else comes to the block that is being saved.                    *)
LEMMA SavingKept ==
  ASSUME NvInv, [Next]_vars, ~PowerFails,
         \/ data_storage_status \in WriteStatuses \ {"WRITING_HEADER"}
         \/ pcallerCallback = "write_header"
  PROVE  UNCHANGED <<data_services_buffer, data_storage_handle>>
<1>1. data_service_state = "WRITE_WAITING" /\ data_storage_status \in WriteStatuses
  BY DEF NvInv, ServicesInv, WriteInv, ServicesAwaitStorage
<1>2. UNCHANGED data_services_buffer
  BY <1>1, BufferWriters
<1> QED BY <1>1, <1>2, HandleKept DEF WriteStatuses

(* Where the statuses come from that only completions assign.              *)
Completed(c, s) ==
  data_storage_status' = s => data_storage_status = s \/ (CallerTold /\ pcallerCallback = c)

(* Each of these statuses is entered by its completion only.               *)
LEMMA CompletedStatus ==
  ASSUME NvInv, [Next]_vars
  PROVE  /\ Completed("write", "WRITING_DATA_COMPLETE")
         /\ Completed("read_header", "READ_HEADER_COMPLETE")
         /\ Completed("read_data", "READ_DATA_COMPLETE")
<1>1. CASE data_storage_service
  <2>1. assign \in Awaiting \cup {"AREA_CREATE", "none"}
    BY DEF NvInv, TypeOK, DsTypeOK
  <2> QED BY <1>1, <2>1, AcceptedEffect, CreationEffect, ServiceEffect
             DEF NvInv, Awaiting, Completed, Accepts
<1>2. CASE data_services \/ handleMessage
  BY <1>2, ServicesEffect DEF dsVars, StorageTakes, Takings, Completed
<1>3. CASE I2CInterrupt
  <2>1. CASE CallerTold /\ StorageTold(Reported)
    <3>1. /\ data_storage_status' = StatusAfter(pcallerCallback, TRUE)
          /\ pcallerCallback \in Reads \cup Writes \cup {"none"}
      BY <2>1, BuffersRead DEF StorageTold, Reported, NvInv
    <3>2. /\ StatusAfter("init", TRUE) = "CHECK_TABLE" /\ StatusAfter("format", TRUE) = "WAITING"
          /\ StatusAfter("none", TRUE) = data_storage_status
          /\ \A c \in {"table", "write_header", "clear"} : StatusAfter(c, TRUE) = "WAITING"
          /\ StatusAfter("write", TRUE) = "WRITING_DATA_COMPLETE"
          /\ StatusAfter("read_header", TRUE) = "READ_HEADER_COMPLETE"
          /\ StatusAfter("read_data", TRUE) = "READ_DATA_COMPLETE"
      BY DEF StatusAfter
    <3> QED BY <2>1, <3>1, <3>2 DEF Reads, Writes, Completed
  <2> QED BY <1>3, <2>1 DEF I2CInterrupt, dsVars, Completed
<1>4. CASE NvService \/ BusStops \/ ChipIsDone \/ Pulse \/ UNCHANGED vars
  BY <1>4 DEF NvService, BusStops, ChipIsDone, Pulse, AboveUnchanged, vars, belowVars,
              dsVars, Completed
<1>5. CASE PowerFails
  BY <1>5 DEF PowerFails, Completed
<1> QED
  BY <1>1, <1>2, <1>3, <1>4, <1>5 DEF Next, EventInterrupt

(* The page with the block's data, and the one with its header.            *)
LEMMA BlockPage ==
  ASSUME NvInv
  PROVE  /\ pcallerCallback = "write" =>
              Programmed.data[data_storage_handle] = data_services_buffer
         /\ pcallerCallback = "write_header" =>
              Programmed.header[data_storage_handle] = data_storage_header
<1>1. ee \in EEPROMs
  BY DEF NvInv, TypeOK, NvTypeOK
<1>2. pcallerCallback \in {"write", "write_header"} => data_storage_handle \in Blocks
  BY DEF NvInv, StorageInv, HandleKnown
<1> QED
  BY <1>1, <1>2 DEF Programmed, NvInv, StorageInv, TransferInv, Cell, EEPROMs

(* What was written stays in the chip until its request has ended.         *)
LEMMA BlockWrittenNext ==
  ASSUME NvInv, WholeInv, FaultFree, [Next]_vars, faults' = 0
  PROVE  BlockWritten'
<1>0. ~TransferFailed /\ BlockWritten
  BY NoFault DEF FaultFree
<1>1. ASSUME pcallerCallback' = "write_header" \/ data_storage_status' = "WRITING_DATA_COMPLETE",
             ~(CallerTold /\ pcallerCallback = "write")
      PROVE  ee'.data[data_storage_handle'] = data_services_buffer'
  <2>1. data_storage_status = "WRITING_DATA_COMPLETE" \/ pcallerCallback = "write_header"
    <3>1. CASE data_storage_status' = "WRITING_DATA_COMPLETE"
      BY <1>1, <3>1, CompletedStatus DEF Completed
    <3>2. CASE pcallerCallback' = "write_header"
      BY <3>2, CallerStep, AcceptedEffect, CreationEffect
         DEF NvInv, Requests, Request, Asking, Accepts
    <3> QED BY <1>1, <3>1, <3>2
  <2>2. ~PowerFails
    BY <1>1 DEF PowerFails, NvRestart
  <2>3. UNCHANGED <<data_services_buffer, data_storage_handle>>
    BY <2>1, <2>2, SavingKept DEF WriteStatuses
  <2>4. ee'.data[data_storage_handle] = ee.data[data_storage_handle]
    <3>1. MCP24LC256_state \in {"WRITING", "WAITING_WRITE"} => pcallerCallback = "write_header"
      BY <2>1 DEF NvInv, StorageInv, TransferInv, CallerInv, Waits, Writes
    <3> QED BY <3>1, ChipStep, CutEffect
  <2> QED BY <1>0, <2>1, <2>3, <2>4 DEF BlockWritten
<1>2. ASSUME CallerTold, pcallerCallback = "write"
      PROVE  BlockWritten'
  <2>1. PageDone /\ UNCHANGED <<ee, ramVars>>
    BY <1>0, <1>2, ToldWhenDone DEF Writes
  <2>2. pcallerCallback' = "none" /\ data_storage_status \in {"WRITE", "WRITING_DATA"}
    BY <1>2, <2>1, ToldEffect DEF NvInv, StorageInv, CallerInv, Waits
  <2>3. UNCHANGED data_storage_handle
    <3>1. ~PowerFails \/ cell' = TheTable
      BY DEF PowerFails, NvRestart
    <3>2. cell' = cell /\ cell # TheTable
      BY <1>2, <2>2, ToldEffect DEF NvInv, StorageInv, TransferInv, Cell, TheTable
    <3> QED BY <2>2, <3>1, <3>2, HandleKept
  <2> QED BY <1>0, <1>2, <2>1, <2>2, <2>3 DEF BlockWritten, ramVars
<1>3. ASSUME pcallerCallback' \in {"write", "write_header"}, PageDone'
      PROVE  /\ UNCHANGED pcallerCallback /\ ~PowerFails
             /\ (PageDone /\ UNCHANGED ee) \/ ee' = Programmed
             /\ UNCHANGED <<data_services_buffer, data_storage_handle>>
             /\ pcallerCallback = "write_header" => UNCHANGED data_storage_header
  <2>1. UNCHANGED <<pcallerCallback, cell, crashes>> /\ ~PowerFails
    BY <1>3, CallerStep, AcceptedEffect, CreationEffect DEF NvInv, PageDone, Accepts
  <2>2. (PageDone /\ UNCHANGED ee) \/ ee' = Programmed
    BY <1>3, <2>1, WriteStep DEF PageDone
  <2>3. \/ data_storage_status \in WriteStatuses \ {"WRITING_HEADER"}
        \/ pcallerCallback = "write_header"
    BY <1>3, <2>1 DEF NvInv, StorageInv, CallerInv, Waits, WriteStatuses
  <2>4. UNCHANGED <<data_services_buffer, data_storage_handle>>
    BY <2>1, <2>3, SavingKept
  <2>5. pcallerCallback = "write_header" => UNCHANGED data_storage_header
    <3>1. SUFFICES ASSUME pcallerCallback = "write_header"
                   PROVE  UNCHANGED data_storage_header
      OBVIOUS
    <3>2. MCP24LC256_state \in {"WRITING", "WAITING_WRITE"}
      BY <3>1 DEF NvInv, StorageInv, TransferInv, Reads
    <3>3. cell.what \notin {"table", "data"}
      BY <3>1, <3>2, WhatIsWritten DEF NvInv
    <3> QED BY <2>1, <3>2, <3>3, BuffersKeptNext DEF BuffersKept
  <2> QED BY <2>1, <2>2, <2>4, <2>5
<1>4. ASSUME pcallerCallback' = "write", PageDone'
      PROVE  ee'.data[data_storage_handle'] = data_services_buffer'
  BY <1>0, <1>3, <1>4, BlockPage DEF BlockWritten
<1>5. ASSUME pcallerCallback' = "write_header", PageDone'
      PROVE  ee'.header[data_storage_handle'] = data_storage_header'
  BY <1>0, <1>3, <1>5, BlockPage DEF BlockWritten
<1> QED BY <1>1, <1>2, <1>4, <1>5 DEF BlockWritten

(* The header buffer is prepared, or read, or as it was.                   *)
LEMMA HeaderWriters ==
  ASSUME NvInv, [Next]_vars
  PROVE  \/ UNCHANGED data_storage_header
         \/ data_storage_status \in {"WRITING_DATA_COMPLETE", "AREA_CLEAR"}
         \/ CallerTold /\ pcallerCallback = "read_header"
         \/ PowerFails
<1>1. CASE data_storage_service
  BY <1>1 DEF data_storage_service, StorageQuiet, StorageTells, StorageReturns,
              TableRefused, RequestRefused, NothingToAsk, NothingToClear, ReadChecked,
              RequestAccepted, CreationMade, CreationAccepted, CreationRefused, Prepare,
              ramVars
<1>2. CASE data_services \/ handleMessage
  BY <1>2, ServicesEffect
<1>3. CASE I2CInterrupt
  BY <1>3, BuffersRead
     DEF I2CInterrupt, CallerNotTold, PageSent, NextPage, Recovered, StillProgramming,
         ramVars, NvInv
<1>4. CASE NvService \/ BusStops \/ ChipIsDone \/ Pulse \/ UNCHANGED vars
  BY <1>4 DEF NvService, BusStops, StopEnds, ChipIsDone, PageProgrammed, Pulse,
              belowVars, vars, ramVars
<1> QED
  BY <1>1, <1>2, <1>3, <1>4 DEF Next, EventInterrupt

(* From the header on, a load gets to its statuses one from the other.     *)
LateReads == {"READ_HEADER_COMPLETE", "READING_DATA", "READ_DATA_COMPLETE"}

(* A load gets past the header by its completion only.                     *)
LEMMA LateReadFrom ==
  ASSUME NvInv, [Next]_vars, data_storage_status' \in LateReads
  PROVE  \/ data_storage_status \in LateReads
         \/ CallerTold /\ pcallerCallback = "read_header"
<1>1. CASE data_storage_status' = "READ_HEADER_COMPLETE"
  BY <1>1, CompletedStatus DEF Completed, LateReads
<1>2. CASE data_storage_status' = "READ_DATA_COMPLETE"
  BY <1>2, CompletedStatus DEF Completed, LateReads, NvInv, StorageInv, CallerInv, Waits
<1>3. CASE data_storage_status' = "READING_DATA"
  <2>1. CASE data_storage_service
    BY <1>3, <2>1, AcceptedEffect, CreationEffect, ServiceEffect
       DEF NvInv, Asking, StorageInv, LateInv, LateReads, Accepts
  <2>2. CASE data_services \/ handleMessage
    BY <1>3, <2>2, ServicesEffect DEF dsVars, StorageTakes, Takings, LateReads
  <2>3. CASE I2CInterrupt
    <3>1. CASE CallerTold /\ StorageTold(Reported)
      BY <1>3, <3>1, BuffersRead
         DEF StorageTold, Reported, NvInv, StatusAfter, Reads, Writes, LateReads
    <3> QED BY <1>3, <2>3, <3>1 DEF I2CInterrupt, dsVars, LateReads
  <2>4. CASE NvService \/ BusStops \/ ChipIsDone \/ Pulse \/ UNCHANGED vars
    BY <1>3, <2>4 DEF NvService, BusStops, ChipIsDone, Pulse, AboveUnchanged, vars,
                      belowVars, dsVars, LateReads
  <2>5. ~PowerFails
    BY <1>3 DEF PowerFails
  <2> QED
    BY <2>1, <2>2, <2>3, <2>4, <2>5 DEF Next, EventInterrupt
<1> QED BY <1>1, <1>2, <1>3 DEF LateReads

(* What a read that is done brings.                                        *)
LEMMA WhatIsRead ==
  ASSUME NvInv, CallerTold, ~TransferFailed
  PROVE  /\ pcallerCallback = "read_header" =>
              /\ data_storage_header' = ee.header[data_storage_handle] /\ UNCHANGED ee
         /\ pcallerCallback = "read_data" =>
              /\ data_services_buffer' = ee.data[data_storage_handle] /\ UNCHANGED ee
<1>1. pcallerCallback \in Reads => ~WriteDone
  BY DEF WriteDone, NvInv, StorageInv, TransferInv, Reads, Writes
<1> QED
  BY <1>1 DEF CallerTold, ReadDone, chipVars, NvInv, StorageInv, TransferInv, Reads,
              Cell

(* What was read stays what the chip holds until the load has ended, as    *)
(* nothing is written meanwhile.                                           *)
LEMMA BlockReadNext ==
  ASSUME NvInv, WholeInv, FaultFree, [Next]_vars, faults' = 0
  PROVE  BlockRead'
<1>0. ~TransferFailed /\ BlockRead
  BY NoFault DEF FaultFree
<1>1. SUFFICES ASSUME data_storage_status' \in LateReads
               PROVE  BlockRead'
  BY DEF BlockRead, LateReads
<1>2. ~PowerFails
  BY <1>1 DEF PowerFails, LateReads
<1>3. CASE CallerTold /\ pcallerCallback = "read_header"
  <2>1. data_storage_status \in {"READ", "READING_HEADER"}
    BY <1>3 DEF NvInv, StorageInv, CallerInv, Waits
  <2>2. data_storage_status' # "READ_DATA_COMPLETE"
    BY <1>3, <2>1, CompletedStatus DEF Completed
  <2>3. UNCHANGED data_storage_handle
    BY <1>2, <2>1, HandleKept
  <2> QED BY <1>0, <1>3, <2>2, <2>3, WhatIsRead DEF BlockRead
<1>4. CASE data_storage_status \in LateReads /\ ~(CallerTold /\ pcallerCallback = "read_header")
  <2>1. UNCHANGED <<data_storage_handle, data_storage_header>>
    BY <1>2, <1>4, HandleKept, HeaderWriters DEF LateReads
  <2>2. UNCHANGED ee
    <3>1. pcallerCallback \notin Writes
      BY <1>4 DEF NvInv, StorageInv, CallerInv, Waits, Writes, LateReads
    <3> QED BY <3>1, ChipStep, WhatIsWritten DEF NvInv
  <2>3. data_storage_header' = ee'.header[data_storage_handle']
    BY <1>0, <1>4, <2>1, <2>2 DEF BlockRead, LateReads
  <2>4. ASSUME data_storage_status' = "READ_DATA_COMPLETE"
        PROVE  data_services_buffer' = ee'.data[data_storage_handle']
    <3>1. CASE CallerTold /\ pcallerCallback = "read_data"
      BY <1>0, <2>1, <2>2, <3>1, WhatIsRead
    <3>2. CASE ~(CallerTold /\ pcallerCallback = "read_data")
      <4>1. data_storage_status = "READ_DATA_COMPLETE"
        BY <2>4, <3>2, CompletedStatus DEF Completed
      <4>2. data_service_state = "READ_WAITING"
        BY <4>1 DEF NvInv, ServicesInv, ReadInv, ReadStatuses
      <4>3. UNCHANGED data_services_buffer
        BY <1>2, <3>2, <4>2, BufferWriters DEF CallerTold
      <4> QED BY <1>0, <2>1, <2>2, <4>1, <4>3 DEF BlockRead
    <3> QED BY <3>1, <3>2
  <2> QED BY <2>3, <2>4 DEF BlockRead
<1> QED BY <1>1, <1>3, <1>4, LateReadFrom

-----------------------------------------------------------------------------
(***************************************************************************)
(* Nothing is said to be saved that is about to be written or erased.      *)
(***************************************************************************)

(* An area is made for the services, which found that it does not exist.   *)
LEMMA CreationBegins ==
  ASSUME NvInv, [Next]_vars,
         data_storage_status' = "AREA_CREATE" \/ assign' = "AREA_CREATE"
  PROVE  \/ data_storage_status = "AREA_CREATE" \/ assign = "AREA_CREATE"
         \/ data_storage_status = "WAITING" /\ data_storage_table.areas # Blocks
<1>1. CASE data_storage_service
  <2>1. assign \in Awaiting \cup {"AREA_CREATE", "none"}
    BY DEF NvInv, TypeOK, DsTypeOK
  <2> QED BY <1>1, <2>1, AcceptedEffect, CreationEffect, ServiceEffect
             DEF NvInv, Awaiting, Accepts, Requests, Request, Asking
<1>2. CASE data_services
  <2>1. CASE InitCreate /\ data_storage_status = "WAITING"
    <3>1. FirstMissing \in Blocks /\ data_services_table_index \in Nat
      BY <2>1 DEF InitCreate, NvInv, TypeOK
    <3> QED BY <2>1, <3>1, FirstMissingFound DEF AreaExists
  <2>2. CASE ~(InitCreate /\ data_storage_status = "WAITING")
    BY <1>2, <2>2
       DEF data_services, data_services_init_all, InitCreate, InitLater, InitDone,
           BeyondTable, StepOver, ReadBlock, WriteBlock, data_services_read_done,
           NothingToDo, BelowUnchanged, storage_read, storage_write, StorageTakes, dsVars
  <2> QED BY <2>1, <2>2
<1>3. CASE handleMessage
  BY <1>3 DEF handleMessage, ServiceMessage, ClearMessage, OtherMessage,
              data_services_all, data_services_specific, Take, storage_clear_area,
              StorageTakes, dsVars
<1>4. CASE I2CInterrupt
  <2>1. CASE CallerTold /\ StorageTold(Reported)
    BY <2>1, BuffersRead DEF NvInv, StorageTold, Reported, StatusAfter, Reads, Writes
  <2> QED BY <1>4, <2>1 DEF I2CInterrupt, dsVars
<1>5. CASE NvService \/ BusStops \/ ChipIsDone \/ Pulse \/ UNCHANGED vars
  BY <1>5 DEF NvService, BusStops, ChipIsDone, Pulse, AboveUnchanged, vars, belowVars,
              dsVars
<1>6. CASE PowerFails
  BY <1>6 DEF PowerFails
<1> QED
  BY <1>1, <1>2, <1>3, <1>4, <1>5, <1>6 DEF Next, EventInterrupt

(* The table is written when none of the areas it is to list was saved.    *)
LEMMA TableClaimsNext ==
  ASSUME NvInv, WholeInv, FaultFree, [Next]_vars, faults' = 0,
         \/ pcallerCallback' \in {"format", "table"}
         \/ data_storage_status' = "AREA_CREATE" \/ assign' = "AREA_CREATE"
  PROVE  Unsaved'
<1>1. ASSUME Unsaved, pcallerCallback # "write_header"
      PROVE  Unsaved'
  BY <1>1, ClaimsStep DEF Unsaved, Blocks
<1>2. ASSUME data_storage_status \notin {"START", "INIT"}, data_storage_table # FullTable
      PROVE  Unsaved
  BY <1>2 DEF FaultFree, TableSynced
<1>3. CASE data_storage_status' = "AREA_CREATE" \/ assign' = "AREA_CREATE"
  <2>1. CASE data_storage_status = "AREA_CREATE" \/ assign = "AREA_CREATE"
    <3>1. Unsaved
      BY <2>1 DEF FaultFree, NothingClaimed
    <3>2. pcallerCallback # "write_header"
      BY <2>1 DEF NvInv, StorageInv, CallerInv, Waits
    <3> QED BY <1>1, <3>1, <3>2
  <2>2. CASE data_storage_status = "WAITING" /\ data_storage_table.areas # Blocks
    <3>1. data_storage_table # FullTable
      BY <2>2 DEF FullTable
    <3>2. pcallerCallback # "write_header"
      BY <2>2 DEF NvInv, StorageInv, CallerInv, Waits
    <3> QED BY <1>1, <1>2, <2>2, <3>1, <3>2
  <2> QED BY <1>3, <2>1, <2>2, CreationBegins
<1>4. CASE pcallerCallback' \in {"format", "table"} /\ pcallerCallback' # pcallerCallback
  <2>1. Accepts
    BY <1>4, CallerStep
  <2>2. pcallerCallback = "none"
    BY <1>4, <2>1, TableAsked
  <2>3. CASE data_storage_status = "CHECK_TABLE" /\ RequestAccepted
    <3>1. data_storage_table # FullTable
      BY <2>3 DEF RequestAccepted, Asks, data_storage_check_table, FullTable
    <3> QED BY <1>1, <1>2, <2>2, <2>3, <3>1
  <2>4. CASE CreationAccepted
    BY <1>1, <2>2, <2>4 DEF CreationAccepted, FaultFree, NothingClaimed
  <2> QED BY <1>4, <2>1, <2>3, <2>4, TableAsked
<1>5. CASE UNCHANGED pcallerCallback /\ pcallerCallback' \in {"format", "table"}
  BY <1>1, <1>5 DEF FaultFree, NothingClaimed
<1> QED BY <1>3, <1>4, <1>5

(* An area is cleared that the services know is not saved any more.        *)
LEMMA ClearClaimsNext ==
  ASSUME NvInv, WholeInv, FaultFree, [Next]_vars, faults' = 0,
         \/ data_storage_status' \in {"AREA_CLEAR", "AREA_CLEARING"}
         \/ assign' = "AREA_CLEARING"
  PROVE  stored'[data_storage_handle'] = Junk
<1> DEFINE Clearing == \/ data_storage_status \in {"AREA_CLEAR", "AREA_CLEARING"}
                       \/ assign = "AREA_CLEARING"
<1>1. ~PowerFails
  BY DEF PowerFails
<1>2. ASSUME Clearing, data_storage_handle' = data_storage_handle, UNCHANGED stored
      PROVE  stored'[data_storage_handle'] = Junk
  BY <1>2 DEF FaultFree, NothingClaimed
<1>3. stored \in [Blocks -> Contents]
  BY DEF NvInv, TypeOK
<1>4. CASE data_storage_service
  <2>1. Clearing /\ UNCHANGED data_storage_handle
    <3>1. CASE Accepts
      BY <3>1, AcceptedEffect, CreationEffect
         DEF NvInv, Requests, Request, Asking, Accepts
    <3>2. CASE ~Accepts
      <4>1. assign \in Awaiting \cup {"AREA_CREATE", "none"}
        BY DEF NvInv, TypeOK, DsTypeOK
      <4> QED BY <1>4, <3>2, <4>1, ServiceEffect DEF NvInv, Awaiting
    <3> QED BY <3>1, <3>2
  <2>2. UNCHANGED stored
    BY <1>4, AcceptedAlone, TellsEffect
       DEF data_storage_service, svcVars, data_services_read_callback,
           data_services_write_callback, data_services_init_all_callback
  <2> QED BY <1>2, <2>1, <2>2
<1>5. CASE data_services
  <2>1. UNCHANGED dsVars \/ data_storage_status' \in {"AREA_CREATE", "READ", "WRITE"}
    BY <1>5
       DEF data_services, data_services_init_all, InitCreate, InitLater, InitDone,
           BeyondTable, StepOver, ReadBlock, WriteBlock, data_services_read_done,
           NothingToDo, BelowUnchanged, storage_create_area, storage_read,
           storage_write, StorageTakes
  <2>2. Clearing /\ UNCHANGED data_storage_handle
    BY <1>5, <2>1, ServicesEffect DEF dsVars, StorageTakes
  <2>3. \A b \in Blocks : stored'[b] \in {stored[b], Junk}
    BY <1>5, <1>3
       DEF data_services, data_services_init_all, InitCreate, InitLater, InitDone,
           BeyondTable, StepOver, ReadBlock, WriteBlock, data_services_read_done,
           NothingToDo, svcVars
  <2>4. data_storage_handle \in Blocks
    BY <2>2 DEF NvInv, StorageInv, HandleKnown
  <2> QED BY <2>2, <2>3, <2>4 DEF FaultFree, NothingClaimed
<1>6. CASE handleMessage
  <2>1. CASE ClearMessage
    BY <1>3, <2>1 DEF ClearMessage, storage_clear_area, StorageTakes
  <2>2. CASE ServiceMessage \/ OtherMessage
    <3>1. UNCHANGED <<dsVars, stored>>
      BY <2>2 DEF ServiceMessage, OtherMessage, data_services_all,
                  data_services_specific, Take, svcVars
    <3> QED BY <1>2, <3>1 DEF dsVars
  <2> QED BY <1>6, <2>1, <2>2 DEF handleMessage
<1>7. CASE I2CInterrupt
  <2>1. CASE CallerTold /\ StorageTold(Reported)
    <3>1. data_storage_status' \notin {"AREA_CLEAR", "AREA_CLEARING"} \/ UNCHANGED data_storage_status
      BY <2>1, BuffersRead
         DEF NvInv, StorageTold, Reported, StatusAfter, Reads, Writes
    <3>2. Clearing /\ UNCHANGED data_storage_handle
      BY <2>1, <3>1 DEF StorageTold
    <3>3. pcallerCallback # "write_header"
      BY <3>2 DEF NvInv, StorageInv, CallerInv, LateInv, Waits
    <3>4. data_storage_handle \in Blocks
      BY <3>2 DEF NvInv, StorageInv, HandleKnown
    <3> QED BY <3>2, <3>3, <3>4, ClaimsStep DEF FaultFree, NothingClaimed
  <2> QED BY <1>2, <1>7, <2>1 DEF I2CInterrupt, dsVars, svcVars
<1>8. CASE NvService \/ BusStops \/ ChipIsDone \/ Pulse \/ UNCHANGED vars
  BY <1>2, <1>8 DEF NvService, BusStops, ChipIsDone, Pulse, AboveUnchanged, vars,
                    belowVars, dsVars, svcVars
<1> QED
  BY <1>1, <1>4, <1>5, <1>6, <1>7, <1>8 DEF Next, EventInterrupt

(* A block that is being saved is not yet.                                 *)
LEMMA SaveClaimsNext ==
  ASSUME NvInv, FaultFree, [Next]_vars, data_service_state' = "WRITE_WAITING"
  PROVE  stored'[data_services_table_index'] = Junk
<1>1. CASE UNCHANGED <<data_service_state, data_services_table_index, stored>>
  BY <1>1 DEF FaultFree, NothingClaimed
<1>2. stored \in [Blocks -> Contents]
  BY DEF NvInv, TypeOK
<1>3. CASE data_services
  BY <1>1, <1>2, <1>3
     DEF data_services, data_services_init_all, InitCreate, InitLater, InitDone,
         BeyondTable, StepOver, ReadBlock, WriteBlock, data_services_read_done,
         NothingToDo, InTable, svcVars, reqVars
<1>4. CASE handleMessage
  <2>1. ~ClearMessage
    <3>1. SUFFICES ASSUME ClearMessage
                   PROVE  FALSE
      OBVIOUS
    <3>2. data_service_state = "WRITE_WAITING" /\ data_storage_status = "WAITING"
      BY <3>1 DEF ClearMessage, storage_clear_area, StorageTakes
    <3> QED BY <3>2 DEF NvInv, ServicesInv, ServicesAwaitStorage, WriteStatuses
  <2>2. OtherMessage
    BY <1>4, <2>1 DEF handleMessage, ServiceMessage, data_services_all,
                      data_services_specific, Take
  <2> QED BY <1>1, <2>2 DEF OtherMessage, svcVars, reqVars
<1>5. ASSUME data_storage_service, NEW ok \in BOOLEAN, StorageTells(ok), UserCallback(ok),
             ~Accepts
      PROVE  UNCHANGED svcVars
  BY <1>5, TellsEffect
     DEF data_services_read_callback, data_services_write_callback,
         data_services_init_all_callback
<1>6. ASSUME CallerTold, StorageTold(Reported),
             IF TellsUser(pcallerCallback, Reported) THEN UserCallback(Reported)
             ELSE UNCHANGED svcVars
      PROVE  UNCHANGED svcVars
  BY <1>6, ToldCallback
     DEF data_services_write_callback, data_services_init_all_callback
<1> QED
  BY <1>1, <1>3, <1>4, <1>5, <1>6, ServicesStep DEF PowerFails, svcVars, reqVars

(* All three, in every step.                                               *)
LEMMA NothingClaimedNext ==
  ASSUME NvInv, WholeInv, FaultFree, [Next]_vars, faults' = 0
  PROVE  NothingClaimed'
BY TableClaimsNext, ClearClaimsNext, SaveClaimsNext DEF NothingClaimed

-----------------------------------------------------------------------------
(***************************************************************************)
(* What was said to be saved stays.                                        *)
(***************************************************************************)

(* A page on its way does not touch a block that is said to be saved.      *)
LEMMA ClaimedUntouched ==
  ASSUME NvInv, FaultFree, [Next]_vars, faults' = 0, NEW b \in Blocks, stored[b] # Junk
  PROVE  UNCHANGED ee.table /\ Kept(ee', b)
<1>1. CASE UNCHANGED ee
  BY <1>1 DEF Kept
<1>2. CASE MCP24LC256_state \in {"WRITING", "WAITING_WRITE"} /\ ee' \in Cut
  <2>1. pcallerCallback \in {"write", "write_header", "clear"}
    BY <1>2, WhatIsWritten DEF NvInv, Writes, FaultFree, NothingClaimed, Unsaved
  <2>2. b # data_storage_handle
    <3>1. CASE pcallerCallback = "clear"
      BY <3>1 DEF NvInv, StorageInv, CallerInv, Waits, FaultFree, NothingClaimed
    <3>2. CASE pcallerCallback \in {"write", "write_header"}
      <4>1. data_service_state = "WRITE_WAITING" /\ ForServices
        BY <3>2 DEF NvInv, StorageInv, CallerInv, Waits, ServicesInv, WriteInv,
                    WriteStatuses
      <4> QED BY <4>1 DEF ForServices, FaultFree, NothingClaimed
    <3> QED BY <2>1, <3>1, <3>2
  <2> QED BY <1>2, <2>1, <2>2, CutEffect
<1> QED BY <1>1, <1>2, ChipStep

(* What is claimed was claimed before and not touched, or was written just *)
(* now.                                                                    *)
LEMMA StoredDurableNext ==
  ASSUME NvInv, WholeInv, FaultFree, [Next]_vars, faults' = 0
  PROVE  StoredDurable'
<1>1. ASSUME NEW b \in Blocks, stored'[b] # Junk
      PROVE  /\ ee'.table.preamble /\ ee'.table.checksum /\ b \in ee'.table.areas
             /\ ee'.data[b] = stored'[b]
             /\ GoodArea(ee'.header[b], b, ee'.data[b])
  <2>1. CASE stored'[b] = stored[b]
    BY <1>1, <2>1, ClaimedUntouched DEF Kept, FaultFree, StoredDurable
  <2>2. CASE /\ pcallerCallback = "write_header" /\ PageDone
             /\ b = data_storage_handle /\ stored'[b] = data_services_buffer
             /\ UNCHANGED ee
    BY <1>1, <2>2, BlockIsSaved DEF FullTable
  <2> QED BY <1>1, <2>1, <2>2, ClaimsStep
<1> QED BY <1>1 DEF StoredDurable, GoodArea, Blocks

(* A load that is done, of a block that is claimed, has brought what the   *)
(* chip holds for it.                                                      *)
LEMMA LoadedIsStoredNext ==
  ASSUME NvInv, WholeInv, FaultFree, [Next]_vars, faults' = 0
  PROVE  LoadedIsStored'
<1>0. SUFFICES ASSUME data_service_state' = "READ_DONE"
               PROVE  \/ stored'[data_services_table_index'] = Junk
                      \/ data_services_buffer' = stored'[data_services_table_index']
  BY DEF LoadedIsStored
<1> DEFINE Goal == \/ stored'[data_services_table_index'] = Junk
                   \/ data_services_buffer' = stored'[data_services_table_index']
<1>1. CASE UNCHANGED <<data_service_state, data_services_table_index>>
  <2>1. UNCHANGED data_services_buffer
    BY <1>0, <1>1, BufferWriters DEF PowerFails
  <2>2. data_services_table_index \in Blocks
    BY <1>0, <1>1 DEF NvInv, ServicesInv, IndexInv
  <2>3. pcallerCallback # "write_header"
    BY <1>0, <1>1 DEF NvInv, ServicesInv, WriteInv
  <2>4. \/ stored'[data_services_table_index] = Junk
        \/ stored'[data_services_table_index] = stored[data_services_table_index]
    BY <2>2, <2>3, ClaimsStep
  <2> QED BY <1>0, <1>1, <2>1, <2>4 DEF FaultFree, LoadedIsStored
<1>2. CASE data_services
  BY <1>0, <1>1, <1>2
     DEF data_services, data_services_init_all, InitCreate, InitLater, InitDone,
         BeyondTable, StepOver, ReadBlock, WriteBlock, data_services_read_done,
         NothingToDo, svcVars, reqVars
<1>3. CASE handleMessage
  BY <1>0, <1>1, <1>3
     DEF handleMessage, ServiceMessage, ClearMessage, OtherMessage, data_services_all,
         data_services_specific, Take, svcVars, reqVars
<1>4. ASSUME data_storage_service, NEW ok \in BOOLEAN, StorageTells(ok), UserCallback(ok),
             ~Accepts
      PROVE  Goal
  <2>1. CASE data_services_read_callback(ok) /\ ok /\ ~UNCHANGED svcVars
    <3>1. /\ UNCHANGED <<data_services_table_index, stored, data_services_buffer>>
          /\ ForServices /\ data_storage_status = "READ_DATA_COMPLETE"
      BY <1>4, <2>1, TellsEffect
         DEF data_services_read_callback, data_services_write_callback,
             data_services_init_all_callback, svcVars
    <3>2. data_services_buffer = ee.data[data_storage_handle]
      BY <3>1 DEF FaultFree, BlockRead
    <3> QED BY <3>1, <3>2 DEF ForServices, FaultFree, StoredDurable
  <2>2. CASE UNCHANGED svcVars
    BY <1>1, <2>2 DEF svcVars, reqVars
  <2>3. CASE \/ data_services_read_callback(FALSE) \/ data_services_write_callback(FALSE)
             \/ data_services_init_all_callback(FALSE)
    BY <1>0, <2>3 DEF data_services_read_callback, data_services_write_callback,
                      data_services_init_all_callback
  <2> QED BY <1>4, <2>1, <2>2, <2>3, TellsEffect
<1>5. CASE CallerTold /\ StorageTold(Reported)
           /\ IF TellsUser(pcallerCallback, Reported) THEN UserCallback(Reported)
              ELSE UNCHANGED svcVars
  BY <1>0, <1>1, <1>5, ToldCallback
     DEF data_services_write_callback, data_services_init_all_callback, svcVars, reqVars
<1> QED
  BY <1>0, <1>1, <1>2, <1>3, <1>4, <1>5, ServicesStep DEF PowerFails, svcVars, reqVars

-----------------------------------------------------------------------------
(***************************************************************************)
(* All together, from any contents of the chip on.                         *)
(***************************************************************************)
LEMMA FaultFreeInit == Init => FaultFree
BY DEF Init, NvInit, DsInit, SvcInit, FaultFree, NoFailure, TableSynced, Unsaved,
       TableWritten, BlockWritten, PageDone, BlockRead, NothingClaimed, StoredDurable,
       LoadedIsStored

(* The system starts in it, with any contents of the chip that its blocks  *)
(* own.                                                                    *)
LEMMA StoreInvInit == Init /\ ee \in OwnEEPROMs => StoreInv
BY NvInvInit, WholeInvInit, FaultFreeInit DEF StoreInv, DataInv

(* The invariant is inductive.                                             *)
LEMMA StoreInvNext ==
  ASSUME StoreInv, [Next]_vars
  PROVE  StoreInv'
<1>1. NvInv' /\ WholeInv'
  BY NvInvNext, OwnInvNext, HeaderInvNext, LoadedIsWholeNext DEF StoreInv, WholeInv
<1>2. ASSUME faults' = 0
      PROVE  FaultFree'
  <2>1. FaultFree
    BY <1>2, NoFault DEF StoreInv, DataInv
  <2> QED
    BY <1>2, <2>1, NoFailureNext, TableSyncedNext, TableWrittenNext, BlockWrittenNext,
       BlockReadNext, NothingClaimedNext, StoredDurableNext, LoadedIsStoredNext
       DEF StoreInv, FaultFree
<1> QED BY <1>1, <1>2 DEF StoreInv, DataInv

(***************************************************************************)
(* Until the first transfer fails, what the services were told is saved    *)
(* can be loaded, whenever the power fails: the data is written before its *)
(* header (data_storage.c:185-243), the table when none of its areas is    *)
(* claimed, and no request replaces another.                               *)
(***************************************************************************)
THEOREM StoredDurableCorrect == Spec => [](faults = 0 => StoredDurable)
<1>1. StoreInv => (faults = 0 => StoredDurable)
  BY DEF StoreInv, DataInv, FaultFree
<1> QED
  BY <1>1, StoreInvInit, StoreInvNext, PTL DEF Spec

(***************************************************************************)
(* ... and a load of it brings what was saved (data_storage.c:304-326,     *)
(* data_services.c:340-380).                                               *)
(***************************************************************************)
THEOREM LoadedIsStoredCorrect == Spec => [](faults = 0 => LoadedIsStored)
<1>1. StoreInv => (faults = 0 => LoadedIsStored)
  BY DEF StoreInv, DataInv, FaultFree
<1> QED
  BY <1>1, StoreInvInit, StoreInvNext, PTL DEF Spec

-----------------------------------------------------------------------------
(***************************************************************************)
(* The refinement: each step is one of BlockStore's, or none.              *)
(***************************************************************************)
StoreStep == Store!StoreNext \/ UNCHANGED Store!storeVars

(* The task, state by state, before a step and after it.                   *)
LEMMA TaskIs ==
  /\ Starting => Task = Store!Start
  /\ data_service_state \in {"WAITING", "READ", "WRITE"} => Task = Store!Idle
  /\ data_service_state = "READ_WAITING" => Task = Store!Load(data_services_table_index)
  /\ data_service_state = "WRITE_WAITING" =>
       Task = Store!Save(data_services_table_index, data_services_buffer)
  /\ data_service_state = "READ_DONE" =>
       Task = Store!Loaded(data_services_table_index, data_services_buffer)
BY DEF Task, Starting, Store!Start, Store!Idle, Store!Load, Store!Save, Store!Loaded

(* The same after the step.                                                *)
LEMMA TaskBecomes ==
  /\ Starting' => Task' = Store!Start
  /\ data_service_state' \in {"WAITING", "READ", "WRITE"} => Task' = Store!Idle
  /\ data_service_state' = "READ_WAITING" => Task' = Store!Load(data_services_table_index')
  /\ data_service_state' = "WRITE_WAITING" =>
       Task' = Store!Save(data_services_table_index', data_services_buffer')
  /\ data_service_state' = "READ_DONE" =>
       Task' = Store!Loaded(data_services_table_index', data_services_buffer')
BY DEF Task, Starting, Store!Start, Store!Idle, Store!Load, Store!Save, Store!Loaded

(* What is erased, before and after.                                       *)
Clears(s) == s \in {"AREA_CLEAR", "AREA_CLEARING"}

(* An area is erased while the storage works on clearing it.               *)
LEMMA ErasingIs ==
  /\ Clears(data_storage_status) => Erasing = {data_storage_handle}
  /\ ~Clears(data_storage_status) => Erasing = {}
  /\ Clears(data_storage_status') => Erasing' = {data_storage_handle'}
  /\ ~Clears(data_storage_status') => Erasing' = {}
BY DEF Erasing, Clears

(* The memory changes with the chip alone.                                 *)
LEMMA MemoryKept ==
  ASSUME UNCHANGED ee
  PROVE  UNCHANGED Memory
BY DEF Memory, Loadable, GoodArea

(* What can be loaded of each block is a value, or nothing.                *)
LEMMA MemoryType ==
  ASSUME TypeOK
  PROVE  Memory \in [Blocks -> Store!Kept]
BY DEF TypeOK, NvTypeOK, EEPROMs, Contents, Memory, Store!Kept

(* A step that leaves the task and the rest alone.                         *)
LEMMA NoStoreStep ==
  ASSUME UNCHANGED <<ee, stored, Task, Erasing>>
  PROVE  StoreStep
BY MemoryKept DEF StoreStep, Store!storeVars

(* The task is the same while the services do not move, as nobody else     *)
(* writes the buffer of a save or of what was loaded.                      *)
LEMMA TaskKept ==
  ASSUME NvInv, [Next]_vars, ~PowerFails,
         UNCHANGED <<data_service_state, data_services_table_index>>
  PROVE  UNCHANGED Task
<1>1. \/ UNCHANGED data_services_buffer
      \/ data_service_state \in {"WRITE", "READ_WAITING"}
  BY BufferWriters
<1> QED BY <1>1 DEF Task

(* What a page on its way may do to the memory: nothing but to the block   *)
(* that is saved or erased, or while the system starts.                    *)
LEMMA CutIsTouched ==
  ASSUME NvInv, WholeInv, FaultFree, ee' \in Cut,
         MCP24LC256_state \in {"WRITING", "WAITING_WRITE"}
  PROVE  Store!Touched(Memory')
<1>1. SUFFICES ASSUME NEW b \in Blocks
               PROVE  \/ Memory'[b] = Memory[b] \/ Store!Unknown(b)
                      \/ Store!AtRisk(b) /\ Memory'[b] = Junk
                      \/ Task.kind = "save" /\ Task.block = b /\ Memory'[b] = Task.value
  BY DEF Store!Touched
<1>2. /\ Memory[b] = IF Loadable(b) THEN ee.data[b] ELSE Junk
      /\ Memory'[b] = IF Loadable(b)' THEN ee'.data[b] ELSE Junk
  BY DEF Memory
<1>3. CASE pcallerCallback \in {"format", "table"}
  <2>1. Starting /\ stored[b] = Junk
    BY <1>3 DEF NvInv, ServicesInv, TableInv, CreateInv, Starting, FaultFree,
                NothingClaimed, Unsaved
  <2>2. Task.kind = "start"
    BY <2>1, TaskIs DEF Store!Start
  <2> QED BY <2>1, <2>2 DEF Store!Unknown
<1>4. CASE pcallerCallback \notin {"format", "table"} /\ b # data_storage_handle
  <2>1. UNCHANGED ee.table /\ Kept(ee', b)
    BY <1>4, CutEffect
  <2> QED BY <1>2, <2>1 DEF Kept, Loadable
<1>5. CASE pcallerCallback \in {"write", "write_header"} /\ b = data_storage_handle
  <2>1. data_service_state = "WRITE_WAITING" /\ ForServices
    BY <1>5 DEF NvInv, StorageInv, CallerInv, Waits, ServicesInv, WriteInv,
                WriteStatuses
  <2>2. /\ Task.kind = "save" /\ Task.block = b /\ Task.value = data_services_buffer
        /\ Store!AtRisk(b)
    BY <1>5, <2>1, TaskIs DEF Store!Save, Store!AtRisk, ForServices
  <2>3. CASE pcallerCallback = "write"
    <3>1. /\ UNCHANGED ee.table /\ ee'.header[b] = ee.header[b]
          /\ ee'.data[b] \in {ee.data[b], data_services_buffer, Junk}
      BY <1>5, <2>3, CutEffect
    <3>2. ee'.data[b] = ee.data[b] => Memory'[b] = Memory[b]
      BY <1>2, <3>1 DEF Loadable
    <3> QED BY <1>2, <2>2, <3>1, <3>2
  <2>4. CASE pcallerCallback = "write_header"
    <3>1. ee'.data[b] = data_services_buffer
      BY <1>5, <2>4, CutEffect DEF FaultFree, BlockWritten
    <3> QED BY <1>2, <2>2, <3>1
  <2> QED BY <1>5, <2>3, <2>4
<1>6. CASE pcallerCallback = "clear" /\ b = data_storage_handle
  <2>1. Clears(data_storage_status)
    BY <1>6 DEF NvInv, StorageInv, CallerInv, Waits, Clears
  <2>2. Store!AtRisk(b)
    BY <1>6, <2>1, ErasingIs DEF Store!AtRisk
  <2>3. ~data_storage_header.preamble
    BY <1>6 DEF WholeInv, HeaderInv, BlankHeader
  <2>4. /\ UNCHANGED ee.table /\ ee'.data[b] = ee.data[b]
        /\ ee'.header[b] = ee.header[b] \/ ~ee'.header[b].preamble
    BY <1>6, <2>3, CutEffect
  <2>5. ee'.header[b] = ee.header[b] => Memory'[b] = Memory[b]
    BY <1>2, <2>4 DEF Loadable
  <2>6. ~ee'.header[b].preamble => Memory'[b] = Junk
    BY <1>2 DEF Loadable, GoodArea
  <2> QED BY <2>2, <2>4, <2>5, <2>6
<1> QED
  BY <1>3, <1>4, <1>5, <1>6, WhatIsWritten DEF NvInv, Writes

(* The chip and the power.                                                 *)
LEMMA ChipSteps ==
  ASSUME NvInv, WholeInv, FaultFree, [Next]_vars, faults' = 0, ChipIsDone \/ PowerFails
  PROVE  StoreStep
<1>1. Memory' \in [Blocks -> Store!Kept]
  <2>1. TypeOK'
    BY NvInvNext DEF NvInv
  <2> QED BY <2>1 DEF TypeOK, NvTypeOK, EEPROMs, Contents, Memory, Store!Kept, Blocks
<1>2. Store!Touched(Memory')
  <2>1. CASE UNCHANGED ee
    BY <2>1, MemoryKept DEF Store!Touched
  <2> QED BY <2>1, ChipStep, CutIsTouched
<1>3. CASE ChipIsDone
  <2>1. UNCHANGED <<stored, Task, Erasing>>
    BY <1>3 DEF ChipIsDone, PageProgrammed, AboveUnchanged, dsVars, svcVars, reqVars,
                ramVars, Task, Erasing
  <2> QED BY <1>1, <1>2, <2>1 DEF Store!Work, Store!StoreNext, StoreStep
<1>4. CASE PowerFails
  <2>1. Task' = Store!Start /\ Erasing' = {} /\ UNCHANGED stored
    BY <1>4, TaskBecomes, ErasingIs DEF PowerFails, Starting, Clears
  <2> QED BY <1>1, <1>2, <2>1 DEF Store!PowerLost, Store!StoreNext, StoreStep
<1> QED BY <1>3, <1>4

(* The services begin and end what the store does for them.                *)
LEMMA ServiceSteps ==
  ASSUME NvInv, FaultFree, [Next]_vars, faults' = 0, data_services
  PROVE  StoreStep
<1>1. UNCHANGED ee /\ UNCHANGED Memory
  BY ServicesEffect, MemoryKept DEF nvVars, chipVars
<1>2. ~PowerFails
  BY ServicesEffect DEF PowerFails, NvInv, TypeOK
<1>3. ASSUME UNCHANGED <<data_service_state, data_services_table_index, stored, Erasing>>
      PROVE  StoreStep
  BY <1>1, <1>2, <1>3, TaskKept, NoStoreStep
<1>4. CASE data_services_init_all
  <2>1. Starting /\ Starting' /\ UNCHANGED <<stored, dsVars>>
    BY <1>4 DEF data_services_init_all, Starting, BelowUnchanged
  <2> QED BY <1>1, <2>1, TaskIs, TaskBecomes, NoStoreStep DEF dsVars, Erasing
<1>5. CASE InitCreate
  <2>1. Starting /\ Starting' /\ UNCHANGED stored
    BY <1>5 DEF InitCreate, Starting
  <2>2. UNCHANGED Erasing
    BY <1>5, ErasingIs DEF InitCreate, storage_create_area, StorageTakes, dsVars,
                           Erasing, Clears
  <2> QED BY <1>1, <2>1, <2>2, TaskIs, TaskBecomes, NoStoreStep
<1>6. CASE InitLater \/ NothingToDo
  BY <1>3, <1>6 DEF InitLater, NothingToDo, BelowUnchanged, svcVars, reqVars, dsVars,
                    Erasing
<1>7. CASE InitDone \/ data_services_read_done
  <2>1. Task' = Store!Idle
    BY <1>7, TaskBecomes DEF InitDone, data_services_read_done
  <2>2. UNCHANGED <<stored, Erasing>>
    BY <1>7 DEF InitDone, data_services_read_done, BelowUnchanged, dsVars, Erasing
  <2> QED BY <1>1, <2>1, <2>2 DEF Store!TaskEnds, Store!StoreNext, StoreStep
<1>8. CASE BeyondTable \/ StepOver
  <2>1. Task = Store!Idle /\ Task' = Store!Idle
    BY <1>8, TaskIs, TaskBecomes DEF BeyondTable, StepOver
  <2>2. UNCHANGED <<stored, Erasing>>
    BY <1>8 DEF BeyondTable, StepOver, BelowUnchanged, dsVars, Erasing
  <2> QED BY <1>1, <2>1, <2>2, NoStoreStep
<1>9. CASE ReadBlock
  <2>1. CASE storage_read(data_services_table_index, "read")
             /\ data_service_state' = "READ_WAITING"
    <3>1. /\ Task = Store!Idle /\ Task' = Store!Load(data_services_table_index)
          /\ UNCHANGED stored /\ data_services_table_index \in Blocks
      BY <1>9, <2>1, TaskIs, TaskBecomes DEF ReadBlock, reqVars, InTable
    <3>2. Erasing = {} /\ Erasing' = {}
      BY <2>1, ErasingIs DEF storage_read, StorageTakes, Clears
    <3>3. Store!BeginLoad(data_services_table_index)
      BY <1>1, <3>1, <3>2 DEF Store!BeginLoad
    <3> QED BY <3>1, <3>3 DEF Store!StoreNext, StoreStep
  <2>2. CASE UNCHANGED <<data_service_state, dsVars>>
    BY <1>3, <1>9, <2>2 DEF ReadBlock, reqVars, dsVars, Erasing
  <2> QED BY <1>9, <2>1, <2>2 DEF ReadBlock
<1>10. CASE WriteBlock
  <2>1. CASE /\ storage_write(data_services_table_index, "write")
             /\ data_service_state' = "WRITE_WAITING"
             /\ stored' = [stored EXCEPT ![data_services_table_index] = Junk]
    <3>1. /\ Task = Store!Idle
          /\ Task' = Store!Save(data_services_table_index, data_services_buffer')
          /\ data_services_table_index \in Blocks
      BY <1>10, <2>1, TaskIs, TaskBecomes DEF WriteBlock, reqVars, InTable
    <3>2. Erasing = {} /\ Erasing' = {}
      BY <2>1, ErasingIs DEF storage_write, StorageTakes, Clears
    <3>3. data_services_buffer' \in Blocks \X Values
      BY <1>10, <3>1 DEF WriteBlock, Serialise
    <3>4. Store!BeginSave(data_services_table_index, data_services_buffer')
      BY <1>1, <2>1, <3>1, <3>2 DEF Store!BeginSave
    <3> QED BY <3>1, <3>3, <3>4 DEF Store!StoreNext, StoreStep
  <2>2. CASE UNCHANGED <<data_service_state, dsVars, stored>>
    BY <1>3, <1>10, <2>2 DEF WriteBlock, reqVars, dsVars, Erasing
  <2> QED BY <1>10, <2>1, <2>2 DEF WriteBlock
<1> QED
  BY <1>4, <1>5, <1>6, <1>7, <1>8, <1>9, <1>10 DEF data_services

(* A message makes the services start, or the storage clear an area.       *)
LEMMA MessageSteps ==
  ASSUME NvInv, FaultFree, [Next]_vars, faults' = 0, handleMessage
  PROVE  StoreStep
<1>1. UNCHANGED ee /\ UNCHANGED Memory
  BY ServicesEffect, MemoryKept DEF nvVars, chipVars
<1>2. ~PowerFails
  BY ServicesEffect DEF PowerFails, NvInv, TypeOK
<1>3. CASE ServiceMessage
  <2>1. data_service_state = "WAITING" /\ data_service_state' \in {"WAITING", "READ", "WRITE"}
    BY <1>3 DEF ServiceMessage, data_services_all, data_services_specific, Take
  <2>2. UNCHANGED <<stored, Erasing>>
    BY <1>3 DEF ServiceMessage, data_services_all, data_services_specific, Take, dsVars,
                Erasing
  <2> QED BY <1>1, <2>1, <2>2, TaskIs, TaskBecomes, NoStoreStep
<1>4. CASE ClearMessage
  <2>1. PICK b \in Blocks : /\ storage_clear_area(b, "preflight")
                            /\ stored' = [stored EXCEPT ![b] = Junk]
    BY <1>4 DEF ClearMessage
  <2>2. Erasing = {} /\ Erasing' = {b} /\ data_storage_status = "WAITING"
    BY <2>1, ErasingIs DEF storage_clear_area, StorageTakes, Clears
  <2>3. Task.kind \notin {"save", "load"}
    BY <2>2 DEF NvInv, ServicesInv, ServicesAwaitStorage, ReadStatuses, WriteStatuses,
                Task
  <2>4. UNCHANGED Task
    BY <1>2, <1>4, TaskKept DEF ClearMessage, reqVars
  <2>5. Store!BeginErase(b)
    BY <1>1, <2>1, <2>2, <2>3, <2>4 DEF Store!BeginErase
  <2> QED BY <2>5 DEF Store!StoreNext, StoreStep
<1>5. CASE OtherMessage
  BY <1>1, <1>2, <1>5, TaskKept, NoStoreStep
     DEF OtherMessage, svcVars, reqVars, dsVars, Erasing
<1> QED BY <1>3, <1>4, <1>5 DEF handleMessage

(* An area that is found good holds what the memory holds.                 *)
LEMMA GoodLoad ==
  ASSUME NvInv, FaultFree, data_storage_status = "READ_DATA_COMPLETE",
         GoodArea(data_storage_header, data_storage_handle, data_services_buffer)
  PROVE  Memory[data_storage_handle] = data_services_buffer /\ data_services_buffer # Junk
<1>1. /\ data_service_state = "READ_WAITING" /\ ForServices
  BY DEF NvInv, ServicesInv, ReadInv, ReadStatuses
<1>2. ee.table = FullTable
  BY <1>1, FullSynced DEF Starting
<1>4. /\ data_storage_header = ee.header[data_storage_handle]
      /\ data_services_buffer = ee.data[data_storage_handle]
  BY DEF FaultFree, BlockRead
<1>5. Loadable(data_storage_handle)
  BY <1>1, <1>2, <1>4 DEF Loadable, FullTable, ForServices
<1> QED BY <1>1, <1>4, <1>5 DEF Memory, ForServices, GoodArea

(* The storage service tells the services: a request that was refused ends *)
(* the task it is for, a load that is good has found what is in the        *)
(* memory.                                                                 *)
LEMMA TellsSteps ==
  ASSUME NvInv, FaultFree, [Next]_vars, data_storage_service, ~Accepts,
         NEW ok \in BOOLEAN, StorageTells(ok), UserCallback(ok)
  PROVE  StoreStep
<1>1. UNCHANGED ee /\ UNCHANGED Memory
  BY TellsEffect, MemoryKept DEF nvVars, chipVars
<1>2. data_storage_status' = "WAITING" /\ Erasing' = {}
  BY TellsEffect, ErasingIs DEF Clears
<1>3. CASE data_services_read_callback(ok) /\ ok /\ data_storage_status = "READ_DATA_COMPLETE"
  <2>1. /\ GoodArea(data_storage_header, data_storage_handle, data_services_buffer)
        /\ ForServices /\ data_service_state = "READ_WAITING" /\ UNCHANGED data_services_buffer
    BY <1>3, TellsEffect DEF NvInv, ServicesInv, ReadInv, ReadStatuses, StorageTells,
       ReadChecked, RequestRefused, NothingToClear, Asks, Asking
  <2>2. Task = Store!Load(data_services_table_index) /\ UNCHANGED stored
        /\ Task' = Store!Loaded(data_services_table_index, data_services_buffer)
    BY <1>3, <2>1, TaskIs, TaskBecomes DEF data_services_read_callback
  <2>3. Memory[data_services_table_index] = data_services_buffer /\ data_services_buffer # Junk
    BY <1>3, <2>1, GoodLoad DEF ForServices
  <2>4. Erasing = {}
    BY <1>3, ErasingIs DEF Clears
  <2>5. Store!LoadDone
    BY <1>1, <1>2, <2>2, <2>3, <2>4 DEF Store!LoadDone, Store!Load
  <2> QED BY <2>5 DEF Store!StoreNext, StoreStep
<1>4. CASE /\ data_storage_status \in {"READ", "READ_HEADER_COMPLETE", "READ_DATA_COMPLETE",
                                       "WRITE", "WRITING_DATA_COMPLETE"}
           /\ data_services_read_callback(FALSE) \/ data_services_write_callback(FALSE)
  <2>1. Task' = Store!Idle /\ UNCHANGED stored
    BY <1>4, TaskBecomes DEF data_services_read_callback, data_services_write_callback
  <2>2. Erasing = {}
    BY <1>4, ErasingIs DEF Clears
  <2> QED BY <1>1, <1>2, <2>1, <2>2 DEF Store!TaskEnds, Store!StoreNext, StoreStep
<1>5. CASE /\ assign = "AREA_CREATE" /\ data_services_init_all_callback(FALSE)
           /\ data_service_state = "INIT_WAIT"
  <2>1. Starting /\ Starting' /\ UNCHANGED stored
    BY <1>5 DEF Starting, data_services_init_all_callback
  <2>2. Erasing = {}
    BY <1>5, ErasingIs DEF Clears, NvInv, StorageInv, LateInv
  <2> QED BY <1>1, <1>2, <2>1, <2>2, TaskIs, TaskBecomes, NoStoreStep
<1>6. CASE data_storage_status = "AREA_CLEAR" /\ UNCHANGED svcVars
  <2>1. UNCHANGED <<Task, stored>>
    BY <1>6, TellsEffect DEF Task, svcVars, reqVars
  <2> QED BY <1>1, <1>2, <2>1 DEF Store!EraseEnds, Store!StoreNext, StoreStep
<1> QED
  BY <1>3, <1>4, <1>5, <1>6, TellsEffect

(* The storage service: it tells the services, or does nothing that the    *)
(* store could see.                                                        *)
LEMMA StorageSteps ==
  ASSUME NvInv, FaultFree, [Next]_vars, data_storage_service
  PROVE  StoreStep
<1>1. UNCHANGED ee /\ UNCHANGED Memory
  BY AcceptedEffect, CreationEffect, ServiceEffect, MemoryKept
     DEF NvInv, nvVars, chipVars, Accepts
<1>2. ~PowerFails
  BY DEF data_storage_service, PowerFails, NvInv, TypeOK
<1>3. ASSUME UNCHANGED svcVars
      PROVE  UNCHANGED <<stored, Task>>
  BY <1>2, <1>3, TaskKept DEF svcVars, reqVars
<1>4. CASE Accepts
  <2>1. UNCHANGED svcVars
    BY <1>4, AcceptedAlone
  <2>2. UNCHANGED Erasing
    BY <1>4, AcceptedEffect, CreationEffect DEF NvInv, Erasing, Accepts
  <2> QED BY <1>1, <1>3, <2>1, <2>2, NoStoreStep
<1>5. CASE ~Accepts /\ UNCHANGED svcVars
  <2>1. assign \in Awaiting \cup {"AREA_CREATE", "none"}
    BY DEF NvInv, TypeOK, DsTypeOK
  <2>2. CASE UNCHANGED Erasing
    BY <1>1, <1>3, <1>5, <2>2, NoStoreStep
  <2>3. CASE Clears(data_storage_status) /\ ~Clears(data_storage_status')
    BY <1>1, <1>3, <1>5, <2>3, ErasingIs DEF Store!EraseEnds, Store!StoreNext, StoreStep
  <2>4. CASE ~Clears(data_storage_status) /\ Clears(data_storage_status')
    <3>1. /\ assign = "AREA_CLEARING" /\ data_storage_status = "WAITING"
          /\ UNCHANGED data_storage_handle
      BY <1>5, <2>1, <2>4, ServiceEffect DEF NvInv, StorageInv, LateInv, Clears,
                                             Awaiting
    <3>2. data_storage_handle \in Blocks
      BY <3>1 DEF NvInv, StorageInv, HandleKnown
    <3>3. Erasing = {} /\ Erasing' = {data_storage_handle}
      BY <2>4, <3>1, ErasingIs
    <3>4. Task.kind \notin {"save", "load"}
      BY <3>1 DEF NvInv, ServicesInv, ServicesAwaitStorage, ReadStatuses, WriteStatuses,
                  Task
    <3>5. stored' = [stored EXCEPT ![data_storage_handle] = Junk]
      <4>1. stored[data_storage_handle] = Junk /\ stored \in [Blocks -> Contents]
        BY <3>1 DEF FaultFree, NothingClaimed, NvInv, TypeOK
      <4> QED BY <1>3, <1>5, <4>1
    <3>6. Store!BeginErase(data_storage_handle)
      BY <1>1, <1>3, <1>5, <3>3, <3>4, <3>5 DEF Store!BeginErase
    <3> QED BY <3>2, <3>6 DEF Store!StoreNext, StoreStep
  <2>5. CASE Clears(data_storage_status) /\ Clears(data_storage_status')
    BY <1>5, <2>2, <2>5, ErasingIs, ServiceEffect DEF NvInv
  <2>6. CASE ~Clears(data_storage_status) /\ ~Clears(data_storage_status')
    BY <2>2, <2>6, ErasingIs
  <2> QED BY <2>3, <2>4, <2>5, <2>6
<1>6. CASE ~Accepts /\ ~UNCHANGED svcVars
  BY <1>6, TellsSteps DEF data_storage_service
<1> QED BY <1>4, <1>5, <1>6

(* The completions: that of a header ends a save, that of a mark an        *)
(* erasure.                                                                *)
LEMMA ToldSteps ==
  ASSUME NvInv, WholeInv, FaultFree, [Next]_vars, ~TransferFailed, ~PowerFails,
         CallerTold, StorageTold(Reported),
         IF TellsUser(pcallerCallback, Reported) THEN UserCallback(Reported)
         ELSE UNCHANGED svcVars
  PROVE  StoreStep
<1>1. UNCHANGED ee /\ UNCHANGED Memory
  BY MemoryKept DEF CallerTold, ReadDone, WriteDone, chipVars
<1>2. /\ data_storage_status' = StatusAfter(pcallerCallback, TRUE)
      /\ UNCHANGED data_storage_handle
      /\ pcallerCallback \in Reads \cup Writes \cup {"none"}
  BY BuffersRead DEF StorageTold, Reported, NvInv
<1>3. CASE pcallerCallback = "write_header"
  <2>1. PageDone
    BY <1>3, ToldWhenDone DEF Writes
  <2>2. /\ data_service_state = "WRITE_WAITING" /\ ForServices
        /\ data_services_write_callback(TRUE) /\ ~Clears(data_storage_status)
    BY <1>3, ToldCallback DEF NvInv, StorageInv, CallerInv, Waits, Clears
  <2>3. Erasing = {} /\ Erasing' = {}
    BY <1>2, <1>3, <2>2, ErasingIs DEF StatusAfter, Clears
  <2>4. /\ Task = Store!Save(data_services_table_index, data_services_buffer)
        /\ Task' = Store!Idle
        /\ stored' = [stored EXCEPT ![data_services_table_index] = data_services_buffer]
    BY <2>2, TaskIs, TaskBecomes DEF data_services_write_callback
  <2>5. Memory[data_services_table_index] = data_services_buffer
    BY <1>3, <2>1, BlockIsSaved DEF Memory, Loadable, FullTable
  <2>6. Store!SaveDone
    BY <1>1, <2>3, <2>4, <2>5 DEF Store!SaveDone, Store!Save
  <2> QED BY <2>6 DEF Store!StoreNext, StoreStep
<1>4. CASE pcallerCallback = "table"
  <2>1. Starting /\ Starting' /\ UNCHANGED stored
    BY <1>4, ToldCallback DEF Starting, data_services_init_all_callback
  <2>2. UNCHANGED Erasing
    BY <1>2, <1>4, ErasingIs DEF NvInv, StorageInv, CallerInv, StatusAfter, Clears
  <2> QED BY <1>1, <2>1, <2>2, TaskIs, TaskBecomes, NoStoreStep
<1>5. CASE pcallerCallback \notin {"table", "write_header"}
  <2>1. UNCHANGED svcVars
    BY <1>5, ToldCallback
  <2>2. UNCHANGED <<stored, Task>>
    BY <2>1, TaskKept DEF svcVars, reqVars
  <2>3. CASE UNCHANGED Erasing
    BY <1>1, <2>2, <2>3, NoStoreStep
  <2>4. CASE Clears(data_storage_status) /\ ~Clears(data_storage_status')
    BY <1>1, <2>2, <2>4, ErasingIs DEF Store!EraseEnds, Store!StoreNext, StoreStep
  <2>5. Clears(data_storage_status') => UNCHANGED data_storage_status
    BY <1>2 DEF StatusAfter, Clears, Reads, Writes
  <2>6. CASE ~Clears(data_storage_status) /\ ~Clears(data_storage_status')
    BY <2>3, <2>6, ErasingIs
  <2> QED BY <1>2, <2>3, <2>4, <2>5, <2>6, ErasingIs
<1> QED BY <1>3, <1>4, <1>5

(* Every step is a step of the store, or leaves it as it is, until the     *)
(* first transfer fails.                                                   *)
LEMMA RefinementStep ==
  ASSUME StoreInv, [Next]_vars
  PROVE  [Store!StoreNext \/ faults' > 0]_<<Store!storeVars, faults>>
<1>1. CASE faults' = 0
  <2>1. NvInv /\ WholeInv /\ FaultFree /\ faults = 0 /\ ~TransferFailed
    BY <1>1, NoFault DEF StoreInv, DataInv
  <2>2. StoreStep
    <3>1. CASE data_storage_service
      BY <2>1, <3>1, StorageSteps
    <3>2. CASE data_services
      BY <1>1, <2>1, <3>2, ServiceSteps
    <3>3. CASE handleMessage
      BY <1>1, <2>1, <3>3, MessageSteps
    <3>4. CASE I2CInterrupt
      <4>1. ~PowerFails
        BY <2>1, <3>4 DEF I2CInterrupt, PowerFails, NvInv, TypeOK
      <4>2. CASE CallerNotTold /\ UNCHANGED <<dsVars, svcVars>>
        <5>1. UNCHANGED <<ee, stored, Task, Erasing>>
          BY <4>2 DEF CallerNotTold, PageSent, NextPage, Recovered, StillProgramming,
                      chipVars, ramVars, dsVars, svcVars, reqVars, Task, Erasing
        <5> QED BY <5>1, NoStoreStep
      <4> QED BY <2>1, <3>4, <4>1, <4>2, ToldSteps DEF I2CInterrupt
    <3>5. CASE ChipIsDone \/ PowerFails
      BY <1>1, <2>1, <3>5, ChipSteps
    <3>6. CASE NvService \/ BusStops \/ Pulse \/ UNCHANGED vars
      <4>1. UNCHANGED <<ee, stored, Task, Erasing>>
        BY <3>6 DEF NvService, nv_memory_service, BusStops, StopEnds, Pulse,
                    AboveUnchanged, vars, belowVars, nvVars, chipVars, ramVars, dsVars,
                    svcVars, reqVars, Task, Erasing
      <4> QED BY <4>1, NoStoreStep
    <3> QED BY <3>1, <3>2, <3>3, <3>4, <3>5, <3>6 DEF Next, EventInterrupt
  <2> QED BY <1>1, <2>1, <2>2 DEF StoreStep
<1>2. CASE faults' # 0
  <2>1. faults' \in Nat
    BY NvInvNext DEF StoreInv, NvInv, TypeOK, NvTypeOK
  <2> QED BY <1>2, <2>1
<1> QED BY <1>1, <1>2

(* Whatever is in the chip at first is the store's first memory.           *)
LEMMA RefinementInit == Init /\ ee \in OwnEEPROMs => Store!StoreInit
<1>1. ASSUME Init, ee \in OwnEEPROMs
      PROVE  Store!StoreInit
  <2>1. Memory \in [Blocks -> Store!Kept]
    BY <1>1, NvInvInit, MemoryType DEF NvInv
  <2>2. Task = Store!Start /\ Erasing = {}
    BY <1>1, TaskIs, ErasingIs DEF Init, DsInit, SvcInit, Starting, Clears
  <2> QED BY <1>1, <2>1, <2>2 DEF Init, Store!StoreInit
<1> QED BY <1>1

(***************************************************************************)
(* The services, with the storage, the driver, the chip, the events and    *)
(* the losses of power below them, implement the store of blocks until the *)
(* first transfer fails.                                                   *)
(***************************************************************************)
THEOREM StoreImplemented == Spec => ImplementsBlockStore
<1> QED
  BY RefinementInit, RefinementStep, StoreInvInit, StoreInvNext, PTL
     DEF Spec, ImplementsBlockStore
=============================================================================
