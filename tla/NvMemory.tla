------------------------------ MODULE NvMemory ------------------------------
(***************************************************************************)
(* The EEPROM driver (libUDB/24LC256.c) on the I2C bus (libUDB/I2C1.c),    *)
(* and the EEPROM itself, which is external.                               *)
(*                                                                         *)
(* The driver runs one request at a time.  A write is cut at the 64-byte   *)
(* pages of the chip; after each page the chip is busy programming and     *)
(* nv_memory_service polls it with CheckAck until it answers.  A transfer  *)
(* is one step here, from I2C1_startWrite to the stop condition; it ends   *)
(* in the I2C interrupt (level 5), which calls MCP24LC256_callback, which  *)
(* may call the driver's caller.                                           *)
(*                                                                         *)
(* The contents of a block of parameters are one of its Values; its check- *)
(* sum is the contents themselves (no collisions).  A cell that was being  *)
(* written when the transfer or the power was cut may hold Junk, whose     *)
(* checksum never matches.                                                 *)
(***************************************************************************)
EXTENDS Naturals

CONSTANTS
  BlockCount,  \* mavlink_parameter_block_count
  FirstPage,   \* the blocks whose table entry is on the table's first page
  Values,      \* what the parameters of a block may hold
  Junk,        \* contents that no block ever holds
  MaxFaults    \* bound: transfers that fail on the bus

ASSUME NvMemoryAssumption ==
  /\ BlockCount \in Nat \ {0}
  /\ FirstPage \subseteq 1 .. BlockCount
  /\ Junk \notin (1 .. BlockCount) \X Values
  /\ MaxFaults \in Nat

VARIABLES
  bus,         \* I2C1_Busy, and "stopping" while a failed transfer stops
  MCP24LC256_state,
  pcallerCallback,
  cell,        \* what the transfer reads or writes: buffer and address
  pages,       \* MCP24LC256_write_size, in pages still to be sent
  programming, \* the chip is busy with the page it received
  received,    \* the areas of the table when it received that page
  ee,          \* the contents of the EEPROM
  faults,      \* transfers that failed so far
  data_storage_table, data_storage_header, data_services_buffer
               \* the buffers of the driver's callers

chipVars == <<ee, programming, received, faults>>
mcpVars  == <<bus, MCP24LC256_state, pcallerCallback, cell, pages>>
nvVars   == <<mcpVars, chipVars>>
ramVars  == <<data_storage_table, data_storage_header, data_services_buffer>>

(* Block i is the i-th parameter block; i also stands for its handle and   *)
(* for its data area in the EEPROM, the same each time it is created.      *)
Blocks   == 1 .. BlockCount
Contents == (Blocks \X Values) \cup {Junk}

(* The table: is its preamble there, which blocks have an entry, does the  *)
(* checksum match.  A header: preamble, handle, checksum of the data.      *)
Tables  == [preamble: BOOLEAN, areas: SUBSET Blocks, checksum: BOOLEAN]
Headers == [preamble: BOOLEAN, handle: Blocks \cup {0}, checksum: Contents]

EEPROMs == [table: Tables, header: [Blocks -> Headers], data: [Blocks -> Contents]]

(* What this program can have left there: an area holds what its block     *)
(* may hold, or junk, and its header vouches for no other block.           *)
Own(b) == ({b} \X Values) \cup {Junk}
OwnHeaders(b) == [preamble: BOOLEAN, handle: {0, b}, checksum: Own(b)]
OwnEEPROMs ==
  {e \in EEPROMs : \A b \in Blocks : e.header[b] \in OwnHeaders(b) /\ e.data[b] \in Own(b)}

(* "mark" is the header's preamble alone.                                  *)
TablePages == 3
TheTable   == [what |-> "table", block |-> 0]
Cell(w, b) == [what |-> w, block |-> b]
Cells == {TheTable} \cup {Cell(w, b) : w \in {"header", "data", "mark"}, b \in Blocks}
Pages(c) == IF c.what = "table" THEN TablePages ELSE 1

StorageCallbacks ==
  {"none", "init", "format", "table", "write", "write_header",
   "read_header", "read_data", "clear"}

BlankHeader == [preamble |-> FALSE, handle |-> 0, checksum |-> Junk]

NvInit ==
  /\ bus = "free"
  /\ MCP24LC256_state = "STOPPED"
  /\ pcallerCallback = "none"
  /\ cell = TheTable /\ pages = 0
  /\ programming = FALSE /\ received = {} /\ faults = 0
  /\ data_storage_table = [preamble |-> FALSE, areas |-> {}, checksum |-> FALSE]
  /\ data_storage_header = BlankHeader
  /\ data_services_buffer = Junk

-----------------------------------------------------------------------------
(* The areas in the page: the table may change once the chip has it.       *)
Areas == IF programming THEN received ELSE data_storage_table.areas

(* The EEPROM once the page that was sent is programmed.                   *)
Programmed ==
  CASE cell.what = "table" ->
         [ee EXCEPT !.table =
            CASE pages = 2 ->
                   [@ EXCEPT !.preamble = data_storage_table.preamble,
                             !.areas = (ee.table.areas \ FirstPage)
                                 \cup (Areas \cap FirstPage)]
              [] pages = 1 ->
                   [@ EXCEPT !.areas = (ee.table.areas \cap FirstPage)
                                 \cup (Areas \ FirstPage)]
              [] OTHER -> [@ EXCEPT !.checksum = data_storage_table.checksum]]
    [] cell.what = "header" ->
         [ee EXCEPT !.header[cell.block] = data_storage_header]
    [] cell.what = "mark" ->
         [ee EXCEPT !.header[cell.block].preamble = data_storage_header.preamble]
    [] OTHER -> [ee EXCEPT !.data[cell.block] = data_services_buffer]

(* ... and when it was cut: the bytes that made it, perhaps one torn.      *)
Cut ==
  {ee, Programmed} \cup
  CASE cell.what = "data" -> {[ee EXCEPT !.data[cell.block] = Junk]}
    [] cell.what = "header" ->
         {[ee EXCEPT !.header[cell.block] = h] : h \in
            {[ee.header[cell.block] EXCEPT !.preamble = FALSE]} \cup
            {[data_storage_header EXCEPT !.checksum = c] :
               c \in {Junk, ee.header[cell.block].checksum}}}
    [] cell.what = "mark" -> {}
    [] OTHER -> {[ee EXCEPT !.table.preamble = FALSE]}

-----------------------------------------------------------------------------
(* Requests, made by the service that owns the buffers (level 2).          *)
I2C1_CheckAvailable == bus = "free"

NvAccepts == MCP24LC256_state = "STOPPED" /\ I2C1_CheckAvailable

udb_nv_memory_read(c, callback) ==
  /\ NvAccepts
  /\ MCP24LC256_state' = "READING"
  /\ pcallerCallback' = callback
  /\ cell' = c
  /\ bus' = "busy"
  /\ UNCHANGED <<pages, chipVars>>

(* udb_nv_memory_write with its first MCP24LC256_write_chunk.              *)
udb_nv_memory_write(c, callback) ==
  /\ NvAccepts
  /\ MCP24LC256_state' = "WRITING"
  /\ pcallerCallback' = callback
  /\ cell' = c
  /\ pages' = Pages(c) - 1
  /\ bus' = "busy"
  /\ UNCHANGED chipVars

(* A request that the bus refuses leaves its callback behind, and a write  *)
(* leaves the driver failed; one that the driver refuses leaves no trace.  *)
NvRefuses(write, callback) ==
  /\ ~NvAccepts
  /\ IF MCP24LC256_state = "STOPPED"
     THEN /\ pcallerCallback' = callback
          /\ MCP24LC256_state' = IF write THEN "FAILED_TRX" ELSE "STOPPED"
     ELSE UNCHANGED <<MCP24LC256_state, pcallerCallback>>
  /\ UNCHANGED <<bus, cell, pages, chipVars>>

(* nv_memory_service: ask for an acknowledgement when the chip may be busy *)
(* or a transfer failed; I2C1_CheckAck may refuse.                         *)
nv_memory_service ==
  /\ bus' = IF /\ MCP24LC256_state \in {"WAITING_WRITE", "FAILED_TRX"}
               /\ I2C1_CheckAvailable
            THEN "busy" ELSE bus
  /\ UNCHANGED <<MCP24LC256_state, pcallerCallback, cell, pages, chipVars>>

-----------------------------------------------------------------------------
(* The I2C interrupt at the end of a transfer.  A transfer fails when a    *)
(* byte is not acknowledged: by a chip that is programming, or by a fault. *)
Fault ==
  /\ faults < MaxFaults
  /\ faults' = faults + 1

(* MCP24LC256_callback(true).                                              *)
ReadDone ==
  /\ bus = "busy" /\ MCP24LC256_state = "READING"
  /\ bus' = "free"
  /\ data_storage_table' = IF cell.what = "table" THEN ee.table ELSE data_storage_table
  /\ data_storage_header' = IF cell.what = "header" THEN ee.header[cell.block]
                            ELSE data_storage_header
  /\ data_services_buffer' = IF cell.what = "data" THEN ee.data[cell.block]
                             ELSE data_services_buffer
  /\ MCP24LC256_state' = "STOPPED"
  /\ pcallerCallback' = "none"
  /\ UNCHANGED <<cell, pages, chipVars>>

PageSent ==
  /\ bus = "busy" /\ MCP24LC256_state = "WRITING"
  /\ bus' = "free"
  /\ MCP24LC256_state' = "WAITING_WRITE"
  /\ programming' = TRUE
  /\ received' = data_storage_table.areas
  /\ UNCHANGED <<pcallerCallback, cell, pages, ee, faults, ramVars>>

(* Mutant: the end of the data is not seen. *)
NextPage_NoEnd ==
  /\ bus = "busy" /\ MCP24LC256_state = "WAITING_WRITE" /\ ~programming
  /\ MCP24LC256_state' = "WRITING"
  /\ pages' = pages - 1
  /\ UNCHANGED <<bus, pcallerCallback, cell, chipVars, ramVars>>

NextPage ==
  /\ bus = "busy" /\ MCP24LC256_state = "WAITING_WRITE" /\ ~programming
  /\ pages > 0
  /\ MCP24LC256_state' = "WRITING"
  /\ pages' = pages - 1
  /\ UNCHANGED <<bus, pcallerCallback, cell, chipVars, ramVars>>

WriteDone ==
  /\ bus = "busy" /\ MCP24LC256_state = "WAITING_WRITE" /\ ~programming
  /\ pages = 0
  /\ bus' = "free"
  /\ MCP24LC256_state' = "STOPPED"
  /\ pcallerCallback' = "none"
  /\ UNCHANGED <<cell, pages, chipVars, ramVars>>

Recovered ==
  /\ bus = "busy" /\ MCP24LC256_state = "FAILED_TRX"
  /\ bus' = "free"
  /\ MCP24LC256_state' = "STOPPED"
  /\ UNCHANGED <<pcallerCallback, cell, pages, chipVars, ramVars>>

(* MCP24LC256_callback(false).  While it waits for a page to be            *)
(* programmed the driver keeps waiting.                                    *)
StillProgramming ==
  /\ bus = "busy" /\ MCP24LC256_state = "WAITING_WRITE"
  /\ bus' = "stopping"
  /\ IF programming THEN UNCHANGED faults ELSE Fault
  /\ UNCHANGED <<MCP24LC256_state, pcallerCallback, cell, pages, ee,
                 programming, received, ramVars>>

(* Anything else failed: the caller is told, and told that all is well.    *)
(* Mutant: a failed driver counts as stopped. *)
TransferFailed_Stopped ==
  /\ bus = "busy" /\ MCP24LC256_state # "WAITING_WRITE"
  /\ Fault
  /\ bus' = "stopping"
  /\ ee' \in IF MCP24LC256_state = "WRITING" THEN Cut ELSE {ee}
  /\ MCP24LC256_state' = "STOPPED"
  /\ pcallerCallback' = "none"
  /\ UNCHANGED <<cell, pages, programming, received, ramVars>>

TransferFailed ==
  /\ bus = "busy" /\ MCP24LC256_state # "WAITING_WRITE"
  /\ Fault
  /\ bus' = "stopping"
  /\ ee' \in IF MCP24LC256_state = "WRITING" THEN Cut ELSE {ee}
  /\ MCP24LC256_state' = "FAILED_TRX"
  /\ pcallerCallback' = "none"
  /\ UNCHANGED <<cell, pages, programming, received, ramVars>>

CallerTold == ReadDone \/ WriteDone \/ TransferFailed
CallerNotTold == PageSent \/ NextPage \/ Recovered \/ StillProgramming

(* The stop condition after a failure ends (I2C1_NORMAL holds again).      *)
StopEnds ==
  /\ bus = "stopping"
  /\ bus' = "free"
  /\ UNCHANGED <<MCP24LC256_state, pcallerCallback, cell, pages, chipVars,
                 ramVars>>

(* The chip has programmed the page.                                       *)
PageProgrammed ==
  /\ programming
  /\ programming' = FALSE /\ received' = {}
  /\ ee' = Programmed
  /\ UNCHANGED <<mcpVars, faults, ramVars>>

(* Power comes back: the driver starts afresh; a page that was on its way  *)
(* or being programmed may be cut.                                         *)
NvRestart ==
  /\ ee' \in IF programming \/ MCP24LC256_state = "WRITING" THEN Cut ELSE {ee}
  /\ programming' = FALSE /\ received' = {}
  /\ bus' = "free"
  /\ MCP24LC256_state' = "STOPPED"
  /\ pcallerCallback' = "none"
  /\ cell' = TheTable /\ pages' = 0
  /\ data_storage_table' = [preamble |-> FALSE, areas |-> {}, checksum |-> FALSE]
  /\ data_storage_header' = BlankHeader
  /\ data_services_buffer' = Junk
  /\ UNCHANGED faults

NvTypeOK ==
  /\ bus \in {"free", "busy", "stopping"}
  /\ MCP24LC256_state \in
       {"STOPPED", "READING", "WRITING", "WAITING_WRITE", "FAILED_TRX"}
  /\ pcallerCallback \in StorageCallbacks
  /\ cell \in Cells
  /\ pages \in 0 .. TablePages
  /\ programming \in BOOLEAN
  /\ received \subseteq Blocks
  /\ ee \in EEPROMs
  /\ faults \in 0 .. MaxFaults
  /\ data_storage_table \in Tables
  /\ data_storage_header \in Headers
  /\ data_services_buffer \in Contents
=============================================================================
