----------------------------- MODULE BlockStore -----------------------------
(***************************************************************************)
(* What saving and loading parameters promises to the rest of the program, *)
(* whatever the EEPROM, its driver, the storage areas and the events below *)
(* it do (MatrixPilot/data_services.h, data_storage.h): a memory of blocks *)
(* in which one task works at a time.                                      *)
(*   A save puts only its own block at risk, and when it is said to be     *)
(*   done the block is in the memory.                                      *)
(*   A load yields what is in the memory, or fails.                        *)
(*   A loss of power ends the task and starts the system again, which      *)
(*   neither loses nor changes a block that was said to be saved.          *)
(***************************************************************************)

CONSTANTS
  Blocks,
  Data,     \* what a block may hold
  Nothing   \* a block that cannot be loaded

VARIABLES
  memory,   \* block -> what a load of it would yield
  saved,    \* block -> what was said to be saved, until the next save or erasure
  task,     \* what the services do
  erasing   \* the block that is being erased, if any

storeVars == <<memory, saved, task, erasing>>

Kept  == Data \cup {Nothing}
Idle  == [kind |-> "idle"]
Start == [kind |-> "start"]
Save(b, v)   == [kind |-> "save", block |-> b, value |-> v]
Load(b)      == [kind |-> "load", block |-> b]
Loaded(b, v) == [kind |-> "loaded", block |-> b, value |-> v]

Tasks ==
  {Idle, Start} \cup {Load(b) : b \in Blocks}
    \cup {Save(b, v) : b \in Blocks, v \in Data}
    \cup {Loaded(b, v) : b \in Blocks, v \in Data}

StoreInit ==
  /\ memory \in [Blocks -> Kept]
  /\ saved = [b \in Blocks |-> Nothing]
  /\ task = Start /\ erasing = {}

-----------------------------------------------------------------------------
(* The blocks that may be lost at any time, the one that may be written,   *)
(* and those of which nothing is known while the system starts: a table    *)
(* that is made anew after it was cut brings back, page by page, what it   *)
(* listed.                                                                 *)
AtRisk(b) ==
  \/ task.kind = "save" /\ task.block = b
  \/ b \in erasing

Unknown(b) == task.kind = "start" /\ saved[b] = Nothing

Touched(m) ==
  \A b \in Blocks :
    \/ m[b] = memory[b] \/ Unknown(b)
    \/ AtRisk(b) /\ m[b] = Nothing
    \/ task.kind = "save" /\ task.block = b /\ m[b] = task.value

Work ==
  /\ memory' \in [Blocks -> Kept] /\ Touched(memory')
  /\ UNCHANGED <<saved, task, erasing>>

BeginSave(b, v) ==
  /\ task = Idle /\ erasing = {}
  /\ task' = Save(b, v)
  /\ saved' = [saved EXCEPT ![b] = Nothing]
  /\ UNCHANGED <<memory, erasing>>

SaveDone ==
  /\ task.kind = "save" /\ memory[task.block] = task.value
  /\ saved' = [saved EXCEPT ![task.block] = task.value]
  /\ task' = Idle /\ UNCHANGED <<memory, erasing>>

BeginLoad(b) ==
  /\ task = Idle /\ erasing = {}
  /\ task' = Load(b)
  /\ UNCHANGED <<memory, saved, erasing>>

LoadDone ==
  /\ task.kind = "load" /\ memory[task.block] # Nothing
  /\ task' = Loaded(task.block, memory[task.block])
  /\ UNCHANGED <<memory, saved, erasing>>

(* A task comes to its end, or fails.                                      *)
TaskEnds == task' = Idle /\ UNCHANGED <<memory, saved, erasing>>

(* A block may be erased while the system starts, and while another is     *)
(* handed over, but not while one is saved or loaded.                      *)
BeginErase(b) ==
  /\ erasing = {} /\ task.kind \notin {"save", "load"}
  /\ erasing' = {b}
  /\ saved' = [saved EXCEPT ![b] = Nothing]
  /\ UNCHANGED <<memory, task>>

EraseEnds == erasing' = {} /\ UNCHANGED <<memory, saved, task>>

PowerLost ==
  /\ memory' \in [Blocks -> Kept] /\ Touched(memory')
  /\ task' = Start /\ erasing' = {}
  /\ UNCHANGED saved

StoreNext ==
  \/ Work \/ SaveDone \/ LoadDone \/ TaskEnds \/ EraseEnds \/ PowerLost
  \/ \E b \in Blocks :
       BeginErase(b) \/ BeginLoad(b) \/ \E v \in Data : BeginSave(b, v)

StoreSpec == StoreInit /\ [][StoreNext]_storeVars

-----------------------------------------------------------------------------
StoreTypeOK ==
  /\ memory \in [Blocks -> Kept]
  /\ saved \in [Blocks -> Kept]
  /\ task \in Tasks
  /\ erasing \subseteq Blocks

(***************************************************************************)
(* What was said to be saved can be loaded, until the block is saved or    *)
(* erased again, whatever happens to other blocks and to the power.        *)
(***************************************************************************)
SavedIsKept == \A b \in Blocks : saved[b] # Nothing => memory[b] = saved[b]
=============================================================================
