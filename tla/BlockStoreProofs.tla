--------------------------- MODULE BlockStoreProofs ---------------------------
(***************************************************************************)
(* What BlockStore promises follows from its steps: a step that changes    *)
(* the memory changes only blocks at risk, and a block that was said to be *)
(* saved is at risk only from the task that makes it unsaid first.         *)
(***************************************************************************)
EXTENDS BlockStore, TLAPS

(* A block that is being saved or erased was not said to be saved, and     *)
(* nothing is erased while a block is saved.                               *)
WorkedOnIsUnsaved ==
  /\ task.kind = "save" => saved[task.block] = Nothing /\ erasing = {}
  /\ \A b \in erasing : saved[b] = Nothing

StoreInv == StoreTypeOK /\ WorkedOnIsUnsaved /\ SavedIsKept

LEMMA TypeInit == StoreInit => StoreTypeOK
BY DEF StoreInit, StoreTypeOK, Kept, Tasks, Start

(* What the kinds of task tell about their fields.                         *)
LEMMA TaskFields ==
  ASSUME StoreTypeOK
  PROVE  /\ task.kind \in {"save", "load", "loaded"} => task.block \in Blocks
         /\ task.kind \in {"save", "loaded"} => task.value \in Data
BY DEF StoreTypeOK, Tasks, Idle, Start, Save, Load, Loaded

LEMMA TypeStep ==
  ASSUME StoreTypeOK, [StoreNext]_storeVars
  PROVE  StoreTypeOK'
<1> USE DEF StoreTypeOK, Kept
<1>1. CASE Work \/ PowerLost
  BY <1>1 DEF Work, PowerLost, Tasks, Start
<1>2. CASE SaveDone
  <2>1. task.block \in Blocks /\ task.value \in Data
    BY <1>2, TaskFields DEF SaveDone
  <2> QED BY <1>2, <2>1 DEF SaveDone, Tasks, Idle
<1>3. CASE LoadDone
  <2>1. task.block \in Blocks /\ memory[task.block] \in Data
    BY <1>3, TaskFields DEF LoadDone
  <2>2. task' \in Tasks
    BY <1>3, <2>1 DEF LoadDone, Tasks
  <2> QED BY <1>3, <2>2 DEF LoadDone
<1>4. CASE TaskEnds \/ EraseEnds
  BY <1>4 DEF TaskEnds, EraseEnds, Tasks, Idle
<1>5. ASSUME NEW b \in Blocks, BeginErase(b)
      PROVE  StoreTypeOK'
  BY <1>5 DEF BeginErase
<1>6. ASSUME NEW b \in Blocks, BeginLoad(b)
      PROVE  StoreTypeOK'
  <2>1. task' \in Tasks
    BY <1>6 DEF BeginLoad, Tasks
  <2> QED BY <1>6, <2>1 DEF BeginLoad
<1>7. ASSUME NEW b \in Blocks, NEW v \in Data, BeginSave(b, v)
      PROVE  StoreTypeOK'
  <2>1. task' \in Tasks
    BY <1>7 DEF BeginSave, Tasks
  <2> QED BY <1>7, <2>1 DEF BeginSave
<1>8. CASE UNCHANGED storeVars
  BY <1>8 DEF storeVars
<1> QED BY <1>1, <1>2, <1>3, <1>4, <1>5, <1>6, <1>7, <1>8 DEF StoreNext

(* A step that may touch the memory leaves what was said to be saved.      *)
LEMMA SavedUntouched ==
  ASSUME StoreInv, UNCHANGED saved, memory' \in [Blocks -> Kept], Touched(memory')
  PROVE  SavedIsKept'
<1> SUFFICES ASSUME NEW b \in Blocks, saved[b] # Nothing
             PROVE  memory'[b] = saved[b]
  BY DEF SavedIsKept
<1>1. memory[b] = saved[b]
  BY DEF StoreInv, SavedIsKept
<1>2. /\ ~AtRisk(b) /\ ~Unknown(b)
      /\ ~(task.kind = "save" /\ task.block = b)
  BY DEF AtRisk, Unknown, StoreInv, WorkedOnIsUnsaved
<1> QED BY <1>1, <1>2 DEF Touched

LEMMA InvStep ==
  ASSUME StoreInv, [StoreNext]_storeVars
  PROVE  StoreInv'
<1> USE DEF StoreInv
<1>0. StoreTypeOK'
  BY TypeStep
<1>1. CASE Work
  <2>1. SavedIsKept'
    BY <1>1, SavedUntouched DEF Work
  <2> QED BY <1>0, <1>1, <2>1 DEF Work, WorkedOnIsUnsaved
<1>2. CASE PowerLost
  <2>1. SavedIsKept'
    BY <1>2, SavedUntouched DEF PowerLost
  <2>2. WorkedOnIsUnsaved'
    BY <1>2 DEF PowerLost, WorkedOnIsUnsaved, Start
  <2> QED BY <1>0, <2>1, <2>2
<1>3. CASE SaveDone
  <2>1. task.block \in Blocks /\ task.value \in Data 
    BY <1>3, TaskFields DEF SaveDone
  <2>2. SavedIsKept'
    BY <1>3, <2>1 DEF SaveDone, SavedIsKept, StoreTypeOK
  <2>3. WorkedOnIsUnsaved'
    BY <1>3 DEF SaveDone, WorkedOnIsUnsaved, Idle
  <2> QED BY <1>0, <2>2, <2>3
<1>4. CASE LoadDone \/ TaskEnds \/ EraseEnds
  BY <1>0, <1>4
     DEF LoadDone, TaskEnds, EraseEnds, WorkedOnIsUnsaved, SavedIsKept, Idle, Loaded
<1>5. ASSUME NEW b \in Blocks, BeginErase(b)
      PROVE  StoreInv'
  BY <1>0, <1>5 DEF BeginErase, WorkedOnIsUnsaved, SavedIsKept, StoreTypeOK
<1>6. ASSUME NEW b \in Blocks, BeginLoad(b)
      PROVE  StoreInv'
  BY <1>0, <1>6 DEF BeginLoad, WorkedOnIsUnsaved, SavedIsKept, Load
<1>7. ASSUME NEW b \in Blocks, NEW v \in Data, BeginSave(b, v)
      PROVE  StoreInv'
  BY <1>0, <1>7
     DEF BeginSave, WorkedOnIsUnsaved, SavedIsKept, StoreTypeOK, Save
<1>8. CASE UNCHANGED storeVars
  BY <1>0, <1>8 DEF storeVars, WorkedOnIsUnsaved, SavedIsKept
<1> QED BY <1>1, <1>2, <1>3, <1>4, <1>5, <1>6, <1>7, <1>8 DEF StoreNext

(***************************************************************************)
(* Whatever the number of blocks and their contents, what was said to be   *)
(* saved can be loaded until it is saved or erased again: also when the    *)
(* power fails while another block is being saved.                         *)
(***************************************************************************)
THEOREM StoreKeepsSaved == StoreSpec => [](StoreTypeOK /\ SavedIsKept)
<1>1. StoreInit => StoreInv
  BY TypeInit
     DEF StoreInit, StoreInv, WorkedOnIsUnsaved, SavedIsKept, Start
<1>2. StoreInv /\ [StoreNext]_storeVars => StoreInv'
  BY InvStep
<1>3. StoreInv => StoreTypeOK /\ SavedIsKept
  BY DEF StoreInv
<1> QED BY <1>1, <1>2, <1>3, PTL DEF StoreSpec
=============================================================================
