-------------------------------- MODULE Heap --------------------------------
(***************************************************************************)
(* The kernel heap (kmalloc and kfree of memory.c), used by wm_task and,   *)
(* between any two of its steps, by the keyboard interrupt, which opens    *)
(* and closes windows.  Memory is counted in granules of 16 bytes, the     *)
(* alignment of kmalloc and the size of struct free_block.                 *)
(*                                                                         *)
(* kmalloc holds heap_lock, with interrupts enabled; kfree takes no lock.  *)
(* An interrupt that calls kmalloc while the task holds the lock spins for *)
(* ever: halted.                                                           *)
(*                                                                         *)
(* The owner of a block writes over its next, which the model keeps: it is *)
(* read again only after a block in use has come back into the list, when  *)
(* raced is set.                                                           *)
(***************************************************************************)
EXTENDS LinkedLists

CONSTANTS
  HeapSize,   \* heap_used_pages * PAGE_SIZE, in granules
  MaxSize     \* largest request

ASSUME HeapAssumption ==
  /\ HeapSize \in Nat \ {0} /\ MaxSize \in Nat \ {0}
  /\ NULL \notin Int

HeapAddress == 0 .. HeapSize - 1
Size == 1 .. MaxSize

VARIABLES
  heap_offset,
  free_list,    \* the first block of the list, or NULL
  next_block,   \* free_block.next, in the first granule of a freed block
  heap_lock,
  pc,           \* where the task is
  request,      \* what the task asks for: a size, or a block to free
  in_use,       \* history: size of each block handed out and not freed, or 0
  raced,        \* history: an interrupt took a block from the list in the
                \* middle of a kfree of the task
  halted

heapVars ==
  <<heap_offset, free_list, next_block, heap_lock, pc, request, in_use, raced, halted>>
list == <<free_list, next_block>>

HeapInit ==
  /\ heap_offset = 0
  /\ free_list = NULL
  /\ next_block = [a \in HeapAddress |-> NULL]
  /\ heap_lock = FALSE
  /\ pc = "idle"
  /\ request = 0
  /\ in_use = [a \in HeapAddress |-> 0]
  /\ raced = FALSE
  /\ halted = FALSE

(* Operators X_Y are faulty variants of X, which the properties notice. *)
FreeSize_Full(a) == MaxSize

(* free_block.size: kfree does not know the size of a block. *)
FreeSize(a) == 1

(* The blocks the list leads to. *)
OnList == ToSet(ChainFrom(next_block, free_list))

(* The blocks are all of one size, so the walk stops at the first one or   *)
(* finds none.                                                             *)
Fits(size) == free_list # NULL /\ FreeSize(free_list) >= size

HandOut(a, size) == in_use' = [in_use EXCEPT ![a] = size]

HeapFull(size) == heap_offset + size > HeapSize

(* Beyond the list: the next granules, or NULL when there are not enough. *)
Bump(size) ==
  IF HeapFull(size)
    THEN UNCHANGED <<heap_offset, in_use>>
    ELSE heap_offset' = heap_offset + size /\ HandOut(heap_offset, size)

(* The body of kmalloc, in one piece. *)
TakeBlock(size) ==
  \/ /\ Fits(size)
     /\ free_list' = next_block[free_list]
     /\ HandOut(free_list, size)
     /\ UNCHANGED <<heap_offset, next_block>>
  \/ /\ ~Fits(size)
     /\ Bump(size)
     /\ UNCHANGED list

----------------------------------------------------------------------------
(* The task. *)

LockForMalloc(size) ==
  /\ pc = "idle" /\ pc' = "walk"
  /\ request' = size
  /\ heap_lock' = TRUE
  /\ UNCHANGED <<heap_offset, list, in_use, raced, halted>>

(* The walk reads the list head; what it found is unlinked in a later      *)
(* step, unless there was nothing and the bump allocation does the rest.   *)
Walk ==
  /\ pc = "walk"
  /\ IF Fits(request)
       THEN pc' = "unlink" /\ UNCHANGED <<heap_offset, heap_lock, in_use>>
       ELSE /\ pc' = "idle"
            /\ heap_lock' = FALSE
            /\ Bump(request)
  /\ request' = IF Fits(request) THEN free_list ELSE 0
  /\ UNCHANGED <<list, raced, halted>>

(* *p = found->next, where p still points to free_list. *)
UnlinkFound ==
  /\ pc = "unlink" /\ pc' = "idle"
  /\ free_list' = next_block[request]
  /\ HandOut(request, 1)
  /\ heap_lock' = FALSE
  /\ request' = 0
  /\ UNCHANGED <<heap_offset, next_block, raced, halted>>

FreeBegin_KeepNext(a) ==
  /\ pc = "idle" /\ pc' = "push"
  /\ in_use[a] > 0
  /\ in_use' = [in_use EXCEPT ![a] = 0]
  /\ request' = a
  /\ UNCHANGED <<heap_offset, list, heap_lock, raced, halted>>

(* kfree: block->next = free_list, then free_list = block. *)
FreeBegin(a) ==
  /\ pc = "idle" /\ pc' = "push"
  /\ in_use[a] > 0
  /\ in_use' = [in_use EXCEPT ![a] = 0]
  /\ next_block' = [next_block EXCEPT ![a] = free_list]
  /\ request' = a
  /\ UNCHANGED <<heap_offset, free_list, heap_lock, raced, halted>>

FreeEnd ==
  /\ pc = "push" /\ pc' = "idle"
  /\ free_list' = request
  /\ request' = 0
  /\ UNCHANGED <<heap_offset, next_block, heap_lock, in_use, raced, halted>>

TaskCalls ==
  \/ \E size \in Size : LockForMalloc(size)
  \/ Walk \/ UnlinkFound \/ FreeEnd
  \/ \E a \in HeapAddress : FreeBegin(a)

----------------------------------------------------------------------------
(* The keyboard interrupt. *)

InterruptMalloc(size) ==
  /\ UNCHANGED <<heap_lock, pc, request>>
  /\ IF heap_lock
       THEN halted' = TRUE /\ UNCHANGED <<heap_offset, list, in_use, raced>>
       ELSE /\ TakeBlock(size)
            /\ raced' = (raced \/ (pc = "push" /\ Fits(size)))
            /\ UNCHANGED halted

InterruptFree(a) ==
  /\ in_use[a] > 0
  /\ in_use' = [in_use EXCEPT ![a] = 0]
  /\ next_block' = [next_block EXCEPT ![a] = free_list]
  /\ free_list' = a
  /\ UNCHANGED <<heap_offset, heap_lock, pc, request, raced, halted>>

InterruptCalls ==
  \/ \E size \in Size : InterruptMalloc(size)
  \/ \E a \in HeapAddress : InterruptFree(a)

HeapNext == ~halted /\ (TaskCalls \/ InterruptCalls)

HeapSpec == HeapInit /\ [][HeapNext]_heapVars

----------------------------------------------------------------------------
(* Properties. *)

Granules(a) == a .. a + in_use[a] - 1

(* Two blocks in use never share a granule, though a freed block is handed *)
(* out again without a record of how long it was: it is only good for the  *)
(* smallest request (memory.c:237-247, 278-284).                           *)
BlocksDisjoint ==
  \A a, b \in HeapAddress : a # b => Granules(a) \cap Granules(b) = {}

(* The free list leads to free blocks only, so kmalloc never hands out a   *)
(* block in use, unless an interrupt took a block from the list between    *)
(* the two writes of a kfree of the task: that block then is in use and,   *)
(* through the stale next, on the list (memory.c:267-285).                 *)
FreeListIsFree ==
  ~raced =>
    /\ \A a \in OnList : in_use[a] = 0
    /\ pc = "push" => in_use[request] = 0 /\ request \notin OnList
=============================================================================
