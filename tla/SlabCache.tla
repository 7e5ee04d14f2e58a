----------------------------- MODULE SlabCache -----------------------------
(***************************************************************************)
(* One cache of the slab allocator (slab.c).  Every operation holds        *)
(* cache->lock, so each is one step.  A slab is named by its page; its     *)
(* bitmap is the set of the indices in use.  Clients free only objects     *)
(* they hold, each once.                                                   *)
(***************************************************************************)
EXTENDS LinkedLists, Totals

CONSTANTS
  Page,       \* pages pmm_alloc_page can return
  PerSlabs    \* values of objects_per_slab: from 0, for objects of 4096 bytes

ASSUME SlabAssumption == IsFiniteSet(Page) /\ NULL \notin Page /\ PerSlabs \subseteq Nat

VARIABLES
  objects_per_slab,  \* set once
  slabs,      \* the lists full, partial and empty
  bitmap,     \* [Page]: indices in use
  free_count, \* [Page]
  counts,     \* total_slabs, free_objects, total_objects
  held        \* history: the objects handed out and not freed

slabVars == <<objects_per_slab, slabs, bitmap, free_count, counts, held>>

SlabInit ==
  /\ objects_per_slab \in PerSlabs
  /\ slabs = [head |-> [h \in {"full", "partial", "empty"} |-> NULL],
              next |-> [s \in Page |-> NULL],
              prev |-> [s \in Page |-> NULL]]
  /\ bitmap = [s \in Page |-> {}]
  /\ free_count = [s \in Page |-> 0]
  /\ counts = [total_slabs |-> 0, free_objects |-> 0, total_objects |-> 0]
  /\ held = {}

SlabsOf(h) == Nodes(slabs, h)
AllSlabs == UNION {SlabsOf(h) : h \in DOMAIN slabs.head}

(* Operators X_Y are faulty variants of X, which the properties notice.    *)
Move_KeepOld(l, from, to, s) == PushFront(l, to, s)

Move(l, from, to, s) == PushFront(Unlink(l, from, s), to, s)

FirstFree_Zero(s) == 0

(* find_first_free, where there is one. *)
FirstFree(s) ==
  CHOOSE k \in 0 .. objects_per_slab - 1 :
    k \notin bitmap[s] /\ \A j \in 0 .. k - 1 : j \in bitmap[s]

(* An object of slab s is taken; l, total and free are the lists, slabs    *)
(* and free objects at that point, left the slab's free objects.           *)
Take(s, l, total, free, left) ==
  LET i == FirstFree(s)
  IN  /\ bitmap' = [bitmap EXCEPT ![s] = @ \cup {i}]
      /\ free_count' = [free_count EXCEPT ![s] = left - 1]
      /\ slabs' = IF left = 1 THEN Move(l, "partial", "full", s) ELSE l
      /\ counts' = [total_slabs |-> total, free_objects |-> free - 1,
                    total_objects |-> objects_per_slab * total]
      /\ held' = held \cup {<<s, i>>}

(* A free object in a slab already partly used comes first ... *)
AllocPartial ==
  LET s == slabs.head["partial"]
  IN  /\ s # NULL
      /\ Take(s, slabs, counts.total_slabs, counts.free_objects, free_count[s])

UseEmpty_Never == FALSE

UseEmpty == slabs.head["empty"] # NULL

(* ... then a slab that was used before ... *)
AllocEmpty ==
  LET s == slabs.head["empty"]
  IN  /\ slabs.head["partial"] = NULL /\ UseEmpty
      /\ Take(s, Move(slabs, "empty", "partial", s),
              counts.total_slabs, counts.free_objects, free_count[s])

(* ... then a new page.  With no object per slab the bitmap would have no  *)
(* byte: kmalloc(0) fails, and slab_alloc with it.                         *)
AllocNew ==
  /\ slabs.head["partial"] = NULL /\ ~UseEmpty
  /\ objects_per_slab > 0
  /\ \E s \in Page \ AllSlabs :
       Take(s, PushFront(slabs, "partial", s),
            counts.total_slabs + 1, counts.free_objects + objects_per_slab, objects_per_slab)

WasFull(n) == n = 1

(* The lists after an object of slab s was freed, n of them being free.    *)
AfterFree(s, n) ==
  LET l == IF WasFull(n) THEN Move(slabs, "full", "partial", s) ELSE slabs
  IN  IF n = objects_per_slab THEN Move(l, "partial", "empty", s) ELSE l

(* slab_free looks for the slab in the partial and the full list. *)
slab_free(s, i) ==
  /\ s \in SlabsOf("partial") \cup SlabsOf("full")
  /\ bitmap' = [bitmap EXCEPT ![s] = @ \ {i}]
  /\ free_count' = [free_count EXCEPT ![s] = @ + 1]
  /\ slabs' = AfterFree(s, free_count[s] + 1)
  /\ counts' = [counts EXCEPT !.free_objects = @ + 1]
  /\ held' = held \ {<<s, i>>}

(* free_slab for every slab of the three lists, one list after the other.  *)
slab_cache_destroy ==
  LET gone == Chain(slabs, "full") \o Chain(slabs, "partial") \o Chain(slabs, "empty")
      free == [k \in 1 .. Len(gone) |-> free_count[gone[k]]]
  IN  /\ slabs' = [slabs EXCEPT !.head = [h \in DOMAIN @ |-> NULL]]
      /\ counts' = [total_slabs   |-> counts.total_slabs - Len(gone),
                    free_objects  |-> counts.free_objects - Total(free),
                    total_objects |-> counts.total_objects - objects_per_slab * Len(gone)]
      /\ bitmap' = [s \in Page |-> {}]
      /\ held' = {}
      /\ UNCHANGED free_count

SlabNext ==
  /\ \/ AllocPartial \/ AllocEmpty \/ AllocNew
     \/ \E o \in held : slab_free(o[1], o[2])
     \/ slab_cache_destroy
  /\ UNCHANGED objects_per_slab

SlabSpec == SlabInit /\ [][SlabNext]_slabVars

----------------------------------------------------------------------------
(* Properties. *)

(* After any sequence of calls a slab is in exactly one of the three       *)
(* lists, the one its number of free objects asks for, so that slab_alloc  *)
(* finds room where there is some and slab_free finds the slab; the hand-  *)
(* written moves at both boundaries, which for one object per slab fall    *)
(* together, leave no dangling link (slab.c:206-258, 329-355).             *)
SlabsInTheirList ==
  /\ \A h \in DOMAIN slabs.head : WellLinked(slabs, h)
  /\ \A s \in AllSlabs :
       \A h \in DOMAIN slabs.head :
         s \in SlabsOf(h) <=> h = CASE free_count[s] = 0       -> "full"
                                    [] free_count[s] = objects_per_slab -> "empty"
                                    [] OTHER                   -> "partial"

(* What the bitmaps, the counters of the slabs and the counters of the     *)
(* cache say is what the clients hold: no object is handed out twice or    *)
(* lost (slab.c:236-241, 312-318, 176-179).                                *)
ObjectsAccounted ==
  /\ held = UNION {{s} \X bitmap[s] : s \in AllSlabs}
  /\ \A s \in AllSlabs : free_count[s] = objects_per_slab - Cardinality(bitmap[s])
  /\ counts.total_slabs = Cardinality(AllSlabs)
  /\ counts.total_objects = objects_per_slab * counts.total_slabs
  /\ counts.free_objects = counts.total_objects - Cardinality(held)

(* A page is taken from the frame allocator only when every object of      *)
(* every slab is in use (slab.c:201-234).                                  *)
NewSlabOnlyWhenFull ==
  [][counts'.total_slabs > counts.total_slabs => counts.free_objects = 0]_slabVars
=============================================================================
