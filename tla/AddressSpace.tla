---------------------------- MODULE AddressSpace ----------------------------
(***************************************************************************)
(* Page frames, page tables and memory areas: pmm_alloc_page,              *)
(* paging_map_page and mmap_user (memory.c), the area list and the page    *)
(* fault handler (vma.c), the page mapping of the ELF loader (elf.c).      *)
(*                                                                         *)
(* One task works on its own address space; page faults run with           *)
(* interrupts off.  A fault that is answered 0 makes the CPU repeat the    *)
(* access; any other answer halts the kernel (irq_dispatch).               *)
(* Nothing frees a frame that was mapped, or a page table.                 *)
(***************************************************************************)
EXTENDS Integers, FiniteSets, FiniteSetsExt, SequencesExt

CONSTANTS
  Frames,       \* number of frames that can be allocated: 1 .. Frames.  Frame
                \* 0 is reserved at boot, and its address is NULL
  AddressBits,  \* width of an address
  PageUnits,    \* addresses per page
  Tables,       \* Tables[page]: the three page tables on the way to its
                \* entry, from the top
  Sizes,        \* sizes of areas
  MaxAreas      \* bound on the length of the area list

ASSUME SpaceAssumption ==
  /\ Frames \in Nat /\ MaxAreas \in Nat /\ Sizes \subseteq Nat
  /\ 2^AddressBits \in Nat \ {0}
  /\ PageUnits \in Nat \ {0}

Frame == 1 .. Frames
Address == 0 .. 2^AddressBits - 1
VPage == 0 .. 2^AddressBits \div PageUnits - 1
PageOf(addr) == addr \div PageUnits
Table == {Tables[v][level] : v \in VPage, level \in 1 .. 3}
Unmapped == [frame |-> -1, write |-> FALSE]

VARIABLES
  mem,        \* used: frames in use; free_pages; table: frame of each page
              \* table, or 0; map: page -> [frame, write]
  vma_list,   \* sequence of [start, end, write]
  access,     \* the access that faulted and is repeated, or <<>>
  kernelHalted,
  exempt      \* history: pages that lay in areas of different rights, that
              \* mmap_user mapped or that outlived their area

spaceVars == <<mem, vma_list, access, kernelHalted, exempt>>

SpaceInit ==
  /\ mem = [used |-> {}, free_pages |-> Frames,
            table |-> [t \in Table |-> 0],
            map |-> [v \in VPage |-> Unmapped]]
  /\ vma_list = <<>>
  /\ access = <<>>
  /\ kernelHalted = FALSE
  /\ exempt = {}

FreeFrames(m) == Frame \ m.used
OutOfMemory(m) == FreeFrames(m) = {}
LowestFree(m) == CHOOSE f \in FreeFrames(m) : \A g \in FreeFrames(m) : f <= g

(* Operators X_Y are faulty variants of X, which the properties notice.    *)
pmm_alloc_page_NoMark(m) == [m EXCEPT !.free_pages = @ - 1]

(* Takes the lowest free frame. *)
pmm_alloc_page(m) ==
  [m EXCEPT !.used = @ \cup {LowestFree(m)}, !.free_pages = @ - 1]

(* The page table t, in a new frame if it is missing and there is one.     *)
AddTable(m, t) ==
  IF m.table[t] # 0 \/ OutOfMemory(m)
    THEN m
    ELSE [pmm_alloc_page(m) EXCEPT !.table[t] = LowestFree(m)]

(* The three page tables on the way to page v; if one of them cannot be    *)
(* had, paging_map_page returns, and nobody is told.                       *)
paging_map_page(m, v, entry) ==
  LET tables == Tables[v]
      filled == AddTable(AddTable(AddTable(m, tables[1]), tables[2]), tables[3])
  IN  IF \A level \in 1 .. 3 : filled.table[tables[level]] # 0
        THEN [filled EXCEPT !.map[v] = entry]
        ELSE filled

(* A new frame for page v. *)
MapNew(m, v, write) ==
  paging_map_page(pmm_alloc_page(m), v, [frame |-> LowestFree(m), write |-> write])

----------------------------------------------------------------------------
(* Areas. *)

Touches(a, v) == \E addr \in a.start .. a.end - 1 : PageOf(addr) = v

(* Pages that areas of different rights share. *)
Mixed(areas) ==
  {v \in VPage : \E i, j \in DOMAIN areas :
     Touches(areas[i], v) /\ Touches(areas[j], v) /\ areas[i].write # areas[j].write}

(* Behind every area that starts lower; in front of the first one only if  *)
(* it starts lower than that. *)
Position(areas, start) ==
  IF areas = <<>> \/ start < areas[1].start
    THEN 1
    ELSE 2 + Cardinality({i \in 2 .. Len(areas) :
                            \A j \in 2 .. i : areas[j].start < start})

(* start + size wraps at the width of an address. *)
AddArea(start, size, write) ==
  /\ Len(vma_list) < MaxAreas
  /\ vma_list' = InsertAt(vma_list, Position(vma_list, start),
        [start |-> start, end |-> (start + size) % 2^AddressBits, write |-> write])
  /\ exempt' = exempt \cup Mixed(vma_list')

mm_add_vma(start, size, write) ==
  /\ access = <<>>
  /\ AddArea(start, size, write)
  /\ UNCHANGED <<mem, access, kernelHalted>>

(* mm_destroy leaves the pages mapped. *)
mm_destroy ==
  /\ access = <<>> /\ vma_list # <<>>
  /\ vma_list' = <<>>
  /\ exempt' = exempt \cup {v \in VPage : mem.map[v] # Unmapped}
  /\ UNCHANGED <<mem, access, kernelHalted>>

Covering(addr) == {i \in DOMAIN vma_list : addr \in vma_list[i].start .. vma_list[i].end - 1}

(* mm_find_vma: the first area of the list that has the address. *)
FoundArea(addr) == vma_list[Min(Covering(addr))]

----------------------------------------------------------------------------
(* Accesses and page faults. *)

Faults(v, write) == mem.map[v] = Unmapped \/ (write /\ ~mem.map[v].write)

Touch(addr, write) ==
  /\ access = <<>>
  /\ Faults(PageOf(addr), write)
  /\ access' = <<addr, write>>
  /\ UNCHANGED <<mem, vma_list, kernelHalted, exempt>>

Rights_ReadOnly(a) == FALSE

Rights(a) == a.write

Refused_NotByMemory(addr, write) ==
  Covering(addr) = {} \/ (write /\ ~FoundArea(addr).write)

Refused(addr, write) ==
  Covering(addr) = {} \/ (write /\ ~FoundArea(addr).write) \/ OutOfMemory(mem)

(* handle_page_fault takes a new frame whether or not the page has one. *)
handle_page_fault ==
  /\ access # <<>> /\ ~kernelHalted
  /\ LET addr == access[1]
         new  == IF OutOfMemory(mem) THEN mem
                 ELSE MapNew(mem, PageOf(addr), Rights(FoundArea(addr)))
     IN  IF Refused(addr, access[2])
           THEN kernelHalted' = TRUE /\ UNCHANGED <<mem, access>>
           ELSE /\ mem' = new
                /\ access' = IF new.map[PageOf(addr)] = mem.map[PageOf(addr)]
                               THEN access ELSE <<>>
                /\ UNCHANGED kernelHalted
  /\ UNCHANGED <<vma_list, exempt>>

(* The pages of a range one after the other; when memory has run out,      *)
(* mmap_user stops and the ELF loader, which does not look, maps frame 0.  *)
MapNext(m, v, write, loader) ==
  IF ~OutOfMemory(m) THEN MapNew(m, v, write)
  ELSE IF loader THEN paging_map_page(m, v, [frame |-> 0, write |-> write])
  ELSE m

MapRange(first, n, write, loader) ==
  LET mapped[i \in 0 .. n] ==
        IF i = 0 THEN mem ELSE MapNext(mapped[i - 1], first + i - 1, write, loader)
  IN  mapped[n]

mmap_user(first, n, write) ==
  /\ access = <<>> /\ first + n - 1 \in VPage
  /\ mem' = MapRange(first, n, write, FALSE)
  /\ exempt' = exempt \cup (first .. first + n - 1)
  /\ UNCHANGED <<vma_list, access, kernelHalted>>

(* elf_load, for one segment: the area, then its pages. *)
LoadSegment(start, size, write) ==
  /\ access = <<>> /\ start + size < 2^AddressBits
  /\ AddArea(start, size, write)
  /\ mem' = MapRange(PageOf(start), (size + PageUnits - 1) \div PageUnits, write, TRUE)
  /\ UNCHANGED <<access, kernelHalted>>

SpaceNext ==
  \/ \E start \in Address, size \in Sizes, write \in BOOLEAN :
       mm_add_vma(start, size, write) \/ LoadSegment(start, size, write)
  \/ mm_destroy
  \/ \E addr \in Address, write \in BOOLEAN : Touch(addr, write)
  \/ handle_page_fault
  \/ \E first \in VPage, n \in 1 .. 2, write \in BOOLEAN : mmap_user(first, n, write)

SpaceSpec == SpaceInit /\ [][SpaceNext]_spaceVars

----------------------------------------------------------------------------
(* Properties. *)

(* A frame serves one purpose: no two pages are mapped to it, no page      *)
(* shares it with a page table, whichever allocation failed half way.  The *)
(* exception is frame 0, which the ELF loader maps when memory runs out.   *)
(* g_free_pages agrees with the bitmap (memory.c:143-179, vma.c:83-92).    *)
FramesNotShared ==
  /\ mem.free_pages = Cardinality(Frame \ mem.used)
  /\ \A v \in VPage :
       LET f == mem.map[v].frame
       IN  f > 0 =>
             /\ f \in mem.used
             /\ \A u \in VPage : mem.map[u].frame = f => u = v
             /\ \A t \in DOMAIN mem.table : mem.table[t] # f
  /\ \A t, u \in DOMAIN mem.table : mem.table[t] = mem.table[u] => t = u \/ mem.table[t] = 0

(* A page fault does not replace the frame, and with it the contents, of a *)
(* page that has one, unless areas with different rights meet on the page, *)
(* it was mapped by mmap_user, or its area is gone (vma.c:65-93 never asks *)
(* whether the page is mapped).                                            *)
FaultKeepsFrame ==
  [][access # <<>> =>
       \A v \in VPage \ exempt :
         mem.map[v] # Unmapped => mem'.map[v].frame = mem.map[v].frame]_spaceVars

(* A faulting access is not repeated for ever: handle_page_fault answers 0 *)
(* even when paging_map_page gave up for want of a page table, but each    *)
(* such round takes a frame, until the handler refuses and the kernel      *)
(* halts (vma.c:82-93, memory.c:146-149).                                  *)
AccessResolved == (access # <<>>) ~> (access = <<>> \/ kernelHalted)
=============================================================================
