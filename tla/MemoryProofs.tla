---------------------------- MODULE MemoryProofs ----------------------------
(***************************************************************************)
(* Frames, page tables and memory areas, for any number of frames, pages   *)
(* and areas: no frame serves two purposes, whichever allocation failed    *)
(* half way, and a page fault does not replace the frame of a page.  For   *)
(* pages and pools of any size: what was compressed can be decompressed.   *)
(***************************************************************************)
EXTENDS AddressSpace, PageCompress, SequenceLemmas

Entry == [frame : Frame \cup {0, -1}, write : BOOLEAN]

Memory ==
  [used : SUBSET Frame, free_pages : Int, table : [Table -> Frame \cup {0}],
   map : [VPage -> Entry]]

(* A frame in use that neither a page nor a page table has yet.            *)
Spare(m, f) ==
  /\ f \in m.used
  /\ \A v \in VPage : m.map[v].frame # f
  /\ \A t \in Table : m.table[t] # f

(* Each frame in use has at most one user, and every user's frame is in    *)
(* use.                                                                    *)
FramesApart(m) ==
  /\ m \in Memory
  /\ m.free_pages = Cardinality(Frame \ m.used)
  /\ \A v \in VPage : m.map[v].frame > 0 => m.map[v].frame \in m.used
  /\ \A t \in Table : m.table[t] # 0 => m.table[t] \in m.used
  /\ \A u, v \in VPage : m.map[u].frame = m.map[v].frame => u = v \/ m.map[v].frame <= 0
  /\ \A v \in VPage, t \in Table : m.map[v].frame = m.table[t] => m.table[t] = 0
  /\ \A t, u \in Table : m.table[t] = m.table[u] => t = u \/ m.table[t] = 0

(* A frame that was free becomes spare.                                    *)
LEMMA AllocHolds ==
  ASSUME NEW m, FramesApart(m), ~OutOfMemory(m)
  PROVE  /\ LowestFree(m) \in Frame \ m.used
         /\ FramesApart(pmm_alloc_page(m))
         /\ Spare(pmm_alloc_page(m), LowestFree(m))
         /\ pmm_alloc_page(m).map = m.map
         /\ pmm_alloc_page(m).table = m.table
         /\ pmm_alloc_page(m).used = m.used \cup {LowestFree(m)}
<1> DEFINE f == LowestFree(m)
           r == pmm_alloc_page(m)
<1>1. /\ Frames \in Nat /\ Frame \in SUBSET Nat /\ IsFiniteSet(Frame)
      /\ \A g \in Frame : g > 0
  <2>1. Frames \in Nat
    BY SpaceAssumption
  <2>2. IsFiniteSet(Frame)
    BY <2>1, FS_Interval DEF Frame
  <2> QED BY <2>1, <2>2 DEF Frame
<1>2. f \in Frame \ m.used
  <2> DEFINE free == Frame \ m.used
  <2>1. free \in SUBSET Nat /\ free # {}
    BY <1>1 DEF OutOfMemory, FreeFrames
  <2>2. \E x \in free : \A y \in free : x <= y
    <3> HIDE DEF free
    <3> QED BY <2>1, LeastElement
  <2> QED BY <2>2 DEF LowestFree, FreeFrames
<1>3. /\ m \in Memory
      /\ r = [m EXCEPT !.used = m.used \cup {f}, !.free_pages = m.free_pages - 1]
  BY DEF FramesApart, pmm_alloc_page
<1>4. /\ r \in Memory /\ r.map = m.map /\ r.table = m.table
      /\ r.used = m.used \cup {f} /\ r.free_pages = m.free_pages - 1
  <2> HIDE DEF r, f
  <2>1. m.free_pages - 1 \in Int /\ m.used \cup {f} \in SUBSET Frame
    BY <1>2, <1>3 DEF Memory
  <2> QED BY <1>3, <2>1 DEF Memory
<1>5. r.free_pages = Cardinality(Frame \ r.used)
  <2> DEFINE free == Frame \ m.used
  <2>1. IsFiniteSet(free) /\ f \in free
    BY <1>1, <1>2, FS_Subset
  <2>2. Frame \ r.used = free \ {f}
    BY <1>4
  <2>3. Cardinality(free \ {f}) = Cardinality(free) - 1
    BY <2>1, FS_RemoveElement
  <2>4. m.free_pages = Cardinality(free)
    BY DEF FramesApart
  <2> QED BY <1>4, <2>2, <2>3, <2>4
<1>6. FramesApart(r)
  <2> HIDE DEF r, f
  <2> QED BY <1>4, <1>5 DEF FramesApart
<1>7. Spare(r, f)
  <2> HIDE DEF r
  <2>1. ASSUME NEW v \in VPage PROVE r.map[v].frame # f
    <3>1. m.map[v].frame > 0 => m.map[v].frame \in m.used
      BY DEF FramesApart
    <3>2. f > 0 /\ f \in Nat
      BY <1>1, <1>2
    <3> QED BY <1>2, <1>4, <3>1, <3>2
  <2>2. ASSUME NEW t \in Table PROVE r.table[t] # f
    <3>1. m.table[t] # 0 => m.table[t] \in m.used
      BY DEF FramesApart
    <3>2. f > 0 /\ f \in Nat
      BY <1>1, <1>2
    <3> QED BY <1>2, <1>4, <3>1, <3>2
  <2> QED BY <1>4, <2>1, <2>2 DEF Spare
<1> QED BY <1>2, <1>4, <1>6, <1>7

(* A page table gets a frame of its own; spare frames stay spare.          *)
LEMMA TableHolds ==
  ASSUME NEW m, NEW t, FramesApart(m)
  PROVE  /\ FramesApart(AddTable(m, t))
         /\ AddTable(m, t).map = m.map
         /\ \A f : Spare(m, f) => Spare(AddTable(m, t), f)
<1>1. CASE m.table[t] # 0 \/ OutOfMemory(m)
  BY <1>1 DEF AddTable
<1>2. CASE ~(m.table[t] # 0 \/ OutOfMemory(m))
  <2> DEFINE f == LowestFree(m)
             a == pmm_alloc_page(m)
             r == AddTable(m, t)
  <2>1. /\ f \in Frame \ m.used /\ FramesApart(a) /\ Spare(a, f)
        /\ a.map = m.map /\ a.table = m.table /\ a.used = m.used \cup {f}
    BY <1>2, AllocHolds
  <2>2. r = [a EXCEPT !.table[t] = f]
    BY <1>2, Zenon DEF AddTable
  <2> HIDE DEF f, a, r
  <2>3. f \in Nat /\ f > 0
    BY <2>1, SpaceAssumption DEF Frame
  <2>4. /\ r \in Memory /\ r.map = a.map /\ r.used = a.used /\ r.free_pages = a.free_pages
        /\ r.table = [a.table EXCEPT ![t] = f]
    BY <2>1, <2>2 DEF FramesApart, Memory
  <2>5. \A u \in Table : r.table[u] = IF u = t THEN f ELSE a.table[u]
    BY <2>1, <2>4 DEF FramesApart, Memory
  <2>6. FramesApart(r)
    <3>1. \A u \in Table : r.table[u] # 0 => r.table[u] \in r.used
      BY <2>1, <2>4, <2>5 DEF FramesApart, Spare
    <3>2. \A u \in VPage, w \in Table : r.map[u].frame = r.table[w] => r.table[w] = 0
      BY <2>1, <2>4, <2>5 DEF FramesApart, Spare
    <3>3. \A u, w \in Table : r.table[u] = r.table[w] => u = w \/ r.table[w] = 0
      BY <2>1, <2>3, <2>4, <2>5 DEF FramesApart, Spare
    <3> QED BY <2>1, <2>4, <3>1, <3>2, <3>3 DEF FramesApart
  <2>7. ASSUME NEW g, Spare(m, g) PROVE Spare(r, g)
    BY <2>1, <2>4, <2>5, <2>7 DEF Spare
  <2> QED BY <2>1, <2>4, <2>6, <2>7 DEF r
<1> QED BY <1>1, <1>2

(* Mapping a page to a spare frame, or to none, leaves the other pages     *)
(* as they are.                                                            *)
LEMMA MapPageHolds ==
  ASSUME NEW m, NEW v, NEW entry \in Entry, FramesApart(m),
         entry.frame > 0 => Spare(m, entry.frame)
  PROVE  /\ FramesApart(paging_map_page(m, v, entry))
         /\ \A u \in VPage :
              \/ paging_map_page(m, v, entry).map[u] = m.map[u]
              \/ u = v /\ paging_map_page(m, v, entry).map[u] = entry
<1> DEFINE t == Tables[v]
           a == AddTable(m, t[1])
           b == AddTable(a, t[2])
           c == AddTable(b, t[3])
           r == paging_map_page(m, v, entry)
<1>1. FramesApart(a) /\ a.map = m.map /\ \A f : Spare(m, f) => Spare(a, f)
  BY TableHolds
<1>2. FramesApart(b) /\ b.map = m.map /\ \A f : Spare(m, f) => Spare(b, f)
  <2> HIDE DEF a
  <2> QED BY <1>1, TableHolds
<1>3. FramesApart(c) /\ c.map = m.map /\ \A f : Spare(m, f) => Spare(c, f)
  <2> HIDE DEF b
  <2> QED BY <1>2, TableHolds
<1>4. r = [c EXCEPT !.map[v] = entry] \/ r = c
  BY Zenon DEF paging_map_page
<1> HIDE DEF a, b, c, r
<1>5. CASE r = c
  BY <1>3, <1>5 DEF r
<1>6. CASE r = [c EXCEPT !.map[v] = entry]
  <2>1. /\ r \in Memory /\ r.table = c.table /\ r.used = c.used /\ r.free_pages = c.free_pages
        /\ r.map = [c.map EXCEPT ![v] = entry]
    BY <1>3, <1>6 DEF FramesApart, Memory
  <2>2. \A u \in VPage : r.map[u] = IF u = v THEN entry ELSE c.map[u]
    BY <1>3, <2>1 DEF FramesApart, Memory
  <2>3. entry.frame \in Int /\ (entry.frame > 0 => Spare(c, entry.frame))
    BY <1>3, SpaceAssumption DEF Entry, Frame
  <2>4. /\ \A u \in VPage : c.map[u].frame \in Int
        /\ \A u \in Table : c.table[u] \in Int /\ c.table[u] >= 0
    BY <1>3, SpaceAssumption DEF FramesApart, Memory, Entry, Frame
  <2>5. FramesApart(r)
    BY <1>3, <2>1, <2>2, <2>3, <2>4 DEF FramesApart, Spare
  <2> QED BY <1>3, <2>2, <2>5 DEF r
<1> QED BY <1>4, <1>5, <1>6

(* From m to r, only these pages were mapped, with these rights.           *)
OnlyMaps(m, r, pages, write) ==
  \A u \in VPage :
    \/ r.map[u] = m.map[u]
    \/ u \in pages /\ r.map[u] # Unmapped /\ r.map[u].write = write

(* Mapping a page to a new frame.                                          *)
LEMMA MapNewHolds ==
  ASSUME NEW m, NEW v, NEW write \in BOOLEAN, FramesApart(m), ~OutOfMemory(m)
  PROVE  /\ FramesApart(MapNew(m, v, write))
         /\ OnlyMaps(m, MapNew(m, v, write), {v}, write)
<1> DEFINE f == LowestFree(m)
           a == pmm_alloc_page(m)
           entry == [frame |-> f, write |-> write]
<1>1. f \in Frame /\ FramesApart(a) /\ Spare(a, f) /\ a.map = m.map
  BY AllocHolds
<1>2. MapNew(m, v, write) = paging_map_page(a, v, entry)
  BY Zenon DEF MapNew
<1> HIDE DEF a, f
<1>3. /\ entry \in Entry /\ entry # Unmapped /\ entry.write = write /\ entry.frame = f
      /\ entry.frame > 0 => Spare(a, entry.frame)
  BY <1>1, SpaceAssumption DEF Entry, Unmapped, Frame
<1> HIDE DEF entry
<1> DEFINE r == paging_map_page(a, v, entry)
<1>4. /\ FramesApart(r)
      /\ \A u \in VPage : r.map[u] = a.map[u] \/ (u = v /\ r.map[u] = entry)
  BY <1>1, <1>3, MapPageHolds
<1> HIDE DEF r
<1> QED BY <1>1, <1>2, <1>3, <1>4 DEF r, OnlyMaps

(* One page of a range: it stays as it is, or is mapped with the rights    *)
(* asked for.                                                              *)
LEMMA MapNextHolds ==
  ASSUME NEW m, NEW v, NEW write \in BOOLEAN, NEW loader \in BOOLEAN, FramesApart(m)
  PROVE  /\ FramesApart(MapNext(m, v, write, loader))
         /\ OnlyMaps(m, MapNext(m, v, write, loader), {v}, write)
<1> DEFINE r == MapNext(m, v, write, loader)
<1>1. CASE ~OutOfMemory(m)
  <2>1. r = MapNew(m, v, write)
    BY <1>1, Zenon DEF MapNext
  <2> HIDE DEF r
  <2>2. /\ FramesApart(r)
        /\ OnlyMaps(m, r, {v}, write)
    BY <1>1, <2>1, MapNewHolds
  <2> QED BY <2>2 DEF r
<1>2. CASE OutOfMemory(m) /\ loader
  <2> DEFINE entry == [frame |-> 0, write |-> write]
             p == paging_map_page(m, v, entry)
  <2>1. r = p
    BY <1>2, Zenon DEF MapNext
  <2>2. entry \in Entry /\ entry # Unmapped /\ entry.write = write /\ ~(entry.frame > 0)
    BY DEF Entry, Unmapped
  <2>4. entry.frame > 0 => Spare(m, entry.frame)
    BY <2>2
  <2> HIDE DEF entry
  <2>3. /\ FramesApart(p)
        /\ \A u \in VPage : p.map[u] = m.map[u] \/ (u = v /\ p.map[u] = entry)
    BY <2>2, <2>4, MapPageHolds
  <2> HIDE DEF p, r
  <2>5. /\ FramesApart(r)
        /\ OnlyMaps(m, r, {v}, write)
    BY <2>1, <2>2, <2>3 DEF OnlyMaps
  <2> QED BY <2>5 DEF r
<1>3. CASE OutOfMemory(m) /\ ~loader
  BY <1>3 DEF MapNext, OnlyMaps
<1> QED BY <1>1, <1>2, <1>3

(* A range of pages.                                                       *)
LEMMA MapRangeHolds ==
  ASSUME NEW first \in Int, NEW n \in Nat, NEW write \in BOOLEAN, NEW loader \in BOOLEAN,
         FramesApart(mem)
  PROVE  /\ FramesApart(MapRange(first, n, write, loader))
         /\ OnlyMaps(mem, MapRange(first, n, write, loader), first .. first + n - 1, write)
<1> DEFINE pages == first .. first + n - 1
           S == {m \in Memory : FramesApart(m) /\ OnlyMaps(mem, m, pages, write)}
           Next(m, i) == MapNext(m, first + i - 1, write, loader)
           G == [x \in S \X (1 .. n) |-> Next(x[1], x[2])]
<1>1. mem \in S
  BY DEF FramesApart, OnlyMaps
<1>2. ASSUME NEW m \in S, NEW i \in 1 .. n PROVE Next(m, i) \in S
  <2> DEFINE v == first + i - 1
             r == MapNext(m, v, write, loader)
  <2>1. v \in pages
    OBVIOUS
  <2>2. FramesApart(m) /\ OnlyMaps(mem, m, pages, write)
    OBVIOUS
  <2> HIDE DEF v, pages, S
  <2>3. FramesApart(r) /\ OnlyMaps(m, r, {v}, write)
    BY <2>2, MapNextHolds, Zenon
  <2> HIDE DEF r
  <2>4. OnlyMaps(mem, r, pages, write)
    BY <2>1, <2>2, <2>3 DEF OnlyMaps
  <2>5. r \in S
    BY <2>3, <2>4 DEF FramesApart, S
  <2> QED BY <2>5 DEF r, v
<1>3. G \in [S \X (1 .. n) -> S]
  <2> HIDE DEF S, Next
  <2> QED BY <1>2
<1>4. PICK f \in [0 .. n -> S] : Iterates(f, mem, n, G)
  <2> HIDE DEF S, G
  <2> QED BY <1>1, <1>3, IterationExists
<1>5. ASSUME NEW i \in 0 .. n
      PROVE  f[i] = IF i = 0 THEN mem ELSE Next(f[i - 1], i)
  <2>1. CASE i = 0
    BY <1>4, <2>1 DEF Iterates
  <2>2. CASE i # 0
    <3>1. i - 1 \in 0 .. n /\ i \in 1 .. n
      BY <2>2
    <3> DEFINE x == f[i - 1]
    <3>2. x \in S /\ f[i] = G[<<x, i>>]
      <4> HIDE DEF G, S
      <4> QED BY <1>4, <2>2, <3>1 DEF Iterates
    <3> HIDE DEF x, S, Next
    <3>3. G[<<x, i>>] = Next(x, i)
      BY <3>1, <3>2
    <3> QED BY <2>2, <3>2, <3>3 DEF x
  <2> QED BY <2>1, <2>2
<1>6. f = [i \in 0 .. n |-> IF i = 0 THEN mem ELSE Next(f[i - 1], i)]
  <2> HIDE DEF Next, S
  <2> QED BY <1>5
<1> DEFINE mapped[i \in 0 .. n] == IF i = 0 THEN mem ELSE Next(mapped[i - 1], i)
<1>7. mapped = [i \in 0 .. n |-> IF i = 0 THEN mem ELSE Next(mapped[i - 1], i)]
  <2> HIDE DEF Next, S
  <2> QED BY <1>6
<1>8. MapRange(first, n, write, loader) = mapped[n]
  BY Zenon DEF MapRange
<1> HIDE DEF mapped
<1>9. mapped[n] \in S
  <2> DEFINE T == {i \in Nat : i <= n => mapped[i] \in S}
  <2>1. 0 \in T
    BY <1>1, <1>7
  <2>2. ASSUME NEW i \in T PROVE i + 1 \in T
    <3> SUFFICES ASSUME i + 1 <= n PROVE mapped[i + 1] \in S
      OBVIOUS
    <3> HIDE DEF S, Next
    <3>1. i \in Nat /\ i + 1 \in 0 .. n /\ i + 1 \in 1 .. n /\ i + 1 # 0 /\ (i + 1) - 1 = i
      OBVIOUS
    <3>2. mapped[i + 1] = Next(mapped[i], i + 1)
      BY <1>7, <3>1
    <3>3. mapped[i] \in S
      BY <3>1
    <3> QED BY <1>2, <3>1, <3>2, <3>3
  <2>3. n \in T
    <3>1. T \in SUBSET Nat
      OBVIOUS
    <3> HIDE DEF T
    <3> QED BY <2>1, <2>2, <3>1, SetInduction
  <2> QED BY <2>3
<1> QED BY <1>8, <1>9

----------------------------------------------------------------------------
(* Areas. *)

Area == [start : Nat, end : Nat, write : BOOLEAN]

(* What the two properties rest on: a page outside exempt that is mapped   *)
(* lies in an area, and has the rights of each area it lies in; an access  *)
(* that waits for the handler still faults.                                *)
SpaceInv ==
  /\ FramesApart(mem)
  /\ vma_list \in Seq(Area)
  /\ \A a, b \in ToSet(vma_list) : \A v \in VPage \ exempt :
       Touches(a, v) /\ Touches(b, v) => a.write = b.write
  /\ \A v \in VPage \ exempt :
       mem.map[v] # Unmapped =>
         /\ \E a \in ToSet(vma_list) : Touches(a, v)
         /\ \A a \in ToSet(vma_list) : Touches(a, v) => a.write = mem.map[v].write
  /\ access # <<>> =>
       access \in Address \X BOOLEAN /\ Faults(PageOf(access[1]), access[2])

(* The pages from PageOf(start) on, as many as size needs, all hold        *)
(* addresses between start and start + size.                               *)
LEMMA PagesTouched ==
  ASSUME NEW start \in Nat, NEW size \in Nat,
         NEW v \in PageOf(start) .. PageOf(start) + (size + PageUnits - 1) \div PageUnits - 1
  PROVE  \E addr \in start .. start + size - 1 : PageOf(addr) = v
<1> DEFINE p == PageUnits
           q == (size + p - 1) \div p
           i == v - PageOf(start)
<1>1. p \in Nat /\ p > 0
  BY SpaceAssumption
<1>2. q \in Int /\ q * p <= size + p - 1 /\ PageOf(start) \in Int
  <2> HIDE DEF p
  <2> QED BY <1>1 DEF PageOf, p
<1>3. i \in Nat /\ i <= q - 1 /\ v = PageOf(start) + i
  BY <1>2
<1> HIDE DEF p, q, i
<1>4. i * p \in Nat /\ (i + 1) * p <= q * p /\ (i + 1) * p = i * p + p
  BY <1>1, <1>2, <1>3
<1>5. i * p <= size - 1
  BY <1>1, <1>2, <1>4
<1>6. (start + i * p) \div p = start \div p + i
  BY <1>1, <1>3
<1>7. start + i * p \in start .. start + size - 1
  BY <1>1, <1>3, <1>4, <1>5
<1> QED BY <1>3, <1>6, <1>7 DEF PageOf, p

(* Where an area is inserted.                                              *)
LEMMA PositionIs ==
  ASSUME NEW areas \in Seq(Area), NEW start \in Nat
  PROVE  Position(areas, start) \in 1 .. Len(areas) + 1
<1> DEFINE n == Len(areas)
           I == 2 .. n
           B == {i \in I : \A j \in 2 .. i : areas[j].start < start}
<1>1. n \in Nat /\ (areas # <<>> => n >= 1)
  OBVIOUS
<1>2. IsFiniteSet(I) /\ (n >= 1 => Cardinality(I) = n - 1)
  <2>1. 2 \in Int /\ n \in Int
    BY <1>1
  <2>2. IsFiniteSet(I) /\ Cardinality(I) = IF 2 > n THEN 0 ELSE n - 2 + 1
    <3> HIDE DEF n
    <3> QED BY <2>1, FS_Interval
  <2> QED BY <1>1, <2>2
<1>3. Cardinality(B) \in Nat /\ Cardinality(B) <= Cardinality(I)
  <2>1. B \in SUBSET I
    OBVIOUS
  <2> HIDE DEF B, I
  <2> QED BY <1>2, <2>1, FS_Subset, FS_CardinalityType
<1>4. CASE areas = <<>> \/ start < areas[1].start
  BY <1>1, <1>4 DEF Position
<1>5. CASE ~(areas = <<>> \/ start < areas[1].start)
  <2>1. Position(areas, start) = 2 + Cardinality(B)
    BY <1>5, Zenon DEF Position
  <2> HIDE DEF B, I, n
  <2>2. 2 + Cardinality(B) \in 1 .. n + 1
    BY <1>1, <1>2, <1>3, <1>5
  <2> QED BY <2>1, <2>2 DEF n
<1> QED BY <1>4, <1>5

(* A new area is added to those there are; the pages on which it meets one *)
(* of different rights become exempt.                                      *)
LEMMA AddAreaIs ==
  ASSUME SpaceInv, NEW start \in Address, NEW size \in Sizes, NEW write \in BOOLEAN,
         AddArea(start, size, write)
  PROVE  \E e \in Area :
           /\ e = [start |-> start, end |-> (start + size) % 2^AddressBits, write |-> write]
           /\ vma_list' \in Seq(Area)
           /\ ToSet(vma_list') = ToSet(vma_list) \cup {e}
           /\ exempt \subseteq exempt'
           /\ \A a, b \in ToSet(vma_list') : \A v \in VPage \ exempt' :
                Touches(a, v) /\ Touches(b, v) => a.write = b.write
<1> DEFINE W == 2^AddressBits
           end == (start + size) % W
           e == [start |-> start, end |-> end, write |-> write]
           k == Position(vma_list, start)
<1>1. W \in Nat /\ W > 0 /\ start \in Nat /\ size \in Nat
  <2>1. W \in Nat /\ W > 0
    BY SpaceAssumption
  <2>2. start \in 0 .. W - 1
    BY DEF Address
  <2> HIDE DEF W
  <2> QED BY <2>1, <2>2, SpaceAssumption
<1>2. end \in Nat
  <2> HIDE DEF W
  <2> QED BY <1>1
<1>3. e \in Area
  <2> HIDE DEF end
  <2> QED BY <1>1, <1>2 DEF Area
<1>4. vma_list \in Seq(Area) /\ k \in 1 .. Len(vma_list) + 1
  BY <1>1, PositionIs DEF SpaceInv
<1>5. vma_list' = InsertAt(vma_list, k, e) /\ exempt' = exempt \cup Mixed(vma_list')
  BY DEF AddArea
<1> HIDE DEF k, e
<1>6. vma_list' \in Seq(Area) /\ ToSet(vma_list') = ToSet(vma_list) \cup {e}
  BY <1>3, <1>4, <1>5, InsertAtIs
<1>7. ASSUME NEW a \in ToSet(vma_list'), NEW b \in ToSet(vma_list'),
             NEW v \in VPage \ exempt', Touches(a, v), Touches(b, v)
      PROVE  a.write = b.write
  <2>1. PICK i \in DOMAIN vma_list' : vma_list'[i] = a
    BY DEF ToSet
  <2>2. PICK j \in DOMAIN vma_list' : vma_list'[j] = b
    BY DEF ToSet
  <2>3. v \notin Mixed(vma_list')
    BY <1>5
  <2> QED BY <1>7, <2>1, <2>2, <2>3 DEF Mixed
<1> QED BY <1>3, <1>5, <1>6, <1>7 DEF e

----------------------------------------------------------------------------
(* The invariant, step by step. *)

LEMMA SpaceInitHolds ==
  ASSUME SpaceInit
  PROVE  SpaceInv
<1>1. IsFiniteSet(Frame) /\ Cardinality(Frame) = Frames
  <2>1. Frames \in Nat /\ 1 \in Int /\ Frames \in Int
    BY SpaceAssumption
  <2>2. IsFiniteSet(Frame) /\ Cardinality(Frame) = IF 1 > Frames THEN 0 ELSE Frames - 1 + 1
    BY <2>1, FS_Interval DEF Frame
  <2> QED BY <2>1, <2>2
<1>2. /\ mem.used = {} /\ mem.free_pages = Frames
      /\ mem.table = [t \in Table |-> 0] /\ mem.map = [v \in VPage |-> Unmapped]
      /\ mem \in Memory
  BY SpaceAssumption DEF SpaceInit, Memory, Entry, Unmapped
<1>3. \A v \in VPage : mem.map[v] = Unmapped /\ ~(mem.map[v].frame > 0) /\ mem.map[v].frame <= 0
                       /\ mem.map[v].frame # 0
  BY <1>2 DEF Unmapped
<1>4. \A t \in Table : mem.table[t] = 0
  BY <1>2
<1>5. mem.free_pages = Cardinality(Frame \ mem.used)
  BY <1>1, <1>2
<1>6. FramesApart(mem)
  BY <1>2, <1>3, <1>4, <1>5 DEF FramesApart
<1>7. vma_list = <<>> /\ vma_list \in Seq(Area) /\ ToSet(vma_list) = {}
  BY DEF SpaceInit, ToSet
<1> QED BY <1>3, <1>6, <1>7 DEF SpaceInv, SpaceInit

LEMMA AddVmaHolds ==
  ASSUME SpaceInv, NEW start \in Address, NEW size \in Sizes, NEW write \in BOOLEAN,
         mm_add_vma(start, size, write)
  PROVE  SpaceInv'
<1>1. AddArea(start, size, write) /\ mem' = mem /\ access = <<>> /\ access' = <<>>
  BY DEF mm_add_vma
<1>2. PICK e \in Area :
        /\ vma_list' \in Seq(Area) /\ ToSet(vma_list') = ToSet(vma_list) \cup {e}
        /\ exempt \subseteq exempt'
        /\ \A a, b \in ToSet(vma_list') : \A v \in VPage \ exempt' :
             Touches(a, v) /\ Touches(b, v) => a.write = b.write
  BY <1>1, AddAreaIs
<1>3. ASSUME NEW v \in VPage \ exempt', mem'.map[v] # Unmapped
      PROVE  /\ \E a \in ToSet(vma_list') : Touches(a, v)
             /\ \A a \in ToSet(vma_list') : Touches(a, v) => a.write = mem'.map[v].write
  <2>1. PICK b \in ToSet(vma_list) : Touches(b, v) /\ b.write = mem.map[v].write
    BY <1>1, <1>2, <1>3 DEF SpaceInv
  <2>2. b \in ToSet(vma_list')
    BY <1>2
  <2>3. ASSUME NEW a \in ToSet(vma_list'), Touches(a, v) PROVE a.write = mem'.map[v].write
    <3>1. a.write = b.write
      BY <1>2, <2>1, <2>2, <2>3
    <3> QED BY <1>1, <2>1, <3>1, Zenon
  <2> QED BY <2>1, <2>2, <2>3
<1>4. FramesApart(mem)'
  BY <1>1 DEF SpaceInv, FramesApart, Memory
<1> QED BY <1>1, <1>2, <1>3, <1>4 DEF SpaceInv

LEMMA LoadSegmentHolds ==
  ASSUME SpaceInv, NEW start \in Address, NEW size \in Sizes, NEW write \in BOOLEAN,
         LoadSegment(start, size, write)
  PROVE  SpaceInv'
<1> DEFINE W == 2^AddressBits
           n == (size + PageUnits - 1) \div PageUnits
           pages == PageOf(start) .. PageOf(start) + n - 1
           first == PageOf(start)
           next == MapRange(first, n, write, TRUE)
<1>1. AddArea(start, size, write) /\ mem' = next /\ access = <<>> /\ access' = <<>>
  BY DEF LoadSegment
<1>2. PICK e \in Area :
        /\ e = [start |-> start, end |-> (start + size) % W, write |-> write]
        /\ vma_list' \in Seq(Area) /\ ToSet(vma_list') = ToSet(vma_list) \cup {e}
        /\ exempt \subseteq exempt'
        /\ \A a, b \in ToSet(vma_list') : \A v \in VPage \ exempt' :
             Touches(a, v) /\ Touches(b, v) => a.write = b.write
  BY <1>1, AddAreaIs
<1>3. W \in Nat \ {0} /\ start \in Nat /\ size \in Nat /\ start + size < W
  <2>1. W \in Nat \ {0} /\ start \in 0 .. W - 1 /\ size \in Nat /\ start + size < W
    BY SpaceAssumption DEF Address, LoadSegment
  <2> HIDE DEF W
  <2> QED BY <2>1
<1>4. e.start = start /\ e.end = start + size /\ e.write = write
  <2> DEFINE end == (start + size) % W
  <2>1. end = start + size
    <3> HIDE DEF W
    <3> QED BY <1>3
  <2>2. e = [start |-> start, end |-> end, write |-> write]
    BY <1>2
  <2> HIDE DEF end
  <2> QED BY <2>1, <2>2
<1>5. \A v \in pages : Touches(e, v)
  <2> TAKE v \in pages
  <2>1. \E addr \in start .. start + size - 1 : PageOf(addr) = v
    BY <1>3, PagesTouched
  <2>2. PICK addr \in start .. start + size - 1 : PageOf(addr) = v
    BY <2>1
  <2>3. addr \in e.start .. e.end - 1
    BY <1>3, <1>4, <2>2
  <2> QED BY <2>2, <2>3, Zenon DEF Touches
<1>6. first \in Int /\ n \in Nat
  <2>1. PageUnits \in Nat \ {0}
    BY SpaceAssumption
  <2> QED BY <1>3, <2>1 DEF PageOf
<1> HIDE DEF n, first, W
<1>7. FramesApart(next) /\ OnlyMaps(mem, next, first .. first + n - 1, write)
  <2>1. FramesApart(mem) /\ TRUE \in BOOLEAN
    BY DEF SpaceInv
  <2> QED BY <1>6, <2>1, MapRangeHolds, Zenon
<1>8. first .. first + n - 1 = pages
  BY DEF first
<1> HIDE DEF next, pages
<1>9. ASSUME NEW v \in VPage \ exempt', mem'.map[v] # Unmapped
      PROVE  /\ \E a \in ToSet(vma_list') : Touches(a, v)
             /\ \A a \in ToSet(vma_list') : Touches(a, v) => a.write = mem'.map[v].write
  <2>1. PICK b \in ToSet(vma_list') : Touches(b, v) /\ b.write = mem'.map[v].write
    <3>1. CASE v \in pages /\ mem'.map[v].write = write
      BY <1>2, <1>4, <1>5, <3>1, Zenon
    <3>2. CASE mem'.map[v] = mem.map[v]
      BY <1>2, <1>9, <3>2 DEF SpaceInv
    <3> QED BY <1>1, <1>7, <1>8, <3>1, <3>2 DEF OnlyMaps
  <2>2. ASSUME NEW a \in ToSet(vma_list'), Touches(a, v) PROVE a.write = mem'.map[v].write
    <3>1. a.write = b.write
      BY <1>2, <2>1, <2>2
    <3> QED BY <2>1, <3>1, Zenon
  <2> QED BY <2>1, <2>2
<1>10. FramesApart(mem)'
  BY <1>1, <1>7 DEF FramesApart, Memory
<1> QED BY <1>1, <1>2, <1>9, <1>10 DEF SpaceInv

LEMMA MmapUserHolds ==
  ASSUME SpaceInv, NEW first \in VPage, NEW n \in 1 .. 2, NEW write \in BOOLEAN,
         mmap_user(first, n, write)
  PROVE  SpaceInv'
<1> DEFINE next == MapRange(first, n, write, FALSE)
<1>1. /\ mem' = next /\ access = <<>> /\ access' = <<>> /\ vma_list' = vma_list
      /\ exempt' = exempt \cup (first .. first + n - 1)
  BY DEF mmap_user
<1>2. FramesApart(next) /\ OnlyMaps(mem, next, first .. first + n - 1, write)
  <2>1. FramesApart(mem) /\ FALSE \in BOOLEAN /\ first \in Int /\ n \in Nat
    BY DEF SpaceInv, VPage
  <2> QED BY <2>1, MapRangeHolds, Zenon
<1> HIDE DEF next
<1>3. \A v \in VPage \ exempt' : v \in VPage \ exempt /\ mem'.map[v] = mem.map[v]
  BY <1>1, <1>2 DEF OnlyMaps
<1>4. FramesApart(mem)'
  BY <1>1, <1>2 DEF FramesApart, Memory
<1> QED BY <1>1, <1>3, <1>4 DEF SpaceInv

LEMMA DestroyHolds ==
  ASSUME SpaceInv, mm_destroy
  PROVE  SpaceInv'
<1>1. /\ mem' = mem /\ access = <<>> /\ access' = <<>> /\ vma_list' = <<>>
      /\ exempt' = exempt \cup {v \in VPage : mem.map[v] # Unmapped}
  BY DEF mm_destroy
<1>2. vma_list' \in Seq(Area) /\ ToSet(vma_list') = {}
  BY <1>1 DEF ToSet
<1>3. \A v \in VPage \ exempt' : mem'.map[v] = Unmapped
  BY <1>1
<1>4. FramesApart(mem)'
  BY <1>1 DEF SpaceInv, FramesApart, Memory
<1> QED BY <1>1, <1>2, <1>3, <1>4 DEF SpaceInv

LEMMA TouchHolds ==
  ASSUME SpaceInv, NEW addr \in Address, NEW write \in BOOLEAN, Touch(addr, write)
  PROVE  SpaceInv'
<1>1. /\ mem' = mem /\ vma_list' = vma_list /\ exempt' = exempt
      /\ access' = <<addr, write>> /\ Faults(PageOf(addr), write)
  BY DEF Touch
<1>2. FramesApart(mem)'
  BY <1>1 DEF SpaceInv, FramesApart, Memory
<1>3. access' \in Address \X BOOLEAN /\ access'[1] = addr /\ access'[2] = write
  BY <1>1
<1>4. Faults(PageOf(access[1]), access[2])'
  BY <1>1, <1>3 DEF Faults
<1> QED BY <1>1, <1>2, <1>3, <1>4 DEF SpaceInv

(* The area that the handler finds has the address.                        *)
LEMMA FoundAreaIs ==
  ASSUME SpaceInv, NEW addr \in Address, Covering(addr) # {}
  PROVE  /\ FoundArea(addr) \in ToSet(vma_list) /\ FoundArea(addr) \in Area
         /\ Touches(FoundArea(addr), PageOf(addr))
<1> DEFINE C == Covering(addr)
<1>1. vma_list \in Seq(Area) /\ C \subseteq DOMAIN vma_list /\ C \in SUBSET Nat
  BY DEF SpaceInv, Covering
<1>2. Min(C) \in C
  <2>1. \E x \in C : \A y \in C : x <= y
    <3> HIDE DEF C
    <3>1. C # {}
      BY DEF C
    <3> QED BY <1>1, <3>1, LeastElement
  <2> HIDE DEF C
  <2> QED BY <2>1 DEF Min
<1> DEFINE i == Min(C)
<1>3. FoundArea(addr) = vma_list[i]
  BY Zenon DEF FoundArea
<1>4. i \in DOMAIN vma_list /\ addr \in vma_list[i].start .. vma_list[i].end - 1
  <2> HIDE DEF i
  <2>1. i \in C
    BY <1>2 DEF i
  <2> QED BY <2>1 DEF Covering
<1> HIDE DEF i, C
<1> QED BY <1>1, <1>3, <1>4 DEF ToSet, Touches

(* What the handler does when it does not refuse: the page is as it was,   *)
(* or it is mapped with the rights of the area that was found; and a page  *)
(* outside exempt that was mapped is as it was.                            *)
LEMMA HandlerMaps ==
  ASSUME SpaceInv, handle_page_fault, ~Refused(access[1], access[2])
  PROVE  /\ FramesApart(mem)'
         /\ OnlyMaps(mem, mem', {PageOf(access[1])}, FoundArea(access[1]).write)
         /\ access' = IF mem'.map[PageOf(access[1])] = mem.map[PageOf(access[1])]
                        THEN access ELSE <<>>
         /\ FoundArea(access[1]) \in ToSet(vma_list)
         /\ Touches(FoundArea(access[1]), PageOf(access[1]))
<1> DEFINE addr == access[1]
           a == FoundArea(addr)
           v == PageOf(addr)
           next == MapNew(mem, v, a.write)
<1>1. access # <<>> /\ addr \in Address /\ access[2] \in BOOLEAN
  BY DEF SpaceInv, handle_page_fault
<1>2. Covering(addr) # {} /\ ~OutOfMemory(mem)
  BY DEF Refused
<1>3. a \in ToSet(vma_list) /\ a \in Area /\ Touches(a, v)
  BY <1>1, <1>2, FoundAreaIs
<1>4. mem' = next
  BY <1>2, Zenon DEF handle_page_fault, Rights
<1>5. access' = IF mem'.map[v] = mem.map[v] THEN access ELSE <<>>
  BY <1>2, Zenon DEF handle_page_fault, Rights
<1> HIDE DEF addr, v, a
<1>6. FramesApart(next) /\ OnlyMaps(mem, next, {v}, a.write)
  <2>1. a.write \in BOOLEAN /\ FramesApart(mem)
    BY <1>3 DEF Area, SpaceInv
  <2> QED BY <1>2, <2>1, MapNewHolds
<1> HIDE DEF next
<1>7. FramesApart(mem)'
  BY <1>4, <1>6 DEF FramesApart, Memory
<1>8. OnlyMaps(mem, mem', {v}, a.write)
  BY <1>4, <1>6
<1> QED BY <1>3, <1>5, <1>7, <1>8 DEF addr, v, a

LEMMA FaultHolds ==
  ASSUME SpaceInv, handle_page_fault
  PROVE  SpaceInv'
<1> DEFINE addr == access[1]
           v == PageOf(addr)
           a == FoundArea(addr)
<1>1. vma_list' = vma_list /\ exempt' = exempt /\ access # <<>>
  BY DEF handle_page_fault
<1>2. CASE Refused(addr, access[2])
  <2>1. mem' = mem /\ access' = access
    BY <1>2 DEF handle_page_fault
  <2>2. FramesApart(mem)'
    BY <2>1 DEF SpaceInv, FramesApart, Memory
  <2>3. Faults(PageOf(access[1]), access[2])' <=> Faults(PageOf(access[1]), access[2])
    BY <2>1 DEF Faults
  <2> QED BY <1>1, <2>1, <2>2, <2>3 DEF SpaceInv
<1>3. CASE ~Refused(addr, access[2])
  <2>1. /\ FramesApart(mem)' /\ OnlyMaps(mem, mem', {v}, a.write)
        /\ access' = IF mem'.map[v] = mem.map[v] THEN access ELSE <<>>
        /\ a \in ToSet(vma_list) /\ Touches(a, v)
    BY <1>3, HandlerMaps
  <2>2. access' # <<>> =>
          access' \in Address \X BOOLEAN /\ Faults(PageOf(access[1]), access[2])'
    <3>1. CASE access' = access /\ mem'.map[v] = mem.map[v]
      BY <1>1, <3>1 DEF SpaceInv, Faults
    <3> QED BY <2>1, <3>1
  <2>3. ASSUME NEW u \in VPage \ exempt', mem'.map[u] # Unmapped
        PROVE  /\ \E b \in ToSet(vma_list') : Touches(b, u)
               /\ \A b \in ToSet(vma_list') : Touches(b, u) => b.write = mem'.map[u].write
    <3> HIDE DEF v, a
    <3>1. CASE mem'.map[u] = mem.map[u]
      BY <1>1, <2>3, <3>1 DEF SpaceInv
    <3>2. CASE u = v /\ mem'.map[u].write = a.write
      <4>1. a \in ToSet(vma_list') /\ Touches(a, u)
        BY <1>1, <2>1, <3>2
      <4>2. ASSUME NEW b \in ToSet(vma_list'), Touches(b, u) PROVE b.write = a.write
        BY <1>1, <2>3, <4>1, <4>2 DEF SpaceInv
      <4> QED BY <3>2, <4>1, <4>2, Zenon
    <3> QED BY <2>1, <3>1, <3>2 DEF OnlyMaps
  <2> QED BY <1>1, <2>1, <2>2, <2>3 DEF SpaceInv
<1> QED BY <1>2, <1>3

LEMMA SpaceStep ==
  ASSUME SpaceInv, [SpaceNext]_spaceVars
  PROVE  SpaceInv'
<1>1. CASE UNCHANGED spaceVars
  <2>1. FramesApart(mem)'
    BY <1>1 DEF SpaceInv, FramesApart, Memory, spaceVars
  <2>2. access' # <<>> =>
          access' \in Address \X BOOLEAN /\ Faults(PageOf(access[1]), access[2])'
    BY <1>1 DEF SpaceInv, Faults, spaceVars
  <2> QED BY <1>1, <2>1, <2>2 DEF SpaceInv, spaceVars
<1>2. ASSUME NEW start \in Address, NEW size \in Sizes, NEW write \in BOOLEAN,
             mm_add_vma(start, size, write) \/ LoadSegment(start, size, write)
      PROVE  SpaceInv'
  BY <1>2, AddVmaHolds, LoadSegmentHolds
<1>3. ASSUME NEW addr \in Address, NEW write \in BOOLEAN, Touch(addr, write)
      PROVE  SpaceInv'
  BY <1>3, TouchHolds
<1>4. ASSUME NEW first \in VPage, NEW n \in 1 .. 2, NEW write \in BOOLEAN,
             mmap_user(first, n, write)
      PROVE  SpaceInv'
  BY <1>4, MmapUserHolds
<1> QED BY <1>1, <1>2, <1>3, <1>4, DestroyHolds, FaultHolds DEF SpaceNext

(* A frame serves one purpose, whichever allocation failed half way, for   *)
(* any number of frames, pages and areas (memory.c:125-179, 345-354,       *)
(* elf.c:54-65, vma.c:65-94).                                              *)
THEOREM FramesServeOnePurpose == SpaceSpec => []FramesNotShared
<1>1. SpaceInit => SpaceInv
  BY SpaceInitHolds
<1>2. SpaceInv /\ [SpaceNext]_spaceVars => SpaceInv'
  BY SpaceStep
<1>3. SpaceInv => FramesNotShared
  <2> SUFFICES ASSUME SpaceInv PROVE FramesNotShared
    OBVIOUS
  <2>1. FramesApart(mem) /\ DOMAIN mem.table = Table
    BY DEF SpaceInv, FramesApart, Memory
  <2>2. \A v \in VPage : mem.map[v].frame \in Int
    BY <2>1, SpaceAssumption DEF FramesApart, Memory, Entry, Frame
  <2> QED BY <2>1, <2>2 DEF FramesNotShared, FramesApart
<1> QED BY <1>1, <1>2, <1>3, PTL DEF SpaceSpec

(* A page fault does not replace the frame of a page that has one, except  *)
(* for the pages named in exempt (vma.c:65-94).                            *)
THEOREM FaultsKeepFrames == SpaceSpec => FaultKeepsFrame
<1>1. SpaceInit => SpaceInv
  BY SpaceInitHolds
<1>2. SpaceInv /\ [SpaceNext]_spaceVars => SpaceInv'
  BY SpaceStep
<1> DEFINE Keeps == access # <<>> =>
             \A v \in VPage \ exempt :
               mem.map[v] # Unmapped => mem'.map[v].frame = mem.map[v].frame
<1>3. SpaceInv /\ [SpaceNext]_spaceVars => [Keeps]_spaceVars
  <2> SUFFICES ASSUME SpaceInv, SpaceNext, access # <<>>,
                      NEW v \in VPage \ exempt, mem.map[v] # Unmapped
               PROVE  mem'.map[v] = mem.map[v]
    OBVIOUS
  <2>1. handle_page_fault
    BY DEF SpaceNext, mm_add_vma, LoadSegment, mm_destroy, Touch, mmap_user
  <2>2. CASE Refused(access[1], access[2])
    BY <2>1, <2>2 DEF handle_page_fault
  <2>3. CASE ~Refused(access[1], access[2])
    <3> DEFINE a == FoundArea(access[1])
               p == PageOf(access[1])
    <3>1. OnlyMaps(mem, mem', {p}, a.write) /\ a \in ToSet(vma_list) /\ Touches(a, p)
      BY <2>1, <2>3, HandlerMaps
    <3>2. Faults(p, access[2]) /\ ~(access[2] /\ ~a.write)
      BY <2>3 DEF SpaceInv, Refused
    <3> HIDE DEF a, p
    <3>3. v # p
      <4> SUFFICES ASSUME v = p PROVE FALSE
        OBVIOUS
      <4>1. a.write = mem.map[v].write
        BY <3>1 DEF SpaceInv
      <4>2. access[2] /\ ~mem.map[v].write
        BY <3>2 DEF Faults
      <4> QED BY <3>2, <4>1, <4>2, Zenon
    <3> QED BY <3>1, <3>3 DEF OnlyMaps
  <2> QED BY <2>2, <2>3
<1> QED BY <1>1, <1>2, <1>3, PTL DEF SpaceSpec, FaultKeepsFrame

----------------------------------------------------------------------------
(* Page compression. *)
LEMMA ContentsAre ==
  ASSUME NEW p \in Contents
  PROVE  /\ p \in Seq(Nat) /\ Len(p) = PageSize /\ PageSize \in Nat /\ PageSize > 0
         /\ \A k \in 1 .. PageSize : p[k] \in Nat
<1>1. PageSize \in Nat /\ PageSize > 0
  BY ZipAssumption
<1> QED BY <1>1 DEF Contents

(* A run is as long as the bytes stay the same, up to MaxRun.              *)
LEMMA RunLengthIs ==
  ASSUME NEW p \in Contents, NEW i \in 1 .. PageSize
  PROVE  /\ RunLength(p, i) \in 1 .. MaxRun /\ i + RunLength(p, i) - 1 <= PageSize
         /\ \A k \in i .. i + RunLength(p, i) - 1 : p[k] = p[i]
         /\ \/ RunLength(p, i) = MaxRun \/ i + RunLength(p, i) > PageSize
            \/ p[i + RunLength(p, i)] # p[i]
<1> DEFINE n == PageSize
           T == {d \in Nat : d >= 1 /\ (d = MaxRun \/ i + d > n \/ p[i + d] # p[i])}
<1>1. n \in Nat /\ MaxRun \in Nat /\ MaxRun >= 3 /\ i \in Nat /\ i >= 1 /\ i <= n /\ Len(p) = n
  BY ContentsAre, ZipAssumption
<1>2. MaxRun \in T
  BY <1>1
<1>3. PICK d \in T : \A y \in T : d <= y
  BY <1>2, LeastElement
<1>4. d \in Nat /\ d >= 1 /\ (d = MaxRun \/ i + d > n \/ p[i + d] # p[i]) /\ d <= MaxRun
  BY <1>2, <1>3
<1>5. ASSUME NEW k \in i .. i + d - 1 PROVE p[k] = p[i] /\ k <= n
  <2>1. CASE k = i
    BY <1>1, <2>1
  <2>2. CASE k # i
    <3>1. k - i \in Nat /\ k - i >= 1 /\ k - i < d /\ i + (k - i) = k
      BY <1>1, <1>4, <2>2
    <3>2. k - i \notin T
      BY <1>3, <1>4, <3>1
    <3>3. ~(i + (k - i) > n \/ p[i + (k - i)] # p[i])
      BY <3>1, <3>2
    <3> QED BY <1>1, <3>1, <3>3
  <2> QED BY <2>1, <2>2
<1> HIDE DEF T, n
<1>6. d \in 1 .. MaxRun /\ i + d - 1 \in i .. i + d - 1
  BY <1>1, <1>4
<1>7. /\ i + d - 1 <= Len(p) /\ Repeats(p, i, i + d - 1)
      /\ d = MaxRun \/ i + d > Len(p) \/ p[i + d] # p[i]
  BY <1>1, <1>4, <1>5, <1>6 DEF Repeats
<1>8. \E m \in 1 .. MaxRun :
         /\ i + m - 1 <= Len(p) /\ Repeats(p, i, i + m - 1)
         /\ m = MaxRun \/ i + m > Len(p) \/ p[i + m] # p[i]
  BY <1>6, <1>7
<1>9. LET r == RunLength(p, i)
      IN  /\ r \in 1 .. MaxRun /\ i + r - 1 <= Len(p) /\ Repeats(p, i, i + r - 1)
          /\ r = MaxRun \/ i + r > Len(p) \/ p[i + r] # p[i]
  BY <1>8 DEF RunLength
<1> QED BY <1>1, <1>9 DEF Repeats, n

(* A literal is not empty: it begins where there are no three equal bytes. *)
LEMMA LiteralEndIs ==
  ASSUME NEW p \in Contents, NEW i \in 1 .. PageSize, ~IsRun(p, i)
  PROVE  LiteralEnd(p, i) \in i + 1 .. PageSize + 1
<1> DEFINE n == PageSize
           T == {j \in Nat : j >= i /\ (j = n + 1 \/ ThreeAt(p, j))}
<1>1. n \in Nat /\ MaxRun \in Nat /\ MaxRun >= 3 /\ i \in Nat /\ i >= 1 /\ i <= n /\ Len(p) = n
  BY ContentsAre, ZipAssumption
<1>2. n + 1 \in T
  BY <1>1
<1>3. PICK j \in T : \A y \in T : j <= y
  BY <1>2, LeastElement
<1>4. j \in Nat /\ j >= i /\ (j = n + 1 \/ ThreeAt(p, j)) /\ j <= n + 1
  BY <1>2, <1>3
<1>5. ASSUME NEW k \in i .. j - 1 PROVE ~ThreeAt(p, k)
  <2>1. k \in Nat /\ k >= i /\ ~(j <= k)
    BY <1>1, <1>4
  <2>2. k \notin T
    BY <1>3, <2>1
  <2> QED BY <2>1, <2>2
<1>6. j \in i .. n + 1
  BY <1>1, <1>4
<1> HIDE DEF T, n
<1>7. \E m \in i .. Len(p) + 1 :
         (m = Len(p) + 1 \/ ThreeAt(p, m)) /\ \A k \in i .. m - 1 : ~ThreeAt(p, k)
  BY <1>1, <1>4, <1>5, <1>6
<1>8. LiteralEnd(p, i) \in i .. n + 1
      /\ (LiteralEnd(p, i) = n + 1 \/ ThreeAt(p, LiteralEnd(p, i)))
  BY <1>1, <1>7 DEF LiteralEnd
<1>9. ~ThreeAt(p, i)
  <2> SUFFICES ASSUME ThreeAt(p, i) PROVE FALSE
    OBVIOUS
  <2> DEFINE r == RunLength(p, i)
  <2>1. i + 2 <= n /\ p[i + 1] = p[i] /\ p[i + 2] = p[i]
    <3>1. i + 1 \in i .. i + 2 /\ i + 2 \in i .. i + 2
      BY <1>1
    <3> QED BY <1>1, <3>1 DEF ThreeAt, Repeats
  <2>2. r \in 1 .. MaxRun /\ (r = MaxRun \/ i + r > n \/ p[i + r] # p[i]) /\ ~(r >= 3)
    BY RunLengthIs DEF IsRun, n
  <2> HIDE DEF r
  <2>3. r = 1 \/ r = 2
    BY <1>1, <2>2
  <2> QED BY <1>1, <2>1, <2>2, <2>3
<1>10. i # n + 1
  BY <1>1
<1>11. LiteralEnd(p, i) # i
  BY <1>8, <1>9, <1>10
<1> QED BY <1>1, <1>8, <1>11 DEF n

(* What one round of the encoder writes says what it covers.               *)
Says(w, p, i, t) ==
  \/ /\ Len(w) = 2 /\ w[1] = t - i /\ w[2] = p[i]
     /\ \A k \in i .. t - 1 : p[k] = p[i]
  \/ /\ Len(w) = 3 + (t - i) /\ w[1] = 0 /\ 256 * w[2] + w[3] = t - i
     /\ \A k \in 1 .. t - i : w[3 + k] = p[i + k - 1]

LEMMA WrittenIs ==
  ASSUME NEW p \in Contents, NEW i \in 1 .. PageSize
  PROVE  /\ EncodedTo(p, i) \in i + 1 .. PageSize + 1
         /\ Written(p, i) \in Seq(Nat)
         /\ Says(Written(p, i), p, i, EncodedTo(p, i))
<1> DEFINE n == PageSize
           w == Written(p, i)
           t == EncodedTo(p, i)
<1>1. n \in Nat /\ i \in Nat /\ i >= 1 /\ i <= n /\ p[i] \in Nat /\ MaxRun \in Nat
  BY ContentsAre, ZipAssumption
<1>2. CASE IsRun(p, i)
  <2> DEFINE r == RunLength(p, i)
  <2>1. r \in 1 .. MaxRun /\ i + r - 1 <= n /\ \A k \in i .. i + r - 1 : p[k] = p[i]
    BY RunLengthIs
  <2>2. w = <<r, p[i]>> /\ t = i + r
    BY <1>2 DEF Written, EncodedTo
  <2> HIDE DEF r, w, t, n
  <2>3. t \in i + 1 .. n + 1 /\ t - i = r /\ t - 1 = i + r - 1 /\ r \in Nat
    BY <1>1, <2>1, <2>2
  <2>4. w \in Seq(Nat) /\ Len(w) = 2 /\ w[1] = r /\ w[2] = p[i]
    BY <1>1, <2>2, <2>3
  <2>5. Says(w, p, i, t)
    BY <2>1, <2>3, <2>4 DEF Says
  <2> QED BY <2>3, <2>4, <2>5 DEF w, t, n
<1>3. CASE ~IsRun(p, i)
  <2> DEFINE j == LiteralEnd(p, i)
             m == j - i
             b == SubSeq(p, i, j - 1)
             h == <<0, m \div 256, m % 256>>
  <2>1. j \in i + 1 .. n + 1
    BY <1>3, LiteralEndIs
  <2>2. w = h \o b /\ t = j
    BY <1>3 DEF Written, EncodedTo
  <2> HIDE DEF n, w, t, j
  <2>3. m \in Nat /\ m >= 1 /\ j - 1 - i + 1 = m /\ i <= j - 1 /\ j - 1 \in Int /\ i \in Int
    BY <1>1, <2>1
  <2>4. \A k \in i .. j - 1 : p[k] \in Nat
    <3>1. ASSUME NEW k \in i .. j - 1 PROVE k \in 1 .. n
      BY <1>1, <2>1
    <3> QED BY <3>1, ContentsAre DEF n
  <2>5. b \in Seq(Nat) /\ Len(b) = m /\ \A k \in 1 .. m : b[k] = p[i + k - 1]
    <3>1. /\ b \in Seq(Nat) /\ Len(b) = IF i <= j - 1 THEN j - 1 - i + 1 ELSE 0
          /\ \A k \in 1 .. j - 1 - i + 1 : b[k] = p[i + k - 1]
      BY <2>3, <2>4, SubSeqProperties
    <3> HIDE DEF b, m
    <3> QED BY <2>3, <3>1
  <2> HIDE DEF b, m
  <2>6. m \div 256 \in Nat /\ m % 256 \in Nat /\ 256 * (m \div 256) + (m % 256) = m
    BY <2>3
  <2>7. h \in Seq(Nat) /\ Len(h) = 3 /\ h[1] = 0 /\ h[2] = m \div 256 /\ h[3] = m % 256
    BY <2>6
  <2> HIDE DEF h
  <2>8. /\ w \in Seq(Nat) /\ Len(w) = 3 + m
        /\ \A k \in 1 .. 3 + m : w[k] = IF k <= 3 THEN h[k] ELSE b[k - 3]
    <3>1. /\ h \o b \in Seq(Nat) /\ Len(h \o b) = Len(h) + Len(b)
          /\ \A k \in 1 .. Len(h) + Len(b) :
               (h \o b)[k] = IF k <= Len(h) THEN h[k] ELSE b[k - Len(h)]
      <4>1. h \in Seq(Nat) /\ b \in Seq(Nat)
        BY <2>5, <2>7
      <4> QED BY <4>1, ConcatProperties
    <3> QED BY <2>2, <2>5, <2>7, <3>1
  <2>9. w[1] = 0 /\ w[2] = m \div 256 /\ w[3] = m % 256
    BY <2>3, <2>7, <2>8
  <2>10. ASSUME NEW k \in 1 .. m PROVE w[3 + k] = p[i + k - 1]
    <3>1. 3 + k \in 1 .. 3 + m /\ ~(3 + k <= 3) /\ 3 + k - 3 = k
      BY <2>3
    <3>2. w[3 + k] = b[k]
      BY <2>8, <3>1
    <3> QED BY <2>5, <3>2
  <2>11. t - i = m /\ t \in i + 1 .. n + 1
    BY <2>1, <2>2 DEF m
  <2>12. Len(w) = 3 + (t - i) /\ 256 * w[2] + w[3] = t - i
    BY <2>6, <2>8, <2>9, <2>11
  <2>13. Says(w, p, i, t)
    BY <2>9, <2>10, <2>11, <2>12 DEF Says
  <2> QED BY <2>8, <2>11, <2>13 DEF w, t, n
<1> QED BY <1>2, <1>3

(* The encoding as the pieces that begin at each position.                 *)
IsEncoding(e, p) ==
  /\ e \in [1 .. PageSize + 1 -> Seq(Nat)]
  /\ e[PageSize + 1] = <<0, 0>>
  /\ \A i \in 1 .. PageSize : e[i] = Written(p, i) \o e[EncodedTo(p, i)]

LEMMA EncodeIs ==
  ASSUME NEW p \in Contents
  PROVE  \E e : IsEncoding(e, p) /\ Encode(p) = e[1]
<1> DEFINE n == PageSize
           D == 1 .. n + 1
           stop == {n + 1}
           next == [i \in D |-> IF i = n + 1 THEN i ELSE EncodedTo(p, i)]
           part == [i \in D |-> IF i = n + 1 THEN <<0, 0>> ELSE Written(p, i)]
           rank == [i \in D |-> n + 1 - i]
           From(f) == f = [i \in 1 .. Len(p) + 1 |->
                             IF i > Len(p) THEN <<0, 0>> ELSE Written(p, i) \o f[EncodedTo(p, i)]]
           e == CHOOSE f : From(f)
<1>1. n \in Nat /\ Len(p) = n
  BY ContentsAre
<1>2. \A i \in 1 .. n : EncodedTo(p, i) \in i + 1 .. n + 1 /\ Written(p, i) \in Seq(Nat)
  BY WrittenIs
<1> HIDE DEF n
<1>3. \A i \in D : i \in Nat /\ (i = n + 1 \/ i \in 1 .. n) /\ n + 1 - i \in 0 .. n /\ (i > n <=> i = n + 1)
  BY <1>1
<1>4. rank \in [D -> 0 .. n] /\ next \in [D -> D] /\ part \in [D -> Seq(Nat)]
  <2>1. \A i \in D : i = n + 1 \/ EncodedTo(p, i) \in D
    <3>1. ASSUME NEW i \in 1 .. n PROVE EncodedTo(p, i) \in D
      BY <1>1, <1>2
    <3> QED BY <1>3, <3>1
  <2>2. <<0, 0>> \in Seq(Nat)
    OBVIOUS
  <2> QED BY <1>2, <1>3, <2>1, <2>2
<1>5. \A i \in D : i \notin stop => rank[next[i]] < rank[i]
  <2>1. ASSUME NEW i \in D, i # n + 1 PROVE rank[next[i]] < rank[i]
    <3>1. i \in 1 .. n /\ next[i] = EncodedTo(p, i) /\ rank[i] = n + 1 - i
      BY <1>3, <2>1
    <3>2. next[i] \in D /\ next[i] \in i + 1 .. n + 1
      BY <1>2, <1>4, <3>1
    <3>3. rank[next[i]] = n + 1 - next[i]
      BY <3>2
    <3> QED BY <1>1, <3>1, <3>2, <3>3
  <2> QED BY <2>1
<1>6. ASSUME NEW f PROVE From(f) <=> IsChain(f, D, stop, part, next)
  <2>1. \A i \in D : (IF i > n THEN <<0, 0>> ELSE Written(p, i) \o f[EncodedTo(p, i)])
                    = (IF i \in stop THEN part[i] ELSE part[i] \o f[next[i]])
    BY <1>3
  <2> QED BY <1>1, <2>1 DEF IsChain
<1> HIDE DEF D, stop, next, part, rank
<1>7. \E f : IsChain(f, D, stop, part, next)
  BY <1>1, <1>4, <1>5, ChainExists
<1>8. From(e) /\ IsChain(e, D, stop, part, next)
  BY <1>6, <1>7
<1>9. Encode(p) = e[1]
  BY DEF Encode
<1> HIDE DEF e
<1>10. e \in [D -> Seq(Nat)]
  BY <1>1, <1>4, <1>5, <1>8, ChainOfSequences
<1>11. e[n + 1] = <<0, 0>>
  <2>1. n + 1 \in 1 .. Len(p) + 1 /\ n + 1 > Len(p)
    BY <1>1
  <2>2. e = [i \in 1 .. Len(p) + 1 |->
               IF i > Len(p) THEN <<0, 0>> ELSE Written(p, i) \o e[EncodedTo(p, i)]]
    BY <1>8
  <2> QED BY <2>1, <2>2
<1>12. ASSUME NEW i \in 1 .. n PROVE e[i] = Written(p, i) \o e[EncodedTo(p, i)]
  <2>1. i \in 1 .. n + 1 /\ ~(i > n)
    BY <1>1
  <2> QED BY <1>1, <1>8, <2>1
<1>13. IsEncoding(e, p)
  BY <1>10, <1>11, <1>12 DEF IsEncoding, n, D
<1> QED BY <1>9, <1>13

----------------------------------------------------------------------------
(* One round of the decoder.                                               *)
LEMMA DecodedIs ==
  ASSUME NEW c \in Seq(Nat), NEW i \in 1 .. Len(c) + 1, WholeAt(c, i)
  PROVE  /\ Decoded(c, i) \in Seq(Nat) /\ DecodedTo(c, i) \in i + 1 .. Len(c) + 1
         /\ c[i] > 0 => /\ Len(Decoded(c, i)) = c[i]
                         /\ \A k \in 1 .. c[i] : Decoded(c, i)[k] = c[i + 1]
         /\ c[i] = 0 => /\ Len(Decoded(c, i)) = LiteralLength(c, i)
                         /\ \A k \in 1 .. LiteralLength(c, i) : Decoded(c, i)[k] = c[i + 2 + k]
<1> DEFINE n == Len(c)
           r == Decoded(c, i)
           t == DecodedTo(c, i)
<1>0. n \in Nat /\ \A k \in 1 .. n : c[k] \in Nat
  OBVIOUS
<1>1. i \in Nat /\ i >= 1
  OBVIOUS
<1>2. CASE c[i] > 0
  <2>1. i < n
    BY <1>2 DEF WholeAt
  <2>2. r = [k \in 1 .. c[i] |-> c[i + 1]] /\ t = i + 2
    BY <1>2 DEF Decoded, DecodedTo
  <2> HIDE DEF n, r, t
  <2>3. i \in 1 .. n /\ i + 1 \in 1 .. n
    BY <1>0, <1>1, <2>1
  <2>4. c[i] \in Nat /\ c[i + 1] \in Nat
    BY <1>0, <2>3
  <2>5. r \in Seq(Nat) /\ Len(r) = c[i] /\ \A k \in 1 .. c[i] : r[k] = c[i + 1]
    <3> DEFINE m == c[i]
               value == c[i + 1]
    <3>1. m \in Nat /\ value \in Nat /\ r = [k \in 1 .. m |-> value]
      BY <2>2, <2>4
    <3> HIDE DEF m, value
    <3>2. r \in [1 .. m -> Nat] /\ DOMAIN r = 1 .. m /\ \A k \in 1 .. m : r[k] = value
      BY <3>1
    <3>3. r \in Seq(Nat) /\ Len(r) = m
      BY <3>1, <3>2
    <3> QED BY <3>2, <3>3 DEF m, value
  <2>6. t \in i + 1 .. n + 1
    BY <1>0, <1>1, <2>1, <2>2
  <2>7. ~(c[i] = 0)
    BY <1>2, <2>4
  <2> QED BY <2>5, <2>6, <2>7 DEF n, r, t
<1>3. CASE ~(c[i] > 0)
  <2> DEFINE m == LiteralLength(c, i)
             h == i + 3
             k0 == i + 2 + m
  <2>1. i + 2 <= n /\ c[i] = 0 /\ m \in 1 .. n - i - 2
    BY <1>3 DEF WholeAt
  <2>2. r = SubSeq(c, h, k0) /\ t = h + m
    BY <1>3 DEF Decoded, DecodedTo
  <2> HIDE DEF n, r, t, m
  <2>3. /\ h \in Int /\ k0 \in Int /\ h <= k0 /\ k0 - h + 1 = m /\ k0 <= n
        /\ \A k \in h .. k0 : k \in 1 .. n
    BY <1>0, <1>1, <2>1
  <2>4. \A k \in h .. k0 : c[k] \in Nat
    BY <1>0, <2>3
  <2>5. t \in i + 1 .. n + 1
    BY <1>0, <1>1, <2>1, <2>2
  <2>6. \A k \in 1 .. m : h + k - 1 = i + 2 + k
    BY <1>1, <2>1
  <2> HIDE DEF h, k0
  <2>7. /\ r \in Seq(Nat) /\ Len(r) = IF h <= k0 THEN k0 - h + 1 ELSE 0
        /\ \A k \in 1 .. k0 - h + 1 : r[k] = c[h + k - 1]
    BY <2>2, <2>3, <2>4, SubSeqProperties
  <2>8. Len(r) = m /\ \A k \in 1 .. m : r[k] = c[i + 2 + k]
    BY <2>3, <2>6, <2>7
  <2> QED BY <1>3, <2>5, <2>7, <2>8 DEF n, r, t, m
<1> QED BY <1>2, <1>3

Fits(c, i, d) == WholeAt(c, i) /\ d + Len(Decoded(c, i)) <= PageSize

(* The rest of the page, decoded from each position of the code on.        *)
IsDecoding(g, c, old) ==
  \A i \in 1 .. Len(c) + 1, d \in 0 .. PageSize :
    g[<<i, d>>] = IF Fits(c, i, d)
                  THEN Decoded(c, i) \o g[<<DecodedTo(c, i), d + Len(Decoded(c, i))>>]
                  ELSE SubSeq(old, d + 1, PageSize)

LEMMA DecodeIs ==
  ASSUME NEW c \in Seq(Nat), NEW old \in Contents
  PROVE  \E g : IsDecoding(g, c, old) /\ Decode(c, old) = g[<<1, 0>>]
<1> DEFINE n == PageSize
           D == (1 .. Len(c) + 1) \X (0 .. n)
           stop == {x \in D : ~Fits(c, x[1], x[2])}
           next == [x \in D |-> IF x \in stop THEN x
                                ELSE <<DecodedTo(c, x[1]), x[2] + Len(Decoded(c, x[1]))>>]
           part == [x \in D |-> IF x \in stop THEN SubSeq(old, x[2] + 1, n) ELSE Decoded(c, x[1])]
           rank == [x \in D |-> Len(c) + 1 - x[1]]
           Value(f, i, d) == IF WholeAt(c, i) /\ d + Len(Decoded(c, i)) <= Len(old)
                             THEN Decoded(c, i) \o f[<<DecodedTo(c, i), d + Len(Decoded(c, i))>>]
                             ELSE SubSeq(old, d + 1, Len(old))
           From(f) == f = [x \in (1 .. Len(c) + 1) \X (0 .. Len(old)) |->
                        IF WholeAt(c, x[1]) /\ x[2] + Len(Decoded(c, x[1])) <= Len(old)
                        THEN Decoded(c, x[1]) \o f[<<DecodedTo(c, x[1]), x[2] + Len(Decoded(c, x[1]))>>]
                        ELSE SubSeq(old, x[2] + 1, Len(old))]
           g == CHOOSE f : From(f)
<1>1. n \in Nat /\ Len(old) = n /\ old \in Seq(Nat) /\ Len(c) \in Nat
  BY ContentsAre
<1>13. Decode(c, old) = g[<<1, 0>>]
  BY DEF Decode
<1>2. ASSUME NEW f PROVE From(f) <=> f = [x \in D |-> Value(f, x[1], x[2])]
  BY <1>1
<1>3. \A i \in 1 .. Len(c) + 1, d \in 0 .. n :
        Fits(c, i, d) =>
          /\ Decoded(c, i) \in Seq(Nat) /\ DecodedTo(c, i) \in i + 1 .. Len(c) + 1
          /\ d + Len(Decoded(c, i)) \in 0 .. n
  <2>1. ASSUME NEW i \in 1 .. Len(c) + 1, NEW d \in 0 .. n, Fits(c, i, d)
        PROVE  /\ Decoded(c, i) \in Seq(Nat) /\ DecodedTo(c, i) \in i + 1 .. Len(c) + 1
               /\ d + Len(Decoded(c, i)) \in 0 .. n
    <3>1. /\ Decoded(c, i) \in Seq(Nat) /\ DecodedTo(c, i) \in i + 1 .. Len(c) + 1
          /\ d + Len(Decoded(c, i)) <= n
      BY <2>1, DecodedIs DEF Fits
    <3>2. Len(Decoded(c, i)) \in Nat
      BY <3>1
    <3> QED BY <1>1, <3>1, <3>2
  <2> QED BY <2>1
<1>4. \A d \in 0 .. n : SubSeq(old, d + 1, n) \in Seq(Nat)
  <2>1. ASSUME NEW d \in 0 .. n PROVE SubSeq(old, d + 1, n) \in Seq(Nat)
    <3>1. d + 1 \in Int /\ n \in Int /\ \A k \in d + 1 .. n : k \in 1 .. n
      BY <1>1
    <3>2. \A k \in d + 1 .. n : old[k] \in Nat
      BY <3>1, ContentsAre
    <3> QED BY <3>1, <3>2, SubSeqProperties
  <2> QED BY <2>1
<1>5. \A x \in D : x[1] \in 1 .. Len(c) + 1 /\ x[2] \in 0 .. n /\ x = <<x[1], x[2]>>
  OBVIOUS
<1>6. \A x \in D : x \notin stop =>
        /\ next[x] = <<DecodedTo(c, x[1]), x[2] + Len(Decoded(c, x[1]))>>
        /\ next[x] \in D
        /\ next[x][1] = DecodedTo(c, x[1])
        /\ part[x] = Decoded(c, x[1]) /\ part[x] \in Seq(Nat)
  <2>1. ASSUME NEW x \in D, x \notin stop
        PROVE  /\ next[x] = <<DecodedTo(c, x[1]), x[2] + Len(Decoded(c, x[1]))>>
               /\ DecodedTo(c, x[1]) \in 1 .. Len(c) + 1
               /\ x[2] + Len(Decoded(c, x[1])) \in 0 .. n
               /\ part[x] = Decoded(c, x[1]) /\ part[x] \in Seq(Nat)
    <3>1. x[1] \in 1 .. Len(c) + 1 /\ x[2] \in 0 .. n /\ Fits(c, x[1], x[2])
      BY <1>5, <2>1
    <3>2. /\ Decoded(c, x[1]) \in Seq(Nat) /\ DecodedTo(c, x[1]) \in x[1] + 1 .. Len(c) + 1
          /\ x[2] + Len(Decoded(c, x[1])) \in 0 .. n
      BY <1>3, <3>1
    <3>3. DecodedTo(c, x[1]) \in 1 .. Len(c) + 1
      BY <1>1, <3>1, <3>2
    <3>4. /\ next[x] = <<DecodedTo(c, x[1]), x[2] + Len(Decoded(c, x[1]))>>
          /\ part[x] = Decoded(c, x[1])
      BY <2>1
    <3> QED BY <3>2, <3>3, <3>4
  <2> HIDE DEF next, part, stop
  <2>2. ASSUME NEW x \in D, x \notin stop
        PROVE  next[x] \in D /\ next[x][1] = DecodedTo(c, x[1])
    <3> DEFINE u == DecodedTo(c, x[1])
               e == x[2] + Len(Decoded(c, x[1]))
    <3>1. next[x] = <<u, e>> /\ u \in 1 .. Len(c) + 1 /\ e \in 0 .. n
      BY <2>1, <2>2
    <3> HIDE DEF u, e
    <3>2. next[x] \in D /\ next[x][1] = u
      BY <3>1
    <3> QED BY <3>2 DEF u
  <2> QED BY <2>1, <2>2
<1>7. next \in [D -> D] /\ part \in [D -> Seq(Nat)]
  BY <1>4, <1>5, <1>6
<1>8. rank \in [D -> 0 .. Len(c)]
  <2>1. \A i \in 1 .. Len(c) + 1 : Len(c) + 1 - i \in 0 .. Len(c)
    BY <1>1
  <2> QED BY <1>5, <2>1
<1>9. ASSUME NEW x \in D, x \notin stop PROVE rank[next[x]] < rank[x]
  <2>1. next[x] \in D /\ next[x][1] = DecodedTo(c, x[1])
    BY <1>6, <1>9
  <2>2. rank[next[x]] = Len(c) + 1 - DecodedTo(c, x[1]) /\ rank[x] = Len(c) + 1 - x[1]
    BY <2>1
  <2>3. DecodedTo(c, x[1]) \in x[1] + 1 .. Len(c) + 1 /\ x[1] \in 1 .. Len(c) + 1
    BY <1>3, <1>5, <1>9
  <2> QED BY <1>1, <2>2, <2>3
<1>10. ASSUME NEW f
       PROVE  (f = [x \in D |-> Value(f, x[1], x[2])]) <=> IsChain(f, D, stop, part, next)
  <2>1. \A x \in D : Value(f, x[1], x[2]) = IF x \in stop THEN part[x] ELSE part[x] \o f[next[x]]
    <3>1. ASSUME NEW x \in D, x \in stop
          PROVE  Value(f, x[1], x[2]) = part[x]
      BY <1>1, <3>1 DEF Fits
    <3>2. ASSUME NEW x \in D, x \notin stop
          PROVE  Value(f, x[1], x[2]) = part[x] \o f[next[x]]
      BY <1>1, <1>6, <3>2 DEF Fits
    <3> HIDE DEF D, Value, stop, part, next
    <3> QED BY <3>1, <3>2
  <2> HIDE DEF D, Value, stop, part, next
  <2> QED BY <2>1 DEF IsChain
<1> HIDE DEF D, stop, next, part, rank, From, Value
<1>11. \E f : IsChain(f, D, stop, part, next)
  BY <1>1, <1>7, <1>8, <1>9, ChainExists
<1>12. From(g)
  BY <1>2, <1>10, <1>11
<1> HIDE DEF g
<1>14. g = [x \in D |-> Value(g, x[1], x[2])]
  BY <1>2, <1>12
<1>15. IsDecoding(g, c, old)
  <2> SUFFICES ASSUME NEW i \in 1 .. Len(c) + 1, NEW d \in 0 .. PageSize
               PROVE  g[<<i, d>>] = IF Fits(c, i, d)
                        THEN Decoded(c, i) \o g[<<DecodedTo(c, i), d + Len(Decoded(c, i))>>]
                        ELSE SubSeq(old, d + 1, PageSize)
    BY DEF IsDecoding
  <2>1. <<i, d>> \in D
    BY DEF D
  <2>2. g[<<i, d>>] = Value(g, i, d)
    BY <1>14, <2>1
  <2> QED BY <1>1, <2>2, Zenon DEF Value, Fits
<1> QED BY <1>13, <1>15

(* Where the code holds what the encoder wrote for one position, a round   *)
(* of the decoder gives back what was encoded.                             *)
LEMMA DecodesWritten ==
  ASSUME NEW p \in Contents, NEW c \in Seq(Nat), NEW i \in 1 .. PageSize,
         NEW t \in i + 1 .. PageSize + 1, NEW w \in Seq(Nat), Says(w, p, i, t),
         NEW b \in Nat, b + Len(w) <= Len(c), \A k \in 1 .. Len(w) : c[b + k] = w[k]
  PROVE  /\ WholeAt(c, b + 1) /\ b + 1 \in 1 .. Len(c) + 1
         /\ DecodedTo(c, b + 1) = b + Len(w) + 1
         /\ Decoded(c, b + 1) \in Seq(Nat) /\ Len(Decoded(c, b + 1)) = t - i
         /\ \A k \in 1 .. t - i : Decoded(c, b + 1)[k] = p[i + k - 1]
<1> DEFINE n == PageSize
           a == b + 1
           r == Decoded(c, a)
           m == t - i
           ln == Len(c)
           lw == Len(w)
<1>1. n \in Nat /\ i \in Nat /\ i >= 1 /\ i <= n /\ t \in Nat /\ t >= i + 1 /\ t <= n + 1
      /\ m \in Nat /\ m >= 1 /\ ln \in Nat /\ lw \in Nat /\ a \in Nat /\ b + lw <= ln
  BY ContentsAre
<1>2. \A k \in 1 .. lw : c[b + k] = w[k] /\ w[k] \in Nat
  OBVIOUS
<1>3. CASE /\ Len(w) = 2 /\ w[1] = t - i /\ w[2] = p[i]
           /\ \A k \in i .. t - 1 : p[k] = p[i]
  <2>1. lw = 2 /\ w[1] = m /\ w[2] = p[i] /\ 1 \in 1 .. lw /\ 2 \in 1 .. lw /\ b + 2 = a + 1
    BY <1>1, <1>3
  <2>2. c[a] = m /\ c[a + 1] = p[i]
    BY <1>2, <2>1
  <2> HIDE DEF n, a, m, ln, lw
  <2>3. a < ln /\ c[a] > 0 /\ ~(c[a] = 0) /\ a \in 1 .. ln + 1
    <3>1. a = b + 1
      BY DEF a
    <3> QED BY <1>1, <2>1, <2>2, <3>1
  <2>4. WholeAt(c, a) /\ DecodedTo(c, a) = a + 2
    BY <2>3 DEF WholeAt, DecodedTo, ln
  <2>5. r \in Seq(Nat) /\ Len(r) = m /\ \A k \in 1 .. m : r[k] = c[a + 1]
    BY <2>2, <2>3, <2>4, DecodedIs DEF ln
  <2>6. ASSUME NEW k \in 1 .. m PROVE p[i + k - 1] = p[i]
    <3>1. i + k - 1 \in i .. t - 1
      BY <1>1 DEF m
    <3> QED BY <1>3, <3>1
  <2>7. a + 2 = b + lw + 1
    BY <1>1, <2>1 DEF a
  <2> HIDE DEF r
  <2>8. \A k \in 1 .. m : r[k] = p[i + k - 1]
    BY <2>2, <2>5, <2>6
  <2> QED BY <2>3, <2>4, <2>5, <2>7, <2>8 DEF r, a, m, ln, lw
<1>4. CASE /\ Len(w) = 3 + (t - i) /\ w[1] = 0 /\ 256 * w[2] + w[3] = t - i
           /\ \A k \in 1 .. t - i : w[3 + k] = p[i + k - 1]
  <2>1. lw = 3 + m /\ w[1] = 0 /\ 256 * w[2] + w[3] = m
        /\ 1 \in 1 .. lw /\ 2 \in 1 .. lw /\ 3 \in 1 .. lw /\ b + 2 = a + 1 /\ b + 3 = a + 2
    BY <1>1, <1>4
  <2>2. c[a] = 0 /\ c[a + 1] = w[2] /\ c[a + 2] = w[3]
    BY <1>2, <2>1
  <2>3. LiteralLength(c, a) = m
    BY <2>1, <2>2 DEF LiteralLength
  <2> HIDE DEF n, a, m, ln, lw
  <2>4. a + 2 <= ln /\ m \in 1 .. ln - a - 2 /\ a \in 1 .. ln + 1 /\ a + 3 + m = b + lw + 1
    <3>1. a = b + 1
      BY DEF a
    <3> QED BY <1>1, <2>1, <3>1
  <2>5. WholeAt(c, a) /\ DecodedTo(c, a) = a + 3 + m
    BY <2>2, <2>3, <2>4 DEF WholeAt, DecodedTo, ln
  <2>6. r \in Seq(Nat) /\ Len(r) = m /\ \A k \in 1 .. m : r[k] = c[a + 2 + k]
    <3>1. WholeAt(c, a) /\ a \in 1 .. Len(c) + 1
      BY <2>4, <2>5 DEF ln
    <3>2. /\ Decoded(c, a) \in Seq(Nat)
          /\ c[a] = 0 => /\ Len(Decoded(c, a)) = LiteralLength(c, a)
                         /\ \A k \in 1 .. LiteralLength(c, a) : Decoded(c, a)[k] = c[a + 2 + k]
      BY <3>1, DecodedIs
    <3> QED BY <2>2, <2>3, <3>2, Zenon
  <2> HIDE DEF r
  <2>7. ASSUME NEW k \in 1 .. m PROVE r[k] = p[i + k - 1]
    <3>1. 3 + k \in 1 .. lw /\ b + (3 + k) = a + 2 + k
      <4>1. a = b + 1
        BY DEF a
      <4> QED BY <1>1, <2>1, <4>1
    <3>2. c[a + 2 + k] = w[3 + k]
      BY <1>2, <3>1
    <3>3. w[3 + k] = p[i + k - 1]
      BY <1>4 DEF m
    <3> QED BY <2>6, <3>2, <3>3
  <2> QED BY <2>4, <2>5, <2>6, <2>7 DEF r, a, m, ln, lw
<1> QED BY <1>3, <1>4 DEF Says

(* From b on, the code is what the encoder wrote from position i on.       *)
HoldsFrom(c, b, r) ==
  b + Len(r) = Len(c) /\ \A k \in 1 .. Len(r) : c[b + k] = r[k]

(* Decoding it from there gives the rest of the page.                      *)
DecodesFrom(g, c, e, p, i) ==
  \A b \in Nat : HoldsFrom(c, b, e[i]) => g[<<b + 1, i - 1>>] = SubSeq(p, i, PageSize)

LEMMA TerminatorDecodes ==
  ASSUME NEW p \in Contents, NEW old \in Contents, NEW c \in Seq(Nat),
         NEW e, IsEncoding(e, p), NEW g, IsDecoding(g, c, old),
         NEW i, i = PageSize + 1
  PROVE  DecodesFrom(g, c, e, p, i)
<1> DEFINE n == PageSize
<1> SUFFICES ASSUME NEW b \in Nat, HoldsFrom(c, b, e[i])
             PROVE  g[<<b + 1, i - 1>>] = SubSeq(p, i, n)
  BY DEF DecodesFrom
<1>1. n \in Nat /\ p \in Seq(Nat) /\ old \in Seq(Nat) /\ Len(c) \in Nat
  BY ContentsAre
<1>2. e[i] = <<0, 0>>
  BY DEF IsEncoding
<1>3. b + 2 = Len(c) /\ c[b + 1] = 0
  BY <1>2 DEF HoldsFrom
<1>4. ~WholeAt(c, b + 1)
  <2>1. ~(b + 1 + 2 <= Len(c)) /\ ~(c[b + 1] > 0)
    BY <1>1, <1>3
  <2> QED BY <2>1 DEF WholeAt
<1>5. b + 1 \in 1 .. Len(c) + 1 /\ n \in 0 .. PageSize /\ i - 1 = n
  BY <1>1, <1>3
<1>6. g[<<b + 1, n>>] = SubSeq(old, n + 1, PageSize)
  BY <1>4, <1>5 DEF IsDecoding, Fits
<1>7. \A s \in Seq(Nat) : SubSeq(s, n + 1, n) = <<>>
  <2>1. n + 1 \in Int /\ n \in Int /\ ~(n + 1 <= n) /\ \A k \in n + 1 .. n : FALSE
    BY <1>1
  <2> SUFFICES ASSUME NEW s \in Seq(Nat) PROVE SubSeq(s, n + 1, n) = <<>>
    OBVIOUS
  <2>2. /\ SubSeq(s, n + 1, n) \in Seq(Nat)
        /\ Len(SubSeq(s, n + 1, n)) = IF n + 1 <= n THEN n - (n + 1) + 1 ELSE 0
    BY <2>1, SubSeqProperties
  <2>3. Len(SubSeq(s, n + 1, n)) = 0
    BY <2>1, <2>2, Zenon
  <2> QED BY <2>2, <2>3, EmptySeq
<1> QED BY <1>1, <1>5, <1>6, <1>7

LEMMA PositionDecodes ==
  ASSUME NEW p \in Contents, NEW old \in Contents, NEW c \in Seq(Nat),
         NEW e, IsEncoding(e, p), NEW g, IsDecoding(g, c, old),
         NEW i \in 1 .. PageSize, DecodesFrom(g, c, e, p, EncodedTo(p, i))
  PROVE  DecodesFrom(g, c, e, p, i)
<1> DEFINE n == PageSize
           t == EncodedTo(p, i)
           w == Written(p, i)
           rest == e[t]
           lw == Len(w)
           lr == Len(rest)
           lc == Len(c)
<1> SUFFICES ASSUME NEW b \in Nat, HoldsFrom(c, b, e[i])
             PROVE  g[<<b + 1, i - 1>>] = SubSeq(p, i, n)
  BY DEF DecodesFrom
<1>1. /\ n \in Nat /\ p \in Seq(Nat) /\ Len(p) = n /\ lc \in Nat
      /\ i \in Nat /\ i >= 1 /\ i <= n
      /\ \A k \in 1 .. n : p[k] \in Nat
  BY ContentsAre
<1>2. t \in i + 1 .. n + 1 /\ w \in Seq(Nat) /\ Says(w, p, i, t)
  BY WrittenIs
<1> HIDE DEF t, w
<1>3. e[i] = w \o rest /\ rest \in Seq(Nat)
  <2>1. t \in 1 .. n + 1
    BY <1>1, <1>2
  <2> QED BY <2>1 DEF IsEncoding, t, w
<1> HIDE DEF rest
<1>4. /\ Len(w \o rest) = lw + lr /\ lw \in Nat /\ lr \in Nat
      /\ \A k \in 1 .. lw + lr : (w \o rest)[k] = IF k <= lw THEN w[k] ELSE rest[k - lw]
  BY <1>2, <1>3, ConcatProperties
<1>5. b + (lw + lr) = lc /\ \A k \in 1 .. lw + lr : c[b + k] = (w \o rest)[k]
  BY <1>3, <1>4 DEF HoldsFrom
<1> HIDE DEF lw, lr, lc, n
<1>6. ASSUME NEW k \in 1 .. lw PROVE c[b + k] = w[k]
  <2>1. k \in 1 .. lw + lr /\ k <= lw
    BY <1>4
  <2> QED BY <1>4, <1>5, <2>1
<1>7. ASSUME NEW k \in 1 .. lr PROVE c[(b + lw) + k] = rest[k]
  <2>1. lw + k \in 1 .. lw + lr /\ ~(lw + k <= lw) /\ lw + k - lw = k /\ (b + lw) + k = b + (lw + k)
    BY <1>4
  <2>2. (w \o rest)[lw + k] = rest[k]
    BY <1>4, <2>1
  <2>3. c[b + (lw + k)] = (w \o rest)[lw + k]
    BY <1>5, <2>1
  <2> QED BY <2>1, <2>2, <2>3
<1>8. b + lw \in Nat /\ (b + lw) + lr = lc /\ b + lw <= lc
  BY <1>1, <1>4, <1>5
<1>9. HoldsFrom(c, b + lw, e[t])
  BY <1>7, <1>8 DEF HoldsFrom, rest, lr, lc
<1>10. g[<<(b + lw) + 1, t - 1>>] = SubSeq(p, t, n)
  BY <1>8, <1>9 DEF DecodesFrom, t, n
<1> DEFINE r == Decoded(c, b + 1)
           q == SubSeq(p, t, n)
<1>11. /\ WholeAt(c, b + 1) /\ b + 1 \in 1 .. lc + 1
       /\ DecodedTo(c, b + 1) = b + lw + 1
       /\ r \in Seq(Nat) /\ Len(r) = t - i
       /\ \A k \in 1 .. t - i : r[k] = p[i + k - 1]
  <2>1. b + Len(w) <= Len(c) /\ \A k \in 1 .. Len(w) : c[b + k] = w[k]
    BY <1>6, <1>8 DEF lw, lc
  <2>2. i \in 1 .. PageSize /\ t \in i + 1 .. PageSize + 1
    BY <1>2 DEF n
  <2> HIDE DEF r
  <2>3. /\ WholeAt(c, b + 1) /\ b + 1 \in 1 .. Len(c) + 1
        /\ DecodedTo(c, b + 1) = b + Len(w) + 1
        /\ Decoded(c, b + 1) \in Seq(Nat) /\ Len(Decoded(c, b + 1)) = t - i
        /\ \A k \in 1 .. t - i : Decoded(c, b + 1)[k] = p[i + k - 1]
    BY <1>2, <2>1, <2>2, DecodesWritten
  <2> QED BY <2>3 DEF lw, lc, r
<1>12. i - 1 \in 0 .. n /\ (i - 1) + (t - i) = t - 1 /\ t - 1 <= n /\ t \in Nat /\ t - i \in Nat
  BY <1>1, <1>2
<1>13. Fits(c, b + 1, i - 1)
  BY <1>11, <1>12 DEF Fits, n
<1>14. g[<<b + 1, i - 1>>] = r \o q
  <2>1. g[<<b + 1, i - 1>>]
          = Decoded(c, b + 1) \o g[<<DecodedTo(c, b + 1), i - 1 + Len(Decoded(c, b + 1))>>]
    BY <1>11, <1>12, <1>13 DEF IsDecoding, n, lc
  <2> QED BY <1>10, <1>11, <1>12, <2>1
<1> HIDE DEF r
<1>15. q \in Seq(Nat) /\ Len(q) = n - t + 1 /\ \A k \in 1 .. n - t + 1 : q[k] = p[t + k - 1]
  <2>1. t \in Int /\ n \in Int /\ \A k \in t .. n : p[k] \in Nat
    <3>1. t \in Int /\ n \in Int /\ \A k \in t .. n : k \in 1 .. n
      BY <1>1, <1>2
    <3> QED BY <1>1, <3>1
  <2>2. /\ q \in Seq(Nat) /\ Len(q) = IF t <= n THEN n - t + 1 ELSE 0
        /\ \A k \in 1 .. n - t + 1 : q[k] = p[t + k - 1]
    BY <2>1, SubSeqProperties
  <2>3. t <= n \/ n - t + 1 = 0
    <3>1. n \in Nat /\ t \in 1 .. n + 1
      BY <1>1, <1>2
    <3> HIDE DEF n
    <3> QED BY <3>1
  <2> HIDE DEF q
  <2> QED BY <2>2, <2>3
<1> HIDE DEF q
<1> DEFINE all == r \o q
<1>16. /\ all \in Seq(Nat) /\ Len(all) = Len(r) + Len(q)
       /\ \A k \in 1 .. Len(r) + Len(q) : all[k] = IF k <= Len(r) THEN r[k] ELSE q[k - Len(r)]
  BY <1>11, <1>15, ConcatProperties
<1>17. Len(r) + Len(q) = n - i + 1
  BY <1>1, <1>2, <1>11, <1>15
<1> HIDE DEF all
<1>18. ASSUME NEW k \in 1 .. n - i + 1 PROVE all[k] = p[i - 1 + k]
  <2>1. CASE k <= t - i
    <3>1. k \in 1 .. t - i /\ i + k - 1 = i - 1 + k
      BY <1>1, <1>12, <2>1
    <3> QED BY <1>11, <1>16, <1>17, <2>1, <3>1
  <2>2. CASE ~(k <= t - i)
    <3>1. k - (t - i) \in 1 .. n - t + 1 /\ t + (k - (t - i)) - 1 = i - 1 + k
      BY <1>1, <1>12, <2>2
    <3>2. all[k] = q[k - (t - i)]
      BY <1>11, <1>16, <1>17, <2>2
    <3> QED BY <1>15, <3>1, <3>2
  <2> QED BY <2>1, <2>2
<1>19. i \in 1 .. Len(p) + 1 /\ n \in i - 1 .. Len(p) /\ Len(all) = n - i + 1
  BY <1>1, <1>16, <1>17
<1>20. all = SubSeq(p, i, n)
  BY <1>1, <1>16, <1>18, <1>19, IsPart
<1> QED BY <1>14, <1>20 DEF all

(* Whatever the page holds by then, decoding what a page was encoded to    *)
(* gives that page (memory_compress.c:45-173).                             *)
LEMMA DecodesEncoded ==
  ASSUME NEW p \in Contents, NEW old \in Contents
  PROVE  Encode(p) \in Seq(Nat) /\ Decode(Encode(p), old) = p
<1> DEFINE n == PageSize
<1>1. PICK e : IsEncoding(e, p) /\ Encode(p) = e[1]
  BY EncodeIs
<1>2. n \in Nat /\ n > 0 /\ p \in Seq(Nat) /\ Len(p) = n
  BY ContentsAre
<1>3. Encode(p) \in Seq(Nat)
  BY <1>1, <1>2 DEF IsEncoding
<1> DEFINE c == Encode(p)
<1> HIDE DEF n
<1>4. PICK g : IsDecoding(g, c, old) /\ Decode(c, old) = g[<<1, 0>>]
  BY <1>3, DecodeIs
<1> DEFINE T == {m \in Nat : \A i \in 1 .. n + 1 : n + 1 - i <= m => DecodesFrom(g, c, e, p, i)}
<1>5. 0 \in T
  <2>1. \A i \in 1 .. n + 1 : n + 1 - i <= 0 => i = n + 1
    BY <1>2
  <2>2. \A i : i = n + 1 => DecodesFrom(g, c, e, p, i)
    BY <1>1, <1>3, <1>4, TerminatorDecodes DEF n
  <2> HIDE DEF c
  <2> QED BY <2>1, <2>2
<1>6. ASSUME NEW m \in T PROVE m + 1 \in T
  <2>1. ASSUME NEW i \in 1 .. n + 1, n + 1 - i <= m + 1 PROVE DecodesFrom(g, c, e, p, i)
    <3>1. CASE i = n + 1
      BY <1>1, <1>3, <1>4, <3>1, TerminatorDecodes DEF n
    <3>2. CASE i # n + 1
      <4>1. i \in 1 .. n
        BY <1>2, <3>2
      <4>2. EncodedTo(p, i) \in i + 1 .. n + 1
        BY <4>1, WrittenIs DEF n
      <4>3. EncodedTo(p, i) \in 1 .. n + 1 /\ n + 1 - EncodedTo(p, i) <= m
        <5>1. m \in Nat
          OBVIOUS
        <5> HIDE DEF T
        <5> QED BY <1>2, <2>1, <4>1, <4>2, <5>1
      <4>4. DecodesFrom(g, c, e, p, EncodedTo(p, i))
        BY <4>3
      <4> QED BY <1>1, <1>3, <1>4, <4>1, <4>4, PositionDecodes DEF n
    <3> QED BY <3>1, <3>2
  <2>2. m + 1 \in Nat
    OBVIOUS
  <2> HIDE DEF c
  <2> QED BY <2>1, <2>2
<1>7. n \in T
  <2>1. T \in SUBSET Nat
    OBVIOUS
  <2> HIDE DEF T
  <2> QED BY <1>2, <1>5, <1>6, <2>1, SetInduction
<1>8. DecodesFrom(g, c, e, p, 1)
  <2>1. 1 \in 1 .. n + 1 /\ n + 1 - 1 <= n
    BY <1>2
  <2> QED BY <1>7, <2>1
<1> HIDE DEF T
<1>9. HoldsFrom(c, 0, e[1])
  <2>1. Len(c) \in Nat
    BY <1>3
  <2> QED BY <1>1, <2>1 DEF HoldsFrom
<1>10. g[<<0 + 1, 1 - 1>>] = SubSeq(p, 1, n)
  BY <1>8, <1>9 DEF DecodesFrom, n
<1>11. p = SubSeq(p, 1, n)
  <2>1. 1 \in 1 .. Len(p) + 1 /\ n \in 1 - 1 .. Len(p) /\ Len(p) = n - 1 + 1
    BY <1>2
  <2>2. \A k \in 1 .. n - 1 + 1 : 1 - 1 + k = k
    BY <1>2
  <2> QED BY <1>2, <2>1, <2>2, IsPart
<1>12. 0 + 1 = 1 /\ 1 - 1 = 0
  OBVIOUS
<1>13. g[<<1, 0>>] = p
  BY <1>10, <1>11, <1>12
<1> QED BY <1>3, <1>4, <1>13

----------------------------------------------------------------------------
(* A sequence that only grows keeps what it held.                          *)
LEMMA StoredStays ==
  ASSUME NEW S, NEW s \in Seq(S), NEW t \in Seq(S), NEW at \in Nat, NEW size \in Nat,
         at + size <= Len(s)
  PROVE  SubSeq(s \o t, at + 1, at + size) = SubSeq(s, at + 1, at + size)
<1> DEFINE from == at + 1
           to == at + size
           r == SubSeq(s, from, to)
           u == s \o t
           n == Len(s)
<1>1. /\ u \in Seq(S) /\ Len(u) = n + Len(t) /\ n \in Nat /\ Len(t) \in Nat
      /\ \A k \in 1 .. n + Len(t) : u[k] = IF k <= n THEN s[k] ELSE t[k - n]
  BY ConcatProperties
<1>2. from \in Int /\ to \in Int /\ from \in 1 .. n + 1 /\ to \in from - 1 .. n
      /\ \A k \in from .. to : k \in 1 .. n
  BY <1>1
<1>3. \A k \in 1 .. n : s[k] \in S
  OBVIOUS
<1> HIDE DEF from, to, u, n
<1>4. /\ r \in Seq(S) /\ Len(r) = IF from <= to THEN to - from + 1 ELSE 0
      /\ \A k \in 1 .. to - from + 1 : r[k] = s[from + k - 1]
  BY <1>2, <1>3, SubSeqProperties
<1> HIDE DEF r
<1>5. Len(r) = to - from + 1
  <2>1. from <= to \/ to - from + 1 = 0
    BY <1>1, <1>2
  <2> QED BY <1>4, <2>1
<1>6. ASSUME NEW k \in 1 .. to - from + 1 PROVE r[k] = u[from - 1 + k]
  <2>1. from + k - 1 = from - 1 + k /\ from - 1 + k \in 1 .. n
        /\ from - 1 + k \in 1 .. n + Len(t) /\ from - 1 + k <= n
    BY <1>1, <1>2
  <2> QED BY <1>1, <1>4, <2>1
<1>7. from \in 1 .. Len(u) + 1 /\ to \in from - 1 .. Len(u)
  BY <1>1, <1>2
<1>8. r = SubSeq(u, from, to)
  BY <1>1, <1>4, <1>5, <1>6, <1>7, IsPart
<1> QED BY <1>8 DEF r, u, from, to

(* What was stored last is at the end.                                     *)
LEMMA StoredLast ==
  ASSUME NEW S, NEW s \in Seq(S), NEW t \in Seq(S)
  PROVE  SubSeq(s \o t, Len(s) + 1, Len(s) + Len(t)) = t
<1> DEFINE u == s \o t
           n == Len(s)
           m == Len(t)
<1>1. /\ u \in Seq(S) /\ Len(u) = n + m /\ n \in Nat /\ m \in Nat
      /\ \A k \in 1 .. n + m : u[k] = IF k <= n THEN s[k] ELSE t[k - n]
  BY ConcatProperties
<1> HIDE DEF u, n
<1>2. ASSUME NEW k \in 1 .. m PROVE t[k] = u[n + 1 - 1 + k]
  <2>1. n + 1 - 1 + k = n + k /\ n + k \in 1 .. n + m /\ ~(n + k <= n) /\ n + k - n = k
    BY <1>1
  <2> QED BY <1>1, <2>1
<1>3. n + 1 \in 1 .. Len(u) + 1 /\ n + m \in n + 1 - 1 .. Len(u)
      /\ n + m - (n + 1) + 1 = m
  <2>1. Len(u) = n + m /\ n \in Nat /\ m \in Nat
    BY <1>1
  <2> HIDE DEF m
  <2> QED BY <2>1
<1> HIDE DEF m
<1>4. Len(t) = n + m - (n + 1) + 1
      /\ \A k \in 1 .. n + m - (n + 1) + 1 : t[k] = u[n + 1 - 1 + k]
  BY <1>2, <1>3 DEF m
<1>5. t = SubSeq(u, n + 1, n + m)
  BY <1>1, <1>3, <1>4, IsPart
<1> QED BY <1>5 DEF u, n, m

----------------------------------------------------------------------------
Block == [addr : PageAddr, at : Nat, size : Nat]

(* Each block lies within the used part of the pool and holds the code of  *)
(* the page that was compressed when it was made.                          *)
ZipInv ==
  /\ memory \in [PageAddr -> Contents]
  /\ compressed_pool \in Seq(Nat) /\ Len(compressed_pool) <= PoolSize
  /\ compressed_blocks \in Seq(Block)
  /\ saved \in Seq(Contents) /\ Len(saved) = Len(compressed_blocks)
  /\ \A i \in 1 .. Len(compressed_blocks) :
       LET b == compressed_blocks[i]
       IN  b.at + b.size <= Len(compressed_pool) /\ Stored(b) = Encode(saved[i])

LEMMA ZipInitInv == ZipInit => ZipInv
<1> SUFFICES ASSUME ZipInit PROVE ZipInv
  OBVIOUS
<1>1. memory \in [PageAddr -> Contents] /\ PoolSize \in Nat
  BY ZipAssumption DEF ZipInit
<1>2. <<>> \in Seq(Nat) /\ <<>> \in Seq(Block) /\ <<>> \in Seq(Contents) /\ Len(<<>>) = 0
  OBVIOUS
<1> QED BY <1>1, <1>2 DEF ZipInit, ZipInv

LEMMA CompressKeeps ==
  ASSUME ZipInv, NEW a \in PageAddr, memory_compress_page(a)
  PROVE  ZipInv'
<1> DEFINE p == memory[a]
           c == Encode(p)
           pool == compressed_pool
           n == Len(compressed_blocks)
           new == [addr |-> a, at |-> Len(pool), size |-> Len(c)]
<1>1. p \in Contents /\ Len(p) = PageSize /\ PageSize \in Nat /\ PoolSize \in Nat
  <2>1. p \in Contents
    BY DEF ZipInv
  <2> QED BY <2>1, ContentsAre, ZipAssumption
<1>2. c \in Seq(Nat) /\ Len(c) \in Nat
  BY <1>1, DecodesEncoded
<1>3. pool \in Seq(Nat) /\ Len(pool) \in Nat /\ n \in Nat
  BY DEF ZipInv
<1>4. Len(pool) + PageSize <= PoolSize /\ 10 * Len(c) < 9 * Len(p)
  BY DEF memory_compress_page, Room, Worthwhile
<1>5. compressed_pool' = pool \o c
  <2>1. compressed_pool' = SubSeq(pool, 1, Len(pool)) \o c
    BY DEF memory_compress_page, StoreAt
  <2>2. SubSeq(pool, 1, Len(pool)) = pool
    BY <1>3, SubSeqFull
  <2> QED BY <2>1, <2>2
<1>6. compressed_pool' \in Seq(Nat) /\ Len(compressed_pool') = Len(pool) + Len(c)
  BY <1>2, <1>3, <1>5, ConcatProperties
<1>7. Len(compressed_pool') <= PoolSize
  <2> HIDE DEF p, c, pool
  <2> QED BY <1>1, <1>2, <1>3, <1>4, <1>6
<1>8. compressed_blocks' = Append(compressed_blocks, new) /\ saved' = Append(saved, p)
  BY DEF memory_compress_page, StoreAt
<1>9. new \in Block
  BY <1>2, <1>3 DEF Block
<1>10. memory' \in [PageAddr -> Contents]
  <2>1. memory' = [memory EXCEPT ![a] = [i \in DOMAIN memory[a] |-> 0]]
    BY DEF memory_compress_page
  <2>2. [i \in DOMAIN memory[a] |-> 0] \in Contents
    BY <1>1 DEF Contents
  <2> QED BY <2>1, <2>2 DEF ZipInv
<1>11. /\ compressed_blocks \in Seq(Block) /\ saved \in Seq(Contents) /\ Len(saved) = n
  BY DEF ZipInv
<1> HIDE DEF new, p, n, c
<1>12. /\ compressed_blocks' \in Seq(Block) /\ Len(compressed_blocks') = n + 1
       /\ compressed_blocks'[n + 1] = new
       /\ \A i \in 1 .. n : compressed_blocks'[i] = compressed_blocks[i]
  BY <1>8, <1>9, <1>11, AppendProperties DEF n
<1>13. /\ saved' \in Seq(Contents) /\ Len(saved') = n + 1 /\ saved'[n + 1] = p
       /\ \A i \in 1 .. n : saved'[i] = saved[i]
  BY <1>1, <1>8, <1>11, AppendProperties
<1>14. ASSUME NEW i \in 1 .. n + 1
       PROVE  LET b == compressed_blocks'[i]
              IN  b.at + b.size <= Len(compressed_pool')
                  /\ SubSeq(compressed_pool', b.at + 1, b.at + b.size) = Encode(saved'[i])
  <2>1. CASE i \in 1 .. n
    <3> DEFINE b == compressed_blocks[i]
    <3>0. b \in Block
      BY <1>11, <2>1 DEF n
    <3>1. b.at \in Nat /\ b.size \in Nat
      BY <3>0 DEF Block
    <3>2. b.at + b.size <= Len(pool) /\ SubSeq(pool, b.at + 1, b.at + b.size) = Encode(saved[i])
      BY <2>1 DEF ZipInv, Stored, n
    <3>3. compressed_blocks'[i] = b /\ saved'[i] = saved[i]
      BY <1>12, <1>13, <2>1
    <3> HIDE DEF b, pool
    <3>4. SubSeq(pool \o c, b.at + 1, b.at + b.size) = SubSeq(pool, b.at + 1, b.at + b.size)
      <4>1. c \in Seq(Nat) /\ pool \in Seq(Nat) /\ b.at + b.size <= Len(pool)
        BY <1>2, <1>3, <3>2
      <4> QED BY <3>1, <4>1, StoredStays
    <3>5. b.at + b.size <= Len(compressed_pool')
      BY <1>2, <1>3, <1>6, <3>1, <3>2
    <3> QED BY <1>5, <3>2, <3>3, <3>4, <3>5
  <2>2. CASE i = n + 1
    <3>1. compressed_blocks'[i] = new /\ saved'[i] = p
      BY <1>12, <1>13, <2>2
    <3>2. new.at = Len(pool) /\ new.size = Len(c)
      BY DEF new
    <3> HIDE DEF pool
    <3>3. SubSeq(pool \o c, Len(pool) + 1, Len(pool) + Len(c)) = c
      BY <1>2, <1>3, StoredLast
    <3>4. new.at + new.size <= Len(compressed_pool')
      BY <1>2, <1>3, <1>6, <3>2
    <3> QED BY <1>5, <3>1, <3>2, <3>3, <3>4 DEF c
  <2>3. i \in 1 .. n \/ i = n + 1
    BY <1>3
  <2> QED BY <2>1, <2>2, <2>3
<1> QED BY <1>6, <1>7, <1>10, <1>12, <1>13, <1>14 DEF ZipInv, Stored

(* What decompressing a page puts there.                                   *)
LEMMA FoundReturns ==
  ASSUME ZipInv, NEW a \in PageAddr, memory_decompress_page(a)
  PROVE  /\ Found(a) \in BlocksOf(a) /\ \A j \in BlocksOf(a) : Found(a) <= j
         /\ saved[Found(a)] \in Contents
         /\ memory' = [memory EXCEPT ![a] = saved[Found(a)]]
<1> DEFINE B == BlocksOf(a)
           n == Len(compressed_blocks)
<1>1. n \in Nat /\ B = {i \in 1 .. n : compressed_blocks[i].addr = a} /\ B # {}
  BY DEF ZipInv, BlocksOf, memory_decompress_page
<1> HIDE DEF B, n
<1>2. B \in SUBSET Nat
  BY <1>1
<1>3. \E i \in B : \A j \in B : i <= j
  BY <1>1, <1>2, LeastElement
<1>4. Found(a) \in B /\ \A j \in B : Found(a) <= j
  BY <1>3 DEF Found, B
<1>5. Found(a) \in 1 .. n
  BY <1>1, <1>4
<1>6. saved[Found(a)] \in Contents /\ Stored(compressed_blocks[Found(a)]) = Encode(saved[Found(a)])
  BY <1>5 DEF ZipInv, n
<1>7. memory[a] \in Contents
  BY DEF ZipInv
<1>8. Decode(Stored(compressed_blocks[Found(a)]), memory[a]) = saved[Found(a)]
  BY <1>6, <1>7, DecodesEncoded
<1>9. memory' = [memory EXCEPT ![a] = saved[Found(a)]]
  BY <1>8 DEF memory_decompress_page
<1> QED BY <1>4, <1>6, <1>9 DEF B

LEMMA ZipNextInv == ZipInv /\ [ZipNext]_zipVars => ZipInv'
<1> SUFFICES ASSUME ZipInv, [ZipNext]_zipVars PROVE ZipInv'
  OBVIOUS
<1>1. ASSUME memory' \in [PageAddr -> Contents],
             UNCHANGED <<compressed_pool, compressed_blocks, saved>>
      PROVE  ZipInv'
  BY <1>1 DEF ZipInv, Stored
<1>2. CASE memory_compression_enable
  BY <1>1, <1>2 DEF memory_compression_enable, ZipInv
<1>3. ASSUME NEW a \in PageAddr, Write(a) PROVE ZipInv'
  <2>1. PICK p \in LaterPages : memory' = [memory EXCEPT ![a] = p]
    BY <1>3 DEF Write
  <2>2. p \in Contents
    BY ZipAssumption
  <2>3. memory' \in [PageAddr -> Contents]
    BY <2>1, <2>2 DEF ZipInv
  <2> QED BY <1>1, <1>3, <2>3 DEF Write
<1>4. ASSUME NEW a \in PageAddr, memory_compress_page(a) PROVE ZipInv'
  BY <1>4, CompressKeeps
<1>5. ASSUME NEW a \in PageAddr, memory_decompress_page(a) PROVE ZipInv'
  <2>1. saved[Found(a)] \in Contents /\ memory' = [memory EXCEPT ![a] = saved[Found(a)]]
    BY <1>5, FoundReturns
  <2>2. memory' \in [PageAddr -> Contents]
    BY <2>1 DEF ZipInv
  <2> QED BY <1>1, <1>5, <2>2 DEF memory_decompress_page
<1>6. CASE UNCHANGED zipVars
  BY <1>1, <1>6 DEF zipVars, ZipInv
<1> QED BY <1>2, <1>3, <1>4, <1>5, <1>6 DEF ZipNext

(* Every block in the pool can be turned back into exactly the page it was *)
(* made from, whatever the page holds by then and whatever was compressed  *)
(* before and after it (memory_compress.c:45-173, 217-228).                *)
THEOREM BlocksStayRestorable == ZipSpec => []BlocksRestorable
<1>1. ZipInv => BlocksRestorable
  <2> SUFFICES ASSUME ZipInv, NEW i \in DOMAIN compressed_blocks, NEW a \in PageAddr
               PROVE  /\ Len(compressed_pool) <= PoolSize
                      /\ Decode(Stored(compressed_blocks[i]), memory[a]) = saved[i]
    BY DEF ZipInv, BlocksRestorable
  <2>1. i \in 1 .. Len(compressed_blocks) /\ memory[a] \in Contents
    BY DEF ZipInv
  <2>2. saved[i] \in Contents /\ Stored(compressed_blocks[i]) = Encode(saved[i])
    BY <2>1 DEF ZipInv
  <2> QED BY <2>1, <2>2, DecodesEncoded DEF ZipInv
<1> QED BY <1>1, ZipInitInv, ZipNextInv, PTL DEF ZipSpec

(* Decompressing a page brings back what it held when it was first         *)
(* compressed (memory_compress.c:243-262).                                 *)
THEOREM FirstContentsComeBack == ZipSpec => FirstContentsReturn
<1> DEFINE Returns ==
      \A a \in PageAddr :
        memory_decompress_page(a) =>
          \E i \in BlocksOf(a) :
            memory'[a] = saved[i] /\ \A j \in BlocksOf(a) : i <= j
<1>1. ZipInv /\ [ZipNext]_zipVars => [Returns]_zipVars
  <2> SUFFICES ASSUME ZipInv, NEW a \in PageAddr, memory_decompress_page(a)
               PROVE  \E i \in BlocksOf(a) :
                        memory'[a] = saved[i] /\ \A j \in BlocksOf(a) : i <= j
    OBVIOUS
  <2>1. /\ Found(a) \in BlocksOf(a) /\ \A j \in BlocksOf(a) : Found(a) <= j
        /\ memory' = [memory EXCEPT ![a] = saved[Found(a)]]
    BY FoundReturns
  <2>2. memory'[a] = saved[Found(a)]
    BY <2>1 DEF ZipInv
  <2> QED BY <2>1, <2>2
<1>2. FirstContentsReturn <=> [][Returns]_zipVars
  BY DEF FirstContentsReturn
<1> HIDE DEF Returns
<1> QED BY <1>1, <1>2, ZipInitInv, ZipNextInv, PTL DEF ZipSpec
=============================================================================
