---------------------------- MODULE PageCompress ----------------------------
(***************************************************************************)
(* Memory compression (memory_compress.c): the run-length code, the pool   *)
(* that keeps compressed pages and the table of blocks.                    *)
(*                                                                         *)
(* A page is a sequence of bytes; the sizes of the code (pages of 4096     *)
(* bytes, runs up to 255) are constants.  The buffer a page is compressed  *)
(* into has twice the size of a page and never fills up.                   *)
(***************************************************************************)
EXTENDS Integers, FiniteSets, SequencesExt

CONSTANTS
  PageSize,
  MaxRun,       \* 255
  PoolSize,     \* COMPRESSED_POOL_SIZE
  MaxBlocks,    \* MAX_COMPRESSED_BLOCKS
  PageAddr,     \* addresses of pages
  FirstMemory,  \* what the pages hold at first: a set of functions on PageAddr
  LaterPages    \* what their owner writes later

Contents == [1 .. PageSize -> Nat]

ASSUME ZipAssumption ==
  /\ {PageSize, MaxRun, PoolSize} \subseteq Nat
  /\ PageSize > 0 /\ MaxRun >= 3
  /\ FirstMemory \subseteq [PageAddr -> Contents]
  /\ LaterPages \subseteq Contents

VARIABLES
  enabled,            \* compression_stats.enabled
  memory,             \* [PageAddr -> page]
  compressed_pool,    \* its used part; compressed_pool_used is its length
  compressed_blocks,  \* sequence of [addr, at, size]
  saved               \* history: sequence of the pages compressed

zipVars == <<enabled, memory, compressed_pool, compressed_blocks, saved>>

----------------------------------------------------------------------------
(* The code.  Positions count from 1. *)

Repeats(p, from, to) == \A i \in from .. to : p[i] = p[from]

(* Length of the run at position i. *)
RunLength(p, i) ==
  CHOOSE n \in 1 .. MaxRun :
    /\ i + n - 1 <= Len(p) /\ Repeats(p, i, i + n - 1)
    /\ n = MaxRun \/ i + n > Len(p) \/ p[i + n] # p[i]

ThreeAt(p, i) == i + 2 <= Len(p) /\ Repeats(p, i, i + 2)

(* A literal stops where three equal bytes begin, or with the page. *)
LiteralEnd(p, i) ==
  CHOOSE j \in i .. Len(p) + 1 :
    /\ j = Len(p) + 1 \/ ThreeAt(p, j)
    /\ \A k \in i .. j - 1 : ~ThreeAt(p, k)

(* One round of the encoder: what it writes for position i, [count][value] *)
(* for a run and [0][high][low][bytes] for a literal, and where it goes    *)
(* on.                                                                     *)
IsRun(p, i) == RunLength(p, i) >= 3

Written(p, i) ==
  LET n == LiteralEnd(p, i) - i
  IN  IF IsRun(p, i) THEN <<RunLength(p, i), p[i]>>
      ELSE <<0, n \div 256, n % 256>> \o SubSeq(p, i, LiteralEnd(p, i) - 1)

EncodedTo(p, i) ==
  IF IsRun(p, i) THEN i + RunLength(p, i) ELSE LiteralEnd(p, i)

(* The terminator is [0][0]. *)
Encode(p) ==
  LET from[i \in 1 .. Len(p) + 1] ==
        IF i > Len(p) THEN <<0, 0>> ELSE Written(p, i) \o from[EncodedTo(p, i)]
  IN  from[1]

(* memory_compress: the code if it is shorter than nine tenths. *)
Worthwhile(p) == 10 * Len(Encode(p)) < 9 * Len(p)

(* One round of the decoder at position i: whether there is something      *)
(* whole to decode, the bytes it stands for, and where the decoder goes on.*)
LiteralLength(c, i) == 256 * c[i + 1] + c[i + 2]

WholeAt(c, i) ==
  \/ i < Len(c) /\ c[i] > 0
  \/ i + 2 <= Len(c) /\ c[i] = 0 /\ LiteralLength(c, i) \in 1 .. Len(c) - i - 2

Decoded(c, i) ==
  IF c[i] > 0 THEN [k \in 1 .. c[i] |-> c[i + 1]]
  ELSE SubSeq(c, i + 3, i + 2 + LiteralLength(c, i))

DecodedTo(c, i) == IF c[i] > 0 THEN i + 2 ELSE i + 3 + LiteralLength(c, i)

(* memory_decompress of c into a page that holds old: the page afterwards. *)
(* At the terminator, and at what would not fit, the decoder stops, and    *)
(* the rest of the page keeps its bytes.                                   *)
Decode(c, old) ==
  LET from[at \in (1 .. Len(c) + 1) \X (0 .. Len(old))] ==
        LET i == at[1]
            d == at[2]
        IN  IF WholeAt(c, i) /\ d + Len(Decoded(c, i)) <= Len(old)
            THEN Decoded(c, i) \o from[<<DecodedTo(c, i), d + Len(Decoded(c, i))>>]
            ELSE SubSeq(old, d + 1, Len(old))
  IN  from[<<1, 0>>]

----------------------------------------------------------------------------
(* Pages and blocks. *)

ZipInit ==
  /\ enabled = TRUE
  /\ memory \in FirstMemory
  /\ compressed_pool = <<>>
  /\ compressed_blocks = <<>>
  /\ saved = <<>>

Write(a) ==
  /\ compressed_blocks # <<>>
  /\ \E p \in LaterPages : memory' = [memory EXCEPT ![a] = p]
  /\ UNCHANGED <<enabled, compressed_pool, compressed_blocks, saved>>

(* There must be room for a whole page, whatever it shrinks to. *)
Room == Len(compressed_pool) + PageSize <= PoolSize

(* Operators X_Y are faulty variants of X, which the properties notice.    *)
StoreAt_NotAdvanced == 0

StoreAt == Len(compressed_pool)

memory_compress_page(a) ==
  /\ enabled
  /\ Len(compressed_blocks) < MaxBlocks /\ Room
  /\ Worthwhile(memory[a])
  /\ compressed_pool' = SubSeq(compressed_pool, 1, StoreAt) \o Encode(memory[a])
  /\ compressed_blocks' = Append(compressed_blocks,
        [addr |-> a, at |-> StoreAt, size |-> Len(Encode(memory[a]))])
  /\ memory' = [memory EXCEPT ![a] = [i \in DOMAIN @ |-> 0]]
  /\ saved' = Append(saved, memory[a])
  /\ UNCHANGED enabled

BlocksOf(a) == {i \in DOMAIN compressed_blocks : compressed_blocks[i].addr = a}
Stored(b) == SubSeq(compressed_pool, b.at + 1, b.at + b.size)

Found_Oldest(a) == 1

(* The first block of the address, whether or not it is still marked as    *)
(* compressed; block->flags is written and never read.                     *)
Found(a) == CHOOSE i \in BlocksOf(a) : \A j \in BlocksOf(a) : i <= j

memory_decompress_page(a) ==
  /\ BlocksOf(a) # {}
  /\ memory' =
       [memory EXCEPT ![a] = Decode(Stored(compressed_blocks[Found(a)]), @)]
  /\ UNCHANGED <<enabled, compressed_pool, compressed_blocks, saved>>

memory_compression_enable ==
  /\ enabled' = ~enabled
  /\ UNCHANGED <<memory, compressed_pool, compressed_blocks, saved>>

ZipNext ==
  \/ memory_compression_enable
  \/ \E a \in PageAddr :
       Write(a) \/ memory_compress_page(a) \/ memory_decompress_page(a)

ZipSpec == ZipInit /\ [][ZipNext]_zipVars

----------------------------------------------------------------------------
(* Properties. *)

(* Every block in the pool can be turned back into exactly the page it was *)
(* made from, whatever the page held before: runs and literals, runs       *)
(* longer than a count byte, literals up to the end of the page, blocks    *)
(* that follow each other without a gap (memory_compress.c:55-110,         *)
(* 130-170, 217-228).                                                      *)
BlocksRestorable ==
  /\ Len(compressed_pool) <= PoolSize
  /\ \A i \in DOMAIN compressed_blocks : \A a \in PageAddr :
       Decode(Stored(compressed_blocks[i]), memory[a]) = saved[i]

(* Decompressing a page that was compressed once brings back what it held, *)
(* even after its owner wrote to it; a page that was compressed again gets *)
(* the contents it had the first time (memory_compress.c:243-262).         *)
FirstContentsReturn ==
  [][\A a \in PageAddr :
       memory_decompress_page(a) =>
         \E i \in BlocksOf(a) :
           memory'[a] = saved[i] /\ \A j \in BlocksOf(a) : i <= j]_zipVars
=============================================================================
