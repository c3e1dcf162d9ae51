------------------------------ MODULE PhysAlloc ------------------------------
(***************************************************************************)
(* The kernel heap, src/kernel/source/alloc/physical.cpp: a bump pointer,  *)
(* a free list of the blocks given back by pm::Free and a second one of    *)
(* those given back by pm::AlignedFree.                                    *)
(*                                                                         *)
(* Addresses are bytes, relative to the region given to pm::Create.  The   *)
(* linked lists are sequences of the addresses of their headers.  A header *)
(* lives in the memory it describes, so it is there only until something   *)
(* is written over it: BlockSize and Trailer hold the headers that are     *)
(* intact.  Callers are taken to write all the bytes they asked for, as    *)
(* soon as they have them.  The header of a plain block is in front of its *)
(* data, that of an aligned block behind it.                               *)
(*                                                                         *)
(* AllocatedSize is left out: the kernel writes it and never reads it.     *)
(* The calls are atomic here; in the kernel nothing makes them so.         *)
(***************************************************************************)
EXTENDS Vector, Integers, Sequences, SequencesExt

CONSTANTS
    Begin,        \* sizeof(mem_global), where the first block goes: 40
    BlockHdr,     \* sizeof(mem_block): 12
    NextSize,     \* sizeof(mem_block::Next), its first field: 8
    AlignedHdr,   \* sizeof(mem_aligned_block): 14
    Callers       \* the habits of callers to look at: the functions they
                  \* call, the sizes and alignments they ask for, and, as a
                  \* bound, the address up to which global->Head may go

ASSUME HeapAssumption ==
    /\ {Begin, BlockHdr, NextSize, AlignedHdr} \subseteq Nat \ {0}
    /\ \A c \in Callers :
          /\ c.calls \subseteq {"Alloc", "Free", "AlignedAlloc", "AlignedFree"}
          /\ c.sizes \cup c.alignments \subseteq Nat \ {0}
          /\ IsFiniteSet(c.sizes)
          /\ c.limit \in Nat /\ Begin <= c.limit

VARIABLES
    callers,          \* the callers' habits, chosen at the start
    HeapHead,         \* global->Head
    FreeList,         \* headers of the free blocks, in list order
    FreeAlignedList,  \* trailers of the free aligned blocks, in list order
    BlockSize,        \* the intact headers of plain blocks
    Trailer,          \* the intact trailers of aligned blocks
    live,             \* the blocks callers hold
    broken            \* a list was walked over a header that is not there

heap == <<HeapHead, FreeList, FreeAlignedList, BlockSize, Trailer, live>>
vars == <<heap, broken, callers>>

Calls == callers.calls
Sizes == callers.sizes
Alignments == callers.alignments
Limit == callers.limit

-----------------------------------------------------------------------------
Overlap(a, n, b, m) == a < b + m /\ b < a + n

(* What is left of the headers f, of the given length, after n bytes are   *)
(* written at a.                                                           *)
Spared(f, length, a, n) ==
    [h \in {x \in DOMAIN f : ~Overlap(x, length, a, n)} |-> f[h]]

(* The header of length bytes at h is written, then the caller's data.     *)
Written(f, length, h, value, b) ==
    Spared([x \in DOMAIN Spared(f, length, h, length) \cup {h} |->
                IF x = h THEN value ELSE f[x]],
           length, b.at, b.size)

Block(at, size, alignment) == [at |-> at, size |-> size, alignment |-> alignment]

(* Every header the walk over a list dereferences is intact.               *)
Walkable(list, f) == \A i \in DOMAIN list : list[i] \in DOMAIN f

(* Otherwise the walk follows garbage, and nothing is said of what follows. *)
Breaks == broken' = TRUE /\ UNCHANGED heap

InitOnGlobal ==             \* mutant: the heap starts on its own mem_global
    /\ callers \in Callers
    /\ HeapHead = 0
    /\ FreeList = <<>>
    /\ FreeAlignedList = <<>>
    /\ BlockSize = [h \in {} |-> 0]
    /\ Trailer = [h \in {} |-> 0]
    /\ live = {}
    /\ broken = FALSE

Init ==
    /\ callers \in Callers
    /\ HeapHead = Begin
    /\ FreeList = <<>>
    /\ FreeAlignedList = <<>>
    /\ BlockSize = [h \in {} |-> 0]
    /\ Trailer = [h \in {} |-> 0]
    /\ live = {}
    /\ broken = FALSE

-----------------------------------------------------------------------------
BumpWithoutHeader(bytes) == \* mutant: HeapHead is not advanced by the header
    LET b == Block(HeapHead + BlockHdr, bytes, 0)
    IN  /\ HeapHead + BlockHdr + bytes <= Limit
        /\ HeapHead' = HeapHead + bytes
        /\ BlockSize' = Written(BlockSize, BlockHdr, HeapHead, bytes, b)
        /\ live' = live \cup {b}
        /\ UNCHANGED <<FreeList, FreeAlignedList, Trailer, broken>>

(* BumpStrtg(bytes)                                                        *)
Bump(bytes) ==
    LET b == Block(HeapHead + BlockHdr, bytes, 0)
    IN  /\ HeapHead + BlockHdr + bytes <= Limit
        /\ HeapHead' = HeapHead + bytes + BlockHdr
        /\ BlockSize' = Written(BlockSize, BlockHdr, HeapHead, bytes, b)
        /\ live' = live \cup {b}
        /\ UNCHANGED <<FreeList, FreeAlignedList, Trailer, broken>>

(* Where the loop of LinklStratg stops: at the first block that is large   *)
(* enough, but the last one is taken without a look at its size.           *)
Found(bytes) ==
    LET fits == {i \in 1 .. Len(FreeList) - 1 : BlockSize[FreeList[i]] >= bytes}
    IN  IF fits = {} THEN Len(FreeList) ELSE First(fits)

SplitsExact(bytes) ==       \* mutant: no check that the rest can hold a header
    /\ Found(bytes) < Len(FreeList)
    /\ BlockSize[FreeList[Found(bytes)]] >= bytes

(* A block found before the last is split when the rest can hold a header. *)
Splits(bytes) ==
    /\ Found(bytes) < Len(FreeList)
    /\ BlockSize[FreeList[Found(bytes)]] - bytes > BlockHdr

(* SplitBlocks puts the header of the rest bytes behind the start of the   *)
(* first header, not behind the first block's data.                        *)
SplitAt(bytes) == FreeList[Found(bytes)] + bytes

(* For a request smaller than the pointer Next, that header is written     *)
(* over the Next of the block it is split from, before the list is walked. *)
Severs(bytes) == Splits(bytes) /\ bytes < NextSize

LinkKept(bytes) ==          \* mutant: the block stays in the free list
    LET b == Block(FreeList[Found(bytes)] + BlockHdr, bytes, 0)
    IN  /\ Walkable(FreeList, BlockSize) /\ ~Splits(bytes)
        /\ live' = live \cup {b}
        /\ Trailer' = Spared(Trailer, AlignedHdr, b.at, b.size)
        /\ BlockSize' = Spared(BlockSize, BlockHdr, b.at, b.size)
        /\ UNCHANGED <<HeapHead, FreeList, FreeAlignedList, broken>>

(* LinklStratg(bytes)                                                      *)
Link(bytes) ==
    LET h == FreeList[Found(bytes)]
        b == Block(h + BlockHdr, bytes, 0)
        others == RemoveAt(FreeList, Found(bytes))
        rest == BlockSize[h] - bytes
    IN  /\ Walkable(FreeList, BlockSize) /\ ~Severs(bytes)
        /\ live' = live \cup {b}
        /\ Trailer' = Spared(Trailer, AlignedHdr, b.at, b.size)
        /\ IF Splits(bytes)
             THEN /\ FreeList' = Append(others, SplitAt(bytes))
                  /\ BlockSize' = Written([BlockSize EXCEPT ![h] = bytes],
                                          BlockHdr, SplitAt(bytes), rest, b)
             ELSE /\ FreeList' = others
                  /\ BlockSize' = Spared(BlockSize, BlockHdr, b.at, b.size)
        /\ UNCHANGED <<HeapHead, FreeAlignedList, broken>>

(* pm::Alloc(bytes), bytes > 0                                             *)
Alloc(bytes) ==
    /\ "Alloc" \in Calls /\ ~broken
    /\ IF FreeList = <<>>
       THEN Bump(bytes)
       ELSE \/ Link(bytes)
            \/ ~Walkable(FreeList, BlockSize) /\ Breaks
            \/ Walkable(FreeList, BlockSize) /\ Severs(bytes) /\ Breaks

FreeOverwrites(b) ==        \* mutant: the freed block replaces the list
    /\ "Free" \in Calls /\ ~broken
    /\ b.alignment = 0
    /\ FreeList' = <<b.at - BlockHdr>>
    /\ live' = live \ {b}
    /\ UNCHANGED <<HeapHead, FreeAlignedList, BlockSize, Trailer, broken>>

(* pm::Free(b): TraverseAppend walks the list to its end.                  *)
Free(b) ==
    /\ "Free" \in Calls /\ ~broken
    /\ b.alignment = 0
    /\ \/ /\ Walkable(FreeList, BlockSize)
          /\ FreeList' = Append(FreeList, b.at - BlockHdr)
          /\ live' = live \ {b}
          /\ UNCHANGED <<HeapHead, FreeAlignedList, BlockSize, Trailer, broken>>
       \/ ~Walkable(FreeList, BlockSize) /\ Breaks

-----------------------------------------------------------------------------
(* AlignedAlloc takes every free block that fits, except the last in the   *)
(* list, off the list, and uses none of them.                              *)
Discards(h, bytes, alignment) ==
    Trailer[h].BlockSize >= bytes /\ Trailer[h].Alignment = alignment

Searched(bytes, alignment) ==
    LET kept == {i \in 1 .. Len(FreeAlignedList) :
                   i < Len(FreeAlignedList) => ~Discards(FreeAlignedList[i], bytes, alignment)}
    IN  [n \in 1 .. Cardinality(kept) |->
           FreeAlignedList[CHOOSE i \in kept : Rank(kept, i) = n - 1]]

AlignUp(a, alignment) == IF a % alignment = 0 THEN a ELSE a + (alignment - (a % alignment))

AlignedAllocShort(bytes, alignment) ==  \* mutant: the alignment gap is forgotten
    LET b == Block(AlignUp(HeapHead, alignment), bytes, alignment)
        trailer == [Alignment |-> alignment, BlockSize |-> bytes]
    IN  /\ "AlignedAlloc" \in Calls /\ ~broken
        /\ b.at + bytes + AlignedHdr <= Limit
        /\ Walkable(FreeAlignedList, Trailer)
        /\ FreeAlignedList' = Searched(bytes, alignment)
        /\ HeapHead' = HeapHead + bytes + AlignedHdr
        /\ Trailer' = Written(Trailer, AlignedHdr, HeapHead + bytes, trailer, b)
        /\ live' = live \cup {b}
        /\ UNCHANGED <<FreeList, BlockSize, broken>>

(* pm::AlignedAlloc(bytes, alignment).  The trailer is written bytes       *)
(* behind the HeapHead of before the alignment, where no one looks for it  *)
(* unless HeapHead was aligned already.                                    *)
AlignedAlloc(bytes, alignment) ==
    LET b == Block(AlignUp(HeapHead, alignment), bytes, alignment)
        trailer == [Alignment |-> alignment, BlockSize |-> bytes]
    IN  /\ "AlignedAlloc" \in Calls /\ ~broken
        /\ b.at + bytes + AlignedHdr <= Limit
        /\ \/ /\ Walkable(FreeAlignedList, Trailer)
              /\ FreeAlignedList' = Searched(bytes, alignment)
              /\ HeapHead' = b.at + bytes + AlignedHdr
              /\ Trailer' = Written(Trailer, AlignedHdr, HeapHead + bytes, trailer, b)
              /\ live' = live \cup {b}
              /\ UNCHANGED <<FreeList, BlockSize, broken>>
           \/ ~Walkable(FreeAlignedList, Trailer) /\ Breaks

(* pm::AlignedFree(b.size, b.at): the block is linked without a look at    *)
(* its trailer, whose Next is whatever is there.                           *)
AlignedFree(b) ==
    /\ "AlignedFree" \in Calls /\ ~broken
    /\ b.alignment # 0
    /\ \/ /\ Walkable(FreeAlignedList, Trailer)
          /\ FreeAlignedList' = Append(FreeAlignedList, b.at + b.size)
          /\ live' = live \ {b}
          /\ UNCHANGED <<HeapHead, FreeList, BlockSize, Trailer, broken>>
       \/ ~Walkable(FreeAlignedList, Trailer) /\ Breaks

Next ==
    /\ \/ \E bytes \in Sizes :
             Alloc(bytes) \/ \E alignment \in Alignments : AlignedAlloc(bytes, alignment)
       \/ \E b \in live : Free(b) \/ AlignedFree(b)
    /\ UNCHANGED callers

Spec == Init /\ [][Next]_vars

(* pm::WasAlloqued(ptr), which the page fault handler asks.                *)
WasAlloqued(ptr) == ptr > Begin /\ HeapHead > ptr
=============================================================================
