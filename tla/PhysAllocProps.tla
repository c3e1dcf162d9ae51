--------------------------- MODULE PhysAllocProps ----------------------------
(***************************************************************************)
(* What the kernel heap of module PhysAlloc guarantees, and to whom:       *)
(* little to callers that free blocks and ask for different sizes, see the *)
(* last property; all of it to callers that free nothing, whatever they    *)
(* ask for, and to callers that free but ask for one size only.            *)
(***************************************************************************)
EXTENDS PhysAlloc

(* Callers that never give back a plain block, or all of one size.         *)
Tame == "Free" \notin Calls \/ Cardinality(Sizes) = 1

Addresses == 0 .. Limit

TypeOK ==
    /\ callers \in Callers
    /\ HeapHead \in Begin .. Limit
    /\ \A h \in ToSet(FreeList) \cup ToSet(FreeAlignedList) : h \in Addresses
    /\ DOMAIN BlockSize \subseteq Addresses
    /\ \A h \in DOMAIN BlockSize : BlockSize[h] \in Nat \ {0}
    /\ DOMAIN Trailer \subseteq Addresses
    /\ \A b \in live : b.size \in Sizes /\ b.alignment \in Alignments \cup {0}
    /\ broken \in BOOLEAN

(* No byte is given to two callers: the data of a block some caller holds  *)
(* overlaps neither the data nor the header of another such block.         *)
DataOverlaps(b, c) ==
    IF c.alignment = 0
      THEN Overlap(b.at, b.size, c.at - BlockHdr, BlockHdr + c.size)
      ELSE Overlap(b.at, b.size, c.at, c.size + AlignedHdr)

BlocksDisjoint == Tame => \A b, c \in live : b # c => ~DataOverlaps(b, c)

(* The page fault handler maps a page on demand when WasAlloqued knows the *)
(* address (idt_handlers.cpp:118), and aborts the kernel otherwise: it     *)
(* knows every byte the callers hold.                                      *)
AllocatedIsKnown ==
    Tame => \A b \in live : WasAlloqued(b.at) /\ WasAlloqued(b.at + b.size - 1)

(* No walk over the free list goes through a header some caller has        *)
(* written over, if all blocks are of one size and no aligned block, whose *)
(* trailer is not where AlignedFree looks for it, is given back.           *)
FreeListIntact ==
    Cardinality(Sizes) = 1 /\ "AlignedFree" \notin Calls
        => ~broken /\ Walkable(FreeList, BlockSize)

HeldHeaders == {b.at - BlockHdr : b \in {c \in live : c.alignment = 0}}

(* Whatever sizes are mixed, and until a walk breaks, a plain block is     *)
(* never held and free at once, and never twice in the free list: no       *)
(* sequence of splits and reuses makes two blocks of one.                  *)
HeldOrFree ==
    /\ HeldHeaders \cap ToSet(FreeList) = {}
    /\ IsInjective(FreeList)

(* No plain block is lost: every header that was ever written is that of a *)
(* block some caller holds or of one in the free list.                     *)
NothingLost == Tame => HeldHeaders \cup ToSet(FreeList) = DOMAIN BlockSize

-----------------------------------------------------------------------------
(* physical.cpp:134 "finds a free block of size >= *bytes*": the block     *)
(* LinklStratg takes from the free list is as large as the request.        *)
FitsRequest ==
    [][\A b \in live' \ live, i \in DOMAIN FreeList :
         b.at = FreeList[i] + BlockHdr => BlockSize[FreeList[i]] >= b.size]_vars
=============================================================================
