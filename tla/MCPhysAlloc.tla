---------------------------- MODULE MCPhysAlloc -----------------------------
(* Instances of the kernel heap for TLC, with the sizes of the code.       *)
EXTENDS PhysAllocProps

(* Callers that free aligned blocks only, that free blocks of one size,    *)
(* and that free blocks of several, some too small for a mem_block::Next.  *)
NeverFree == [calls |-> {"Alloc", "AlignedAlloc", "AlignedFree"}, sizes |-> {4, 18, 50},
              alignments |-> {16, 64}, limit |-> 220]
FreeOneSize == [calls |-> {"Alloc", "Free", "AlignedAlloc"}, sizes |-> {24},
                alignments |-> {16, 64}, limit |-> 300]
FreeMixed == [calls |-> {"Alloc", "Free"}, sizes |-> {4, 16, 50}, alignments |-> {}, limit |-> 150]

AllCallers == {NeverFree, FreeOneSize, FreeMixed}

TwoSizes == {[calls |-> {"Alloc", "Free"}, sizes |-> {16, 50}, alignments |-> {}, limit |-> 260]}
=============================================================================
