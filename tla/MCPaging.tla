------------------------------ MODULE MCPaging -------------------------------
(* An instance of the page tables for TLC.                                 *)
EXTENDS Paging, TLC

CONSTANTS kernelFrame, acpiFrame, deviceFrame, heapFrame, loadFrame

Kernel == <<1, 1, 1, 1>>
Acpi   == <<1, 1, 0, 0>>
Device == <<1, 1, 1, 0>>
Heap   == <<1, 0, 0, 0>>
Image  == <<1, 0, 0, 1>>

OneAcpi == {Acpi}
OneDevice == {Device}
OneHeap == {Heap}
OneImage == {Image}
OneImageFrame == {loadFrame}
FrameOf == Acpi :> acpiFrame @@ Device :> deviceFrame @@ Heap :> heapFrame
KernelMaps == <<Request(Kernel, kernelFrame, {"write"}, {})>>
NotCached == {{"write", "pcd"}}
OffsetBits == {{"user"}}

Symmetry == Permutations(Threads)
=============================================================================
