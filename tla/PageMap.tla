------------------------------ MODULE PageMap --------------------------------
(***************************************************************************)
(* What the page tables promise: a map from virtual pages to what backs    *)
(* them, in which a call of MapPages changes the page it is about and no   *)
(* other, at one moment between its start and its return.  Module Paging   *)
(* implements it.                                                          *)
(***************************************************************************)
CONSTANTS
    Caller,
    Page,
    Backing,  \* a frame, and whether it may be written
    None

VARIABLES
    map,      \* map[p]: what backs page p, None for nothing
    call      \* call[c]: the page and the backing that the call of c asks
              \* for and has not given it yet, None outside such a call

vars == <<map, call>>

Call == [page : Page, backing : Backing]

Init ==
    /\ map = [p \in Page |-> None]
    /\ call = [c \in Caller |-> None]

Begin(c) ==
    /\ call[c] = None
    /\ call'[c] \in Call
    /\ call' = [call EXCEPT ![c] = call'[c]]
    /\ UNCHANGED map

TakeEffect(c) ==
    /\ call[c] # None
    /\ call' = [call EXCEPT ![c] = None]
    /\ map' = [map EXCEPT ![call[c].page] = call[c].backing]

Next == \E c \in Caller : Begin(c) \/ TakeEffect(c)

Spec == Init /\ [][Next]_vars
=============================================================================
