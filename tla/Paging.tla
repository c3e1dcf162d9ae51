------------------------------- MODULE Paging --------------------------------
(***************************************************************************)
(* The four-level page tables of arch/i386/paging/paging.cpp and the calls *)
(* of MapPages the kernel makes: while CreatePml4 builds the only address  *)
(* space it uses, from AcpiOsMapMemory, AddGlobalPage and the PE loader,   *)
(* and from the page fault handler.  All of them are preempted between any *)
(* two steps of a call, the handler too: vector 14 is a trap gate          *)
(* (cpu/idt.cpp:69), which leaves interrupts on.                           *)
(*                                                                         *)
(* A page is the sequence of its four indices.  A table is the number of   *)
(* its allocation, 1 for the PML4.  Bits 0 to 11 of an entry are its set   *)
(* of flags, the rest is its address: a table's number or a frame.         *)
(*                                                                         *)
(* op[a] is what actor a is doing:                                         *)
(*   "idle"    outside MapPages                                            *)
(*   "test"    in GetNextLevel, the load and test of level[offset] is next *)
(*   "store"   it was not present: allocate a table and store its address  *)
(*   "clear"   memset of the new table                                     *)
(*   "or"      the store of level[offset] |= flags and the descent         *)
(*   "leaf"    the store to pte[index1]                                    *)
(*   "flush"   invlpg                                                      *)
(***************************************************************************)
EXTENDS Naturals, Sequences

CONSTANTS
    Threads,      \* the one that runs KeStartThunk is one of them
    Fault,        \* the page fault handler
    Index,        \* indices into a table
    MaxTables,    \* bound on the tables allocated
    BootMaps,     \* the calls CreatePml4 makes, a sequence of requests
    HhdmPages,    \* pages AcpiOsMapMemory maps, at the direct map's offset
    DevicePages,  \* pages of devices, mapped onto themselves
    DeviceFlags,  \* and the sets of flags they are mapped with
    HeapPages,    \* pages of allocated heap memory, mapped onto themselves
    ImagePages,   \* pages at which images are loaded
    Frame,        \* Frame[p]: the frame of page p, but for image pages
    ImageFrames,  \* frames AlignedAlloc returns to the PE loader
    OffsetFlags   \* the flags that low bits of an unaligned address amount to

BootRequests == {BootMaps[n] : n \in DOMAIN BootMaps}
Pages ==
    {r.page : r \in BootRequests} \cup HhdmPages \cup DevicePages \cup HeapPages \cup ImagePages
Frames ==
    {r.frame : r \in BootRequests} \cup {Frame[p] : p \in DOMAIN Frame} \cup ImageFrames
Flags == {"present", "write", "user", "pcd"}
Actors == Threads \cup {Fault}
Pml4 == 1
Tables == Pml4 .. MaxTables

Requests == [page : Pages, frame : Frames, flags : SUBSET Flags, low : SUBSET Flags]

(* CreatePml4 asks for PT_FLAG_WRITE, whatever the low bits amount to.     *)
ASSUME PagingAssumption ==
    /\ Pages \subseteq [1 .. 4 -> Index]
    /\ MaxTables \in Nat \ {0}
    /\ OffsetFlags \subseteq SUBSET Flags /\ DeviceFlags \subseteq SUBSET Flags
    /\ HhdmPages \cup DevicePages \cup HeapPages \subseteq DOMAIN Frame
    /\ BootMaps \in Seq(Requests)
    /\ \A n \in DOMAIN BootMaps : "write" \in BootMaps[n].low => "write" \in BootMaps[n].flags
    /\ Fault \notin Threads

VARIABLES
    entry,   \* entry[t][i]: entry i of table t
    tables,  \* the number of tables allocated
    op,
    booted,  \* how many of BootMaps CreatePml4 has begun
    live,    \* whether cr3 holds the PML4
    tlb,     \* a page whose translation the CPU has cached, and what it is
    raced    \* an entry changed while another call depended on it

vars == <<entry, tables, op, booted, live, tlb, raced>>

Request(p, f, flags, low) == [page |-> p, frame |-> f, flags |-> flags, low |-> low]

Idle == [pc |-> "idle"]
Zero == [addr |-> 0, flags |-> {}]

(* A word of memory nobody has written: it may well look like an entry.    *)
Unknown == [addr |-> Pml4, flags |-> {"present"}]

(* CreatePml4 clears nothing: bit 0 of what it finds in the PML4 is taken  *)
(* to be 0, as in memory never used and in the header AlignedAlloc leaves. *)
Init ==
    /\ entry = [t \in Tables |-> [i \in Index |-> IF t = Pml4 THEN Zero ELSE Unknown]]
    /\ tables = 1
    /\ op = [a \in Actors |-> Idle]
    /\ booted = 0
    /\ live = FALSE
    /\ tlb = Zero
    /\ raced = FALSE

-----------------------------------------------------------------------------
(* The CPU's walk: every level present; writable if every level says so.   *)
Path(p) ==
    LET e1 == entry[Pml4][p[1]]
        e2 == entry[e1.addr][p[2]]
        e3 == entry[e2.addr][p[3]]
    IN  IF "present" \notin e1.flags THEN <<e1>>
        ELSE IF "present" \notin e2.flags THEN <<e1, e2>>
        ELSE IF "present" \notin e3.flags THEN <<e1, e2, e3>>
        ELSE <<e1, e2, e3, entry[e3.addr][p[4]]>>

Backing == [frame : Frames, write : BOOLEAN]

Translate(p) ==
    LET path == Path(p)
    IN  IF Len(path) < 4 \/ "present" \notin path[4].flags THEN Zero
        ELSE [frame |-> path[4].addr, write |-> \A k \in 1 .. 4 : "write" \in path[k].flags]

(* The entry a GetNextLevel in progress is about, and whether it relies on *)
(* what it read there.                                                     *)
Slot(a) == <<op[a].table, op[a].req.page[op[a].level]>>
Entry(a) == entry[Slot(a)[1]][Slot(a)[2]]
Relies(a) == op[a].pc \in {"store", "clear", "or"}

Goes(a, pc) == ~raced /\ op[a].pc = pc

Writes(a, e) ==
    /\ entry' = [entry EXCEPT ![Slot(a)[1]][Slot(a)[2]] = e]
    /\ raced' = (e # Entry(a) /\ \E b \in Actors \ {a} : Relies(b) /\ Slot(b) = Slot(a))

-----------------------------------------------------------------------------
(* MapPages sets PT_FLAG_PRESENT in the flags it is given.                 *)
MapPages(a, req) ==
    /\ Goes(a, "idle")
    /\ op' = [op EXCEPT ![a] =
               [pc |-> "test", level |-> 1, table |-> Pml4,
                req |-> [req EXCEPT !.flags = @ \cup {"present"}]]]
    /\ UNCHANGED <<entry, tables, live, tlb, raced>>

Test(a) ==
    /\ Goes(a, "test")
    /\ op' = [op EXCEPT ![a].pc = IF "present" \in Entry(a).flags THEN "or" ELSE "store"]
    /\ UNCHANGED <<entry, tables, booted, live, tlb, raced>>

Store(a) ==
    /\ Goes(a, "store")
    /\ tables < MaxTables
    /\ tables' = tables + 1
    /\ Writes(a, [addr |-> tables', flags |-> {}])
    /\ op' = [op EXCEPT ![a].pc = "clear"]
    /\ UNCHANGED <<booted, live, tlb>>

Clear(a) ==
    /\ Goes(a, "clear")
    /\ entry' = [entry EXCEPT ![Entry(a).addr] = [i \in Index |-> Zero]]
    /\ op' = [op EXCEPT ![a].pc = "or"]
    /\ UNCHANGED <<tables, booted, live, tlb, raced>>

DescendTooFar(a) ==         \* mutant: GetNextLevel called once too often
    op' = [op EXCEPT ![a].table = Entry(a).addr,
                     ![a].level = @ + 1,
                     ![a].pc = IF op[a].level = 4 THEN "leaf" ELSE "test"]

Descend(a) ==
    op' = [op EXCEPT ![a].table = Entry(a).addr,
                     ![a].level = @ + 1,
                     ![a].pc = IF op[a].level = 3 THEN "leaf" ELSE "test"]

OrOnlyIfNew(a) ==           \* mutant: the flags of a table's first page stay
    /\ Goes(a, "or")
    /\ Writes(a, IF "present" \in Entry(a).flags THEN Entry(a)
                 ELSE [Entry(a) EXCEPT !.flags = @ \cup op[a].req.flags])
    /\ Descend(a)
    /\ UNCHANGED <<tables, booted, live, tlb>>

(* A load, an or and a store, of which the load is Test's when the entry   *)
(* was present; what a call relied on is still there unless raced.         *)
Or(a) ==
    /\ Goes(a, "or")
    /\ Writes(a, [Entry(a) EXCEPT !.flags = @ \cup op[a].req.flags])
    /\ Descend(a)
    /\ UNCHANGED <<tables, booted, live, tlb>>

Leaf(a) ==
    /\ Goes(a, "leaf")
    /\ entry' = [entry EXCEPT ![op[a].table][op[a].req.page[4]] =
                   [addr |-> op[a].req.frame, flags |-> op[a].req.flags \cup op[a].req.low]]
    /\ op' = [op EXCEPT ![a].pc = "flush"]
    /\ UNCHANGED <<tables, booted, live, tlb, raced>>

FlushNothing(a) ==          \* mutant: no invlpg
    /\ Goes(a, "flush")
    /\ op' = [op EXCEPT ![a] = Idle]
    /\ UNCHANGED <<entry, tables, booted, live, tlb, raced>>

Flush(a) ==
    /\ Goes(a, "flush")
    /\ tlb' = IF tlb # Zero /\ tlb.page = op[a].req.page THEN Zero ELSE tlb
    /\ op' = [op EXCEPT ![a] = Idle]
    /\ UNCHANGED <<entry, tables, booted, live, raced>>

-----------------------------------------------------------------------------
AllIdle == \A a \in Actors : op[a] = Idle

CreatePml4(a) ==
    /\ booted < Len(BootMaps) /\ AllIdle
    /\ MapPages(a, BootMaps[booted + 1])
    /\ booted' = booted + 1

SetCr3 ==
    /\ ~live /\ booted = Len(BootMaps) /\ AllIdle
    /\ live' = TRUE
    /\ tlb' = Zero
    /\ UNCHANGED <<entry, tables, op, booted, raced>>

(* One page, whatever the length asked for.                                *)
AcpiOsMapMemory(a) ==
    \E p \in HhdmPages, low \in OffsetFlags :
        MapPages(a, Request(p, Frame[p], {"write"}, low))

AddGlobalPage(a) ==
    \E p \in DevicePages, flags \in DeviceFlags :
        MapPages(a, Request(p, Frame[p], flags, {}))

(* A page of a section: writable once a writable section has been met.     *)
LoadSection(a) ==
    \E p \in ImagePages, f \in ImageFrames, flags \in {{}, {"write"}} :
        MapPages(a, Request(p, f, flags, {}))

ThreadMaps(a) ==
    /\ live
    /\ AcpiOsMapMemory(a) \/ AddGlobalPage(a) \/ LoadSection(a)
    /\ UNCHANGED booted

(* Some thread has touched heap memory that is not mapped yet.             *)
Interrupt14 ==
    /\ live
    /\ \E p \in HeapPages, low \in OffsetFlags :
          /\ Translate(p) = Zero
          /\ MapPages(Fault, Request(p, Frame[p], {"write"}, low))
    /\ UNCHANGED booted

(* The CPU uses a page and keeps the translation; one it keeps is enough,  *)
(* whichever it is.                                                        *)
Access(p) ==
    /\ live /\ ~raced
    /\ tlb = Zero /\ Translate(p) # Zero
    /\ tlb' = [page |-> p, backing |-> Translate(p)]
    /\ UNCHANGED <<entry, tables, op, booted, live, raced>>

Next ==
    \/ \E a \in Threads : CreatePml4(a) \/ ThreadMaps(a)
    \/ SetCr3 \/ Interrupt14
    \/ \E a \in Actors :
          Test(a) \/ Store(a) \/ Clear(a) \/ Or(a) \/ Leaf(a) \/ Flush(a)
    \/ \E p \in Pages : Access(p)

Spec == Init /\ [][Next]_vars

-----------------------------------------------------------------------------
TypeOK ==
    /\ \A t \in Tables, i \in Index :
          /\ entry[t][i].flags \subseteq Flags
          /\ entry[t][i].addr \in Tables \cup Frames \cup {0}
    /\ tables \in Tables
    /\ \A a \in Actors \ {b \in Actors : op[b] = Idle} :
          /\ op[a].pc \in {"test", "store", "clear", "or", "leaf", "flush"}
          /\ op[a].level \in 1 .. 4
          /\ op[a].table \in 1 .. tables
          /\ op[a].req \in Requests
    /\ booted \in 0 .. Len(BootMaps)
    /\ live \in BOOLEAN /\ raced \in BOOLEAN

(* What a call asks for until its store to the last level.                 *)
Asked(a) ==
    IF op[a].pc \in {"idle", "flush"} THEN Zero
    ELSE [page |-> op[a].req.page,
          backing |-> [frame |-> op[a].req.frame, write |-> "write" \in op[a].req.flags]]

Abstract == INSTANCE PageMap WITH
    Caller <- Actors,
    Page <- Pages,
    None <- Zero,
    map <- [p \in Pages |-> Translate(p)],
    call <- [a \in Actors |-> Asked(a)]

(* As long as no two calls change one entry at once, the tables are the    *)
(* map that the calls of MapPages ask for: each of them, however it is     *)
(* preempted and whatever else is mapped meanwhile, gives its page its     *)
(* frame and its write permission and leaves every other page alone.  The  *)
(* flags ORed into the upper levels (paging.cpp:24) are what it takes.     *)
ImplementsPageMap == Abstract!Spec

(* The CPU never keeps a translation that the tables no longer say, but    *)
(* for a page whose call is about to execute its invlpg.                   *)
TlbCoherent ==
    tlb # Zero =>
        \/ tlb.backing = Translate(tlb.page)
        \/ \E a \in Actors : op[a].pc = "flush" /\ op[a].req.page = tlb.page
=============================================================================
