---------------------------- MODULE PagingProofs -----------------------------
(***************************************************************************)
(* TypeOK, TlbCoherent and that the page tables implement module PageMap,  *)
(* for any number of threads, tables and pages and any maps made at boot.  *)
(*                                                                         *)
(* Nothing of this is inductive.  TreeInv says that the tables are a tree: *)
(* there is a place in the tree, a level and the indices that lead there,  *)
(* for every table, and a present entry leads from a table to one that is  *)
(* placed below it.  A table that some call has stored and not made        *)
(* present yet is reached by nobody else, and is empty once it is cleared. *)
(* Each call has been led to the table it is at by entries that have the   *)
(* flags it asks for, and where the last level allows writing, so do those *)
(* above it: ORing flags into them never changes what a page maps to.      *)
(***************************************************************************)
EXTENDS Paging, TLAPS

Entries == [addr : Tables \cup Frames \cup {0}, flags : SUBSET Flags]

Ops == [pc : {"test", "store", "clear", "or", "leaf", "flush"}, level : 1 .. 4,
        table : Tables, req : Requests]

Types ==
    /\ entry \in [Tables -> [Index -> Entries]]
    /\ tables \in Tables
    /\ op \in [Actors -> {Idle} \cup Ops]
    /\ \A a \in Actors : op[a] # Idle => op[a].table <= tables
    /\ booted \in 0 .. Len(BootMaps)
    /\ live \in BOOLEAN /\ raced \in BOOLEAN
    /\ tlb # Zero => tlb.page \in Pages

Present(e) == "present" \in e.flags

(* The entries of the walk for page p.                                     *)
E1(p) == entry[Pml4][p[1]]
E2(p) == entry[E1(p).addr][p[2]]
E3(p) == entry[E2(p).addr][p[3]]
E4(p) == entry[E3(p).addr][p[4]]

Full(p) == Present(E1(p)) /\ Present(E2(p)) /\ Present(E3(p)) /\ Present(E4(p))

(* The table that call a has allocated and not made present yet.           *)
HasFresh(a) == op[a].pc = "clear" \/ (op[a].pc = "or" /\ ~Present(Entry(a)))
Fresh(t) == \E a \in Actors : HasFresh(a) /\ Entry(a).addr = t
Uncleared(t) == \E a \in Actors : op[a].pc = "clear" /\ Entry(a).addr = t

(* The walks for p and q are one down to a table of this level.            *)
Alike(p, q, level) == \A k \in 1 .. 3 : k < level => p[k] = q[k]

(* Table u is placed below entry i of table t.                             *)
Below(place, u, t, i) ==
    /\ place[u].level = place[t].level + 1
    /\ place[u].page[place[t].level] = i
    /\ Alike(place[u].page, place[t].page, place[t].level)

(* What call a has found above the table it is at.                         *)
Led(a) ==
    LET p == op[a].req.page
        flags == op[a].req.flags
    IN  /\ op[a].level > 1 => flags \subseteq E1(p).flags
        /\ op[a].level > 2 => flags \subseteq E2(p).flags
        /\ op[a].level > 3 => flags \subseteq E3(p).flags
        /\ op[a].level = 1 => op[a].table = Pml4
        /\ op[a].level = 2 => op[a].table = E1(p).addr
        /\ op[a].level = 3 => op[a].table = E2(p).addr
        /\ op[a].level = 4 => op[a].table = E3(p).addr

Places == [Tables -> [level : 1 .. 4, page : Pages \cup {Zero}]]

TablesInv(place) ==
    /\ place \in Places
    /\ place[Pml4].level = 1
    /\ \A t \in 1 .. tables, i \in Index :
          place[t].level <= 3 /\ ~Uncleared(t) =>
              /\ entry[t][i].addr \in 0 .. tables
              /\ Present(entry[t][i]) =>
                   /\ entry[t][i].addr \in 1 .. tables
                   /\ ~Fresh(entry[t][i].addr)
                   /\ Below(place, entry[t][i].addr, t, i)

CallInv(place, a) ==
    op[a] # Idle =>
        /\ op[a].table \in 1 .. tables
        /\ ~Fresh(op[a].table)
        /\ place[op[a].table].level = op[a].level
        /\ Alike(op[a].req.page, place[op[a].table].page, op[a].level)
        /\ "present" \in op[a].req.flags
        /\ "write" \in op[a].req.low => "write" \in op[a].req.flags
        /\ op[a].pc \in {"test", "store", "clear", "or"} => op[a].level <= 3
        /\ op[a].pc \in {"leaf", "flush"} => op[a].level = 4
        /\ Led(a)

FreshInv(place, a) ==
    /\ op[a].pc \in {"store", "clear"} => ~Present(Entry(a))
    /\ HasFresh(a) => /\ Entry(a).addr \in 2 .. tables
                      /\ Below(place, Entry(a).addr, op[a].table, op[a].req.page[op[a].level])
    /\ op[a].pc = "or" /\ HasFresh(a) =>
          \A i \in Index : ~Present(entry[Entry(a).addr][i])
    /\ \A b \in Actors : HasFresh(a) /\ HasFresh(b) /\ Entry(a).addr = Entry(b).addr => a = b

(* A page that may be written at the last level may be at all of them.     *)
WriteInv ==
    \A p \in Pages :
        Full(p) /\ "write" \in E4(p).flags =>
            "write" \in E1(p).flags /\ "write" \in E2(p).flags /\ "write" \in E3(p).flags

Tree(place) ==
    /\ TablesInv(place)
    /\ \A a \in Actors : CallInv(place, a) /\ FreshInv(place, a)
    /\ WriteInv

TreeInv == ~raced => \E place : Tree(place)

Inv == Types /\ TreeInv

-----------------------------------------------------------------------------
(* The parts of the state, and of the constants.                           *)
LEMMA OpParts ==
    ASSUME Types, NEW a \in Actors, op[a].pc # "idle"
    PROVE  /\ op[a] \in Ops /\ op[a] # Idle
           /\ op[a].table \in Tables /\ op[a].level \in 1 .. 4 /\ op[a].table <= tables
           /\ op[a].req \in Requests
           /\ op[a].req.page \in Pages /\ op[a].req.frame \in Frames
           /\ op[a].req.flags \in SUBSET Flags /\ op[a].req.low \in SUBSET Flags
           /\ op[a].level \in 1 .. 4 => op[a].req.page[op[a].level] \in Index
<1>1. Idle.pc = "idle"
  BY DEF Idle
<1>2. op[a] \in Ops /\ op[a] # Idle
  BY <1>1 DEF Types
<1>3. op[a].req \in Requests /\ op[a].table \in Tables /\ op[a].level \in 1 .. 4
  BY <1>2 DEF Ops
<1>4. /\ op[a].req.page \in Pages /\ op[a].req.frame \in Frames
      /\ op[a].req.flags \in SUBSET Flags /\ op[a].req.low \in SUBSET Flags
  BY <1>3 DEF Requests
<1>5. op[a].req.page \in [1 .. 4 -> Index]
  BY <1>4, PagingAssumption
<1> QED
  BY <1>2, <1>3, <1>4, <1>5 DEF Types

LEMMA IdleOrOp ==
    ASSUME Types, NEW a \in Actors
    PROVE  op[a] = Idle <=> op[a].pc = "idle"
<1>1. Idle.pc = "idle"
  BY DEF Idle
<1>2. op[a] \in Ops => op[a].pc # "idle"
  BY DEF Ops
<1> QED
  BY <1>1, <1>2 DEF Types

LEMMA TableNumbers ==
    ASSUME Types
    PROVE  /\ Pml4 = 1 /\ Pml4 \in 1 .. tables /\ tables \in Nat
           /\ 1 .. tables \subseteq Tables
           /\ \A t \in Tables, i \in Index :
                 entry[t][i] \in Entries /\ entry[t][i].flags \in SUBSET Flags
           /\ \A p \in Pages, k \in 1 .. 4 : p[k] \in Index
<1>1. tables \in 1 .. MaxTables /\ MaxTables \in Nat
  BY PagingAssumption DEF Types, Tables, Pml4
<1>2. \A t \in Tables, i \in Index : entry[t][i] \in Entries
  BY DEF Types
<1>3. \A t \in Tables, i \in Index : entry[t][i].flags \in SUBSET Flags
  BY <1>2 DEF Entries
<1> QED
  BY <1>1, <1>2, <1>3, PagingAssumption DEF Tables, Pml4

(* The CPU's walk.                                                         *)
Walked(p) ==
    IF Full(p)
      THEN [frame |-> E4(p).addr,
            write |-> /\ "write" \in E1(p).flags /\ "write" \in E2(p).flags
                      /\ "write" \in E3(p).flags /\ "write" \in E4(p).flags]
      ELSE Zero

LEMMA TranslateIs == \A p : Translate(p) = Walked(p)
<1> SUFFICES ASSUME NEW p PROVE Translate(p) = Walked(p)
  OBVIOUS
<1>1. CASE ~Present(E1(p))
  <2>1. Path(p) = <<E1(p)>>
    BY <1>1, Zenon DEF Path, Present, E1
  <2> QED
    BY <1>1, <2>1 DEF Translate, Walked, Full
<1>2. CASE Present(E1(p)) /\ ~Present(E2(p))
  <2>1. Path(p) = <<E1(p), E2(p)>>
    BY <1>2, Zenon DEF Path, Present, E1, E2
  <2> QED
    BY <1>2, <2>1 DEF Translate, Walked, Full
<1>3. CASE Present(E1(p)) /\ Present(E2(p)) /\ ~Present(E3(p))
  <2>1. Path(p) = <<E1(p), E2(p), E3(p)>>
    BY <1>3, Zenon DEF Path, Present, E1, E2, E3
  <2> QED
    BY <1>3, <2>1 DEF Translate, Walked, Full
<1>4. CASE Present(E1(p)) /\ Present(E2(p)) /\ Present(E3(p))
  <2>1. Path(p) = <<E1(p), E2(p), E3(p), E4(p)>>
    BY <1>4, Zenon DEF Path, Present, E1, E2, E3, E4
  <2>2. \A path : path = <<E1(p), E2(p), E3(p), E4(p)>> =>
          /\ Len(path) = 4 /\ path[4] = E4(p)
          /\ (\A k \in 1 .. 4 : "write" \in path[k].flags)
                <=> /\ "write" \in E1(p).flags /\ "write" \in E2(p).flags
                    /\ "write" \in E3(p).flags /\ "write" \in E4(p).flags
    OBVIOUS
  <2>3. CASE Present(E4(p))
    <3>1. Full(p)
      BY <1>4, <2>3 DEF Full
    <3>2. Translate(p) = [frame |-> Path(p)[4].addr,
                          write |-> \A k \in 1 .. 4 : "write" \in Path(p)[k].flags]
      BY <2>1, <2>2, <2>3 DEF Translate, Present
    <3> QED
      BY <2>1, <2>2, <3>1, <3>2 DEF Walked
  <2>4. CASE ~Present(E4(p))
    BY <2>1, <2>2, <2>4 DEF Translate, Walked, Full, Present
  <2> QED
    BY <2>3, <2>4
<1> QED
  BY <1>1, <1>2, <1>3, <1>4

LEMMA TranslateIsNext == (\A p : Translate(p) = Walked(p))'
BY TranslateIs, PTL

(* A page that maps to something.                                          *)
LEMMA NotZero ==
    /\ \A f, w : [frame |-> f, write |-> w] # Zero
    /\ \A p, b : [page |-> p, backing |-> b] # Zero
<1>1. \A f, w : DOMAIN [frame |-> f, write |-> w] # DOMAIN Zero
  BY DEF Zero
<1>2. \A p, b : DOMAIN [page |-> p, backing |-> b] # DOMAIN Zero
  BY SMTT(20) DEF Zero
<1> QED
  BY <1>1, <1>2

-----------------------------------------------------------------------------
(* What the tree says of the walk for a page.                              *)
OnPath(place, t, p, level) ==
    /\ t \in 1 .. tables /\ ~Fresh(t) /\ ~Uncleared(t)
    /\ place[t].level = level
    /\ Alike(place[t].page, p, level)

LEMMA StepsDown ==
    ASSUME Types, NEW place, Tree(place), NEW p \in Pages, NEW level \in 1 .. 3,
           NEW t, OnPath(place, t, p, level), Present(entry[t][p[level]])
    PROVE  OnPath(place, entry[t][p[level]].addr, p, level + 1)
<1> DEFINE u == entry[t][p[level]].addr
<1>1. p[level] \in Index
  BY TableNumbers
<1>2. /\ u \in 1 .. tables /\ ~Fresh(u) /\ Below(place, u, t, p[level])
  BY <1>1 DEF Tree, TablesInv, OnPath
<1>3. ~Uncleared(u)
  BY <1>2 DEF Fresh, Uncleared, HasFresh
<1> HIDE DEF u
<1>4. place[u].level = level + 1 /\ place[u].page[level] = p[level]
      /\ Alike(place[u].page, place[t].page, level)
  BY <1>2 DEF Below, OnPath
<1>5. Alike(place[u].page, p, level + 1)
  <2> SUFFICES ASSUME NEW k \in 1 .. 3, k < level + 1 PROVE place[u].page[k] = p[k]
    BY DEF Alike
  <2>1. CASE k = level
    BY <1>4, <2>1
  <2>2. CASE k # level
    <3>1. k < level
      BY <2>2
    <3> QED
      BY <1>4, <3>1 DEF Alike, OnPath
  <2> QED
    BY <2>1, <2>2
<1> QED
  BY <1>2, <1>3, <1>4, <1>5 DEF OnPath, u

LEMMA RootOnPath ==
    ASSUME Types, NEW place, Tree(place), NEW p
    PROVE  OnPath(place, Pml4, p, 1)
<1>1. ~Fresh(Pml4)
  BY DEF Tree, FreshInv, Fresh, Pml4
<1>2. ~Uncleared(Pml4)
  BY <1>1 DEF Fresh, Uncleared, HasFresh
<1>3. Pml4 \in 1 .. tables
  BY TableNumbers
<1> QED
  BY <1>1, <1>2, <1>3 DEF OnPath, Tree, TablesInv, Alike

LEMMA WalkPlaces ==
    ASSUME Types, NEW place, Tree(place), NEW p \in Pages
    PROVE  /\ OnPath(place, Pml4, p, 1)
           /\ Present(E1(p)) => OnPath(place, E1(p).addr, p, 2)
           /\ Present(E1(p)) /\ Present(E2(p)) => OnPath(place, E2(p).addr, p, 3)
           /\ Present(E1(p)) /\ Present(E2(p)) /\ Present(E3(p)) => OnPath(place, E3(p).addr, p, 4)
<1>1. OnPath(place, Pml4, p, 1)
  BY RootOnPath
<1>2. Present(E1(p)) => OnPath(place, E1(p).addr, p, 1 + 1)
  <2>1. 1 \in 1 .. 3
    OBVIOUS
  <2> QED
    BY <1>1, <2>1, StepsDown DEF E1
<1>3. Present(E1(p)) /\ Present(E2(p)) => OnPath(place, E2(p).addr, p, 2 + 1)
  <2>1. 2 \in 1 .. 3 /\ 1 + 1 = 2
    OBVIOUS
  <2> QED
    BY <1>2, <2>1, StepsDown DEF E2
<1>4. Present(E1(p)) /\ Present(E2(p)) /\ Present(E3(p)) => OnPath(place, E3(p).addr, p, 3 + 1)
  <2>1. 3 \in 1 .. 3 /\ 2 + 1 = 3
    OBVIOUS
  <2> QED
    BY <1>3, <2>1, StepsDown DEF E3
<1>5. 1 + 1 = 2 /\ 2 + 1 = 3 /\ 3 + 1 = 4
  OBVIOUS
<1> QED
  BY <1>1, <1>2, <1>3, <1>4, <1>5

(* A step that takes no flag from a present entry of the upper levels, and *)
(* does not change where it leads.                                         *)
Grows(place) ==
    \A t \in 1 .. tables, i \in Index :
        place[t].level <= 3 /\ ~Fresh(t) /\ Present(entry[t][i]) =>
            entry'[t][i].addr = entry[t][i].addr /\ entry[t][i].flags \subseteq entry'[t][i].flags

LEMMA UppersStay ==
    ASSUME Types, NEW place, Tree(place), Grows(place), NEW p \in Pages
    PROVE  /\ Present(E1(p)) =>
                /\ E1(p)'.addr = E1(p).addr /\ E1(p).flags \subseteq E1(p)'.flags
           /\ Present(E1(p)) /\ Present(E2(p)) =>
                /\ E2(p)'.addr = E2(p).addr /\ E2(p).flags \subseteq E2(p)'.flags
           /\ Present(E1(p)) /\ Present(E2(p)) /\ Present(E3(p)) =>
                /\ E3(p)'.addr = E3(p).addr /\ E3(p).flags \subseteq E3(p)'.flags
<1>0. p[1] \in Index /\ p[2] \in Index /\ p[3] \in Index
  BY TableNumbers
<1>1. Present(E1(p)) =>
        /\ E1(p)'.addr = E1(p).addr /\ E1(p).flags \subseteq E1(p)'.flags
  BY <1>0, WalkPlaces DEF Grows, OnPath, E1
<1>2. Present(E1(p)) /\ Present(E2(p)) =>
        /\ E2(p)'.addr = E2(p).addr /\ E2(p).flags \subseteq E2(p)'.flags
  BY <1>0, <1>1, WalkPlaces DEF Grows, OnPath, E2
<1>3. Present(E1(p)) /\ Present(E2(p)) /\ Present(E3(p)) =>
        /\ E3(p)'.addr = E3(p).addr /\ E3(p).flags \subseteq E3(p)'.flags
  BY <1>0, <1>2, WalkPlaces DEF Grows, OnPath, E3
<1> QED
  BY <1>1, <1>2, <1>3

(* What call a was led by is still there, for a call that does not move.   *)
LEMMA StillLed ==
    ASSUME Types, NEW place, Tree(place), Grows(place),
           NEW a \in Actors, op[a] # Idle,
           op'[a].req = op[a].req, op'[a].table = op[a].table, op'[a].level = op[a].level
    PROVE  Led(a)'
<1>1. PICK p \in Pages : p = op[a].req.page
  BY IdleOrOp, OpParts
<1>2. "present" \in op[a].req.flags /\ Led(a) /\ op[a].level \in 1 .. 4
  BY IdleOrOp, OpParts DEF Tree, CallInv
<1>3. /\ op[a].level > 1 => Present(E1(p))
      /\ op[a].level > 2 => Present(E1(p)) /\ Present(E2(p))
      /\ op[a].level > 3 => Present(E1(p)) /\ Present(E2(p)) /\ Present(E3(p))
  BY <1>1, <1>2 DEF Led, Present
<1>4. /\ op[a].level > 1 => E1(p)'.addr = E1(p).addr /\ op[a].req.flags \subseteq E1(p)'.flags
      /\ op[a].level > 2 => E2(p)'.addr = E2(p).addr /\ op[a].req.flags \subseteq E2(p)'.flags
      /\ op[a].level > 3 => E3(p)'.addr = E3(p).addr /\ op[a].req.flags \subseteq E3(p)'.flags
  BY <1>1, <1>2, <1>3, UppersStay DEF Led
<1>5. /\ op[a].level = 1 => op[a].table = Pml4
      /\ op[a].level = 2 => op[a].table = E1(p).addr
      /\ op[a].level = 3 => op[a].table = E2(p).addr
      /\ op[a].level = 4 => op[a].table = E3(p).addr
  BY <1>1, <1>2 DEF Led
<1>6. /\ op[a].level = 2 => op[a].table = E1(p)'.addr
      /\ op[a].level = 3 => op[a].table = E2(p)'.addr
      /\ op[a].level = 4 => op[a].table = E3(p)'.addr
  BY <1>2, <1>4, <1>5
<1>7. op'[a].req.page = p /\ op'[a].req.flags = op[a].req.flags
  BY <1>1
<1> QED
  BY <1>4, <1>5, <1>6, <1>7 DEF Led

(* A step that links at most empty tables, and leaves the last level.      *)
LinksEmpty(place) ==
    \A t \in 1 .. tables, i \in Index :
        ~Fresh(t) =>
            /\ place[t].level = 4 => entry'[t][i] = entry[t][i]
            /\ Present(entry'[t][i]) /\ ~Present(entry[t][i]) =>
                  \A j \in Index : ~Present(entry'[entry'[t][i].addr][j])

LEMMA TranslateStays ==
    ASSUME Types, NEW place, Tree(place), Grows(place), LinksEmpty(place), NEW p \in Pages
    PROVE  Translate(p)' = Translate(p) /\ (Full(p)' => Full(p))
<1>0. p[1] \in Index /\ p[2] \in Index /\ p[3] \in Index /\ p[4] \in Index
  BY TableNumbers
<1>1. Full(p)' => Full(p)
  <2> SUFFICES ASSUME Full(p)' PROVE Full(p)
    OBVIOUS
  <2>1. /\ Present(entry'[Pml4][p[1]])
        /\ E2(p)' = entry'[E1(p)'.addr][p[2]] /\ Present(E2(p)')
        /\ E3(p)' = entry'[E2(p)'.addr][p[3]] /\ Present(E3(p)')
        /\ E4(p)' = entry'[E3(p)'.addr][p[4]] /\ Present(E4(p)')
        /\ E1(p)' = entry'[Pml4][p[1]]
    BY Zenon DEF Full, E1, E2, E3, E4, Present
  <2>2. Present(E1(p))
    <3> SUFFICES ASSUME ~Present(E1(p)) PROVE FALSE
      OBVIOUS
    <3>1. \A j \in Index : ~Present(entry'[entry'[Pml4][p[1]].addr][j])
      BY <1>0, <2>1, WalkPlaces, Zenon DEF LinksEmpty, OnPath, E1
    <3> QED
      BY <1>0, <2>1, <3>1, Zenon
  <2>3. Present(E2(p))
    <3> SUFFICES ASSUME ~Present(E2(p)) PROVE FALSE
      OBVIOUS
    <3>1. E1(p)'.addr = E1(p).addr /\ OnPath(place, E1(p).addr, p, 2)
      BY <2>2, UppersStay, WalkPlaces
    <3>2. \A j \in Index : ~Present(entry'[E2(p)'.addr][j])
      BY <1>0, <2>1, <3>1, Zenon DEF LinksEmpty, OnPath, E2
    <3> QED
      BY <1>0, <2>1, <3>2, Zenon
  <2>4. Present(E3(p))
    <3> SUFFICES ASSUME ~Present(E3(p)) PROVE FALSE
      OBVIOUS
    <3>1. E2(p)'.addr = E2(p).addr /\ OnPath(place, E2(p).addr, p, 3)
      BY <2>2, <2>3, UppersStay, WalkPlaces
    <3>2. \A j \in Index : ~Present(entry'[E3(p)'.addr][j])
      BY <1>0, <2>1, <3>1, Zenon DEF LinksEmpty, OnPath, E3
    <3> QED
      BY <1>0, <2>1, <3>2, Zenon
  <2>5. E3(p)'.addr = E3(p).addr /\ OnPath(place, E3(p).addr, p, 4)
    BY <2>2, <2>3, <2>4, UppersStay, WalkPlaces
  <2>6. E4(p)' = E4(p)
    <3>1. PICK t : t = E3(p).addr /\ t = E3(p)'.addr
      BY <2>5
    <3>2. entry'[t][p[4]] = entry[t][p[4]]
      BY <1>0, <2>5, <3>1 DEF LinksEmpty, OnPath
    <3> QED
      BY <2>1, <3>1, <3>2, Zenon DEF E4
  <2> QED
    BY <2>1, <2>2, <2>3, <2>4, <2>6, Zenon DEF Full
<1>2. CASE ~Full(p)
  <2>1. Translate(p) = Zero
    BY <1>2, TranslateIs DEF Walked
  <2>2. Translate(p)' = Zero
    <3>1. ~Full(p)'
      BY <1>1, <1>2
    <3>2. Translate(p)' = Walked(p)'
      BY TranslateIsNext
    <3> QED
      BY <3>1, <3>2 DEF Walked, Zero
  <2> QED
    BY <1>1, <2>1, <2>2
<1>3. CASE Full(p)
  <2>1. /\ Present(E1(p)) /\ Present(E2(p)) /\ Present(E3(p)) /\ Present(E4(p))
    BY <1>3 DEF Full
  <2>2. /\ E3(p)'.addr = E3(p).addr /\ OnPath(place, E3(p).addr, p, 4)
        /\ E1(p).flags \subseteq E1(p)'.flags
        /\ E2(p).flags \subseteq E2(p)'.flags
        /\ E3(p).flags \subseteq E3(p)'.flags
    BY <2>1, UppersStay, WalkPlaces
  <2>3. E4(p)' = E4(p)
    BY <1>0, <2>2 DEF LinksEmpty, OnPath, E4
  <2>4. Full(p)'
    BY <2>1, <2>2, <2>3 DEF Full, Present
  <2>5. Translate(p)' = [frame |-> E4(p)'.addr,
                         write |-> /\ "write" \in E1(p)'.flags /\ "write" \in E2(p)'.flags
                                   /\ "write" \in E3(p)'.flags /\ "write" \in E4(p)'.flags]
    BY <2>4, TranslateIsNext DEF Walked
  <2>6. Translate(p) = [frame |-> E4(p).addr,
                        write |-> /\ "write" \in E1(p).flags /\ "write" \in E2(p).flags
                                  /\ "write" \in E3(p).flags /\ "write" \in E4(p).flags]
    BY <1>3, TranslateIs DEF Walked
  <2>7. "write" \in E4(p).flags =>
           "write" \in E1(p).flags /\ "write" \in E2(p).flags /\ "write" \in E3(p).flags
    BY <1>3 DEF Tree, WriteInv
  <2>8. (/\ "write" \in E1(p)'.flags /\ "write" \in E2(p)'.flags
         /\ "write" \in E3(p)'.flags /\ "write" \in E4(p)'.flags)
        = (/\ "write" \in E1(p).flags /\ "write" \in E2(p).flags
           /\ "write" \in E3(p).flags /\ "write" \in E4(p).flags)
    BY <2>2, <2>3, <2>7
  <2> QED
    BY <1>3, <2>3, <2>5, <2>6, <2>8
<1> QED
  BY <1>2, <1>3

-----------------------------------------------------------------------------
(* What a step of call a leaves alone of the other calls and their tables; *)
(* place goes over into pl, which has the same places for the old tables.  *)
OthersStay(a) ==
    \A b \in Actors \ {a} : op'[b] = op[b] /\ (Relies(b) => Entry(b)' = Entry(b))

Around(place, pl, a) ==
    /\ OthersStay(a)
    /\ tables' \in Nat /\ tables <= tables'
    /\ \A t \in 1 .. tables : pl[t] = place[t]
    /\ \A t \in 1 .. tables : Fresh(t)' => Fresh(t)
    /\ \A t \in 1 .. tables, i \in Index :
          Fresh(t) /\ Present(entry'[t][i]) => entry'[t][i] = entry[t][i]
    /\ Grows(place)

LEMMA OthersFresh ==
    ASSUME NEW a \in Actors, OthersStay(a), NEW b \in Actors \ {a}
    PROVE  /\ HasFresh(b)' <=> HasFresh(b)
           /\ HasFresh(b) => Entry(b)' = Entry(b)
           /\ op'[b].pc = "clear" <=> op[b].pc = "clear"
           /\ Relies(b) => Entry(b)' = Entry(b)
<1>1. op'[b] = op[b] /\ (Relies(b) => Entry(b)' = Entry(b))
  BY DEF OthersStay
<1>2. (op[b].pc = "clear" \/ op[b].pc = "or") => Relies(b)
  BY DEF Relies
<1> QED
  BY <1>1, <1>2 DEF HasFresh, Present

(* The fresh tables, when call a has none that it had not before.          *)
LEMMA FreshAfter ==
    ASSUME NEW a \in Actors, OthersStay(a),
           HasFresh(a)' => HasFresh(a) /\ Entry(a)'.addr = Entry(a).addr,
           NEW t
    PROVE  Fresh(t)' => Fresh(t)
<1> SUFFICES ASSUME NEW b \in Actors, HasFresh(b)', Entry(b)'.addr = t
             PROVE  \E c \in Actors : HasFresh(c) /\ Entry(c).addr = t
  BY DEF Fresh
<1>1. CASE b = a
  BY <1>1
<1>2. CASE b # a
  BY <1>2, OthersFresh
<1> QED
  BY <1>1, <1>2

LEMMA UnclearedAfter ==
    ASSUME NEW a \in Actors, OthersStay(a), NEW t, Uncleared(t),
           op[a].pc = "clear" => Entry(a).addr # t
    PROVE  Uncleared(t)'
<1>1. PICK b \in Actors : op[b].pc = "clear" /\ Entry(b).addr = t
  BY DEF Uncleared
<1>2. b # a
  BY <1>1
<1>3. op'[b].pc = "clear" /\ Entry(b)'.addr = t
  BY <1>1, <1>2, OthersFresh DEF Relies
<1> QED
  BY <1>3 DEF Uncleared

LEMMA OtherCalls ==
    ASSUME Types, NEW place, Tree(place), NEW pl, NEW a \in Actors, Around(place, pl, a),
           NEW b \in Actors \ {a}
    PROVE  CallInv(pl, b)'
<1> SUFFICES ASSUME op'[b] # Idle PROVE CallInv(pl, b)'
  BY DEF CallInv
<1>1. op'[b] = op[b] /\ op[b] # Idle
  BY DEF Around, OthersStay
<1>2. CallInv(place, b)
  BY DEF Tree
<1>3. PICK t : t = op[b].table
  OBVIOUS
<1>4. t \in 1 .. tables /\ ~Fresh(t) /\ tables \in Nat
  BY <1>1, <1>2, <1>3, TableNumbers DEF CallInv
<1>5. t \in 1 .. tables' /\ ~Fresh(t)' /\ pl[t] = place[t]
  BY <1>4 DEF Around
<1>6. ~Fresh(op[b].table)'
  BY <1>1, <1>3, <1>5 DEF Fresh
<1>7. Led(b)'
  BY <1>1, StillLed DEF Around
<1> QED
  BY <1>1, <1>2, <1>3, <1>5, <1>6, <1>7 DEF CallInv

(* What call a has allocated and not linked is what it had before, or new. *)
OwnFresh(a) ==
    HasFresh(a)' => \/ HasFresh(a) /\ Entry(a)'.addr = Entry(a).addr
                    \/ Entry(a)'.addr = tables + 1

LEMMA NoneShared ==
    ASSUME Types, NEW place, Tree(place), NEW a \in Actors, OthersStay(a), OwnFresh(a),
           NEW b \in Actors, NEW c \in Actors,
           HasFresh(b)', HasFresh(c)', Entry(b)'.addr = Entry(c)'.addr
    PROVE  b = c
<1>0. \A d \in Actors : HasFresh(d) => Entry(d).addr \in 2 .. tables
  BY DEF Tree, FreshInv
<1>1. \A d \in Actors : d # a /\ HasFresh(d)' => HasFresh(d) /\ Entry(d)'.addr = Entry(d).addr
  BY OthersFresh
<1>2. tables \in Nat /\ tables + 1 \notin 2 .. tables
  BY TableNumbers
<1>3. HasFresh(b) /\ HasFresh(c) /\ Entry(b).addr = Entry(c).addr => b = c
  BY DEF Tree, FreshInv
<1>4. CASE b # a /\ c # a
  BY <1>1, <1>3, <1>4
<1>5. CASE b = a /\ c # a
  BY <1>0, <1>1, <1>2, <1>3, <1>5 DEF OwnFresh
<1>6. CASE b # a /\ c = a
  BY <1>0, <1>1, <1>2, <1>3, <1>6 DEF OwnFresh
<1> QED
  BY <1>4, <1>5, <1>6

LEMMA OtherFreshTables ==
    ASSUME Types, NEW place, Tree(place), NEW pl, NEW a \in Actors, Around(place, pl, a),
           OwnFresh(a), NEW b \in Actors \ {a}
    PROVE  FreshInv(pl, b)'
<1>1. op'[b] = op[b] /\ FreshInv(place, b) /\ OthersStay(a)
  BY DEF Around, OthersStay, Tree
<1>2. tables \in Nat /\ tables' \in Nat /\ tables <= tables'
  BY TableNumbers DEF Around
<1>3. op'[b].pc \in {"store", "clear"} => ~Present(Entry(b)')
  BY <1>1, OthersFresh DEF FreshInv, Relies
<1>4. ASSUME HasFresh(b)'
      PROVE  /\ Entry(b)'.addr \in 2 .. tables'
             /\ Below(pl, Entry(b)'.addr, op'[b].table, op'[b].req.page[op'[b].level])
             /\ op'[b].pc = "or" => \A i \in Index : ~Present(entry'[Entry(b)'.addr][i])
  <2>1. HasFresh(b) /\ Entry(b)' = Entry(b)
    BY <1>1, <1>4, OthersFresh
  <2>2. PICK u : u = Entry(b).addr
    OBVIOUS
  <2>3. u \in 2 .. tables /\ Below(place, u, op[b].table, op[b].req.page[op[b].level])
    BY <1>1, <2>1, <2>2 DEF FreshInv
  <2>4. u \in 1 .. tables /\ u \in 2 .. tables' /\ Fresh(u)
    BY <1>2, <2>1, <2>2, <2>3 DEF Fresh
  <2>5. op[b].table \in 1 .. tables
    <3>1. op[b].pc # "idle"
      BY <2>1 DEF HasFresh
    <3> QED
      BY <3>1, OpParts, TableNumbers DEF Tables, Pml4
  <2>6. pl[u] = place[u] /\ pl[op[b].table] = place[op[b].table]
    BY <2>4, <2>5 DEF Around
  <2>7. Below(pl, u, op[b].table, op[b].req.page[op[b].level])
    BY <2>3, <2>6 DEF Below
  <2>8. ASSUME op[b].pc = "or", NEW i \in Index PROVE ~Present(entry'[u][i])
    <3>1. ~Present(entry[u][i])
      BY <1>1, <2>1, <2>2, <2>8 DEF FreshInv
    <3>2. Present(entry'[u][i]) => entry'[u][i] = entry[u][i]
      BY <2>4 DEF Around
    <3> QED
      BY <3>1, <3>2
  <2> QED
    BY <1>1, <2>1, <2>2, <2>4, <2>7, <2>8
<1>5. \A c \in Actors : HasFresh(b)' /\ HasFresh(c)' /\ Entry(b)'.addr = Entry(c)'.addr => b = c
  BY <1>1, NoneShared
<1> QED
  BY <1>3, <1>4, <1>5 DEF FreshInv

(* Around the step of call a, what is left to show is about a, the tables  *)
(* of the upper levels, and the pages that may be written.                 *)
LEMMA TreeAfter ==
    ASSUME Types, NEW place, Tree(place), NEW pl, NEW a \in Actors, Around(place, pl, a),
           OwnFresh(a), TablesInv(pl)', CallInv(pl, a)', WriteInv',
           op'[a].pc \in {"store", "clear"} => ~Present(Entry(a)'),
           HasFresh(a)' =>
              /\ Entry(a)'.addr \in 2 .. tables'
              /\ Below(pl, Entry(a)'.addr, op'[a].table, op'[a].req.page[op'[a].level])
              /\ op'[a].pc = "or" => \A i \in Index : ~Present(entry'[Entry(a)'.addr][i])
    PROVE  Tree(pl)'
<1>1. OthersStay(a)
  BY DEF Around
<1>2. FreshInv(pl, a)'
  <2>1. \A b \in Actors :
            HasFresh(a)' /\ HasFresh(b)' /\ Entry(a)'.addr = Entry(b)'.addr => a = b
    BY <1>1, NoneShared
  <2> QED
    BY <2>1 DEF FreshInv
<1>3. ASSUME NEW b \in Actors PROVE CallInv(pl, b)' /\ FreshInv(pl, b)'
  <2>1. CASE b = a
    BY <1>2, <2>1
  <2>2. CASE b # a
    BY <2>2, OtherCalls, OtherFreshTables, SMTT(20)
  <2> QED
    BY <2>1, <2>2
<1> QED
  BY <1>3 DEF Tree

-----------------------------------------------------------------------------
(* The entry a call is about.                                              *)
LEMMA SlotIs ==
    ASSUME Types, NEW place, Tree(place), NEW a \in Actors,
           op[a].pc \in {"test", "store", "clear", "or"}
    PROVE  /\ op[a].table \in 1 .. tables /\ op[a].table \in Tables
           /\ op[a].level \in 1 .. 3 /\ op[a].req.page[op[a].level] \in Index
           /\ Entry(a) = entry[op[a].table][op[a].req.page[op[a].level]]
           /\ Entry(a) \in Entries /\ Entry(a).flags \in SUBSET Flags
           /\ op[a] # Idle /\ CallInv(place, a) /\ FreshInv(place, a)
<1>1. op[a] # Idle /\ op[a].level \in 1 .. 4 /\ op[a].table \in Tables
      /\ op[a].req.page[op[a].level] \in Index
  BY OpParts
<1>2. CallInv(place, a) /\ FreshInv(place, a)
  BY DEF Tree
<1>3. op[a].table \in 1 .. tables /\ op[a].level <= 3
  BY <1>1, <1>2 DEF CallInv
<1>4. Entry(a) = entry[op[a].table][op[a].req.page[op[a].level]]
  BY SMTT(20) DEF Entry, Slot
<1>5. Entry(a) \in Entries /\ Entry(a).flags \in SUBSET Flags
  BY <1>1, <1>4, TableNumbers
<1> QED
  BY <1>1, <1>2, <1>3, <1>4, <1>5

(* A step that changes the last level at most keeps the pages that may be  *)
(* written; one that links empty tables does, too.                         *)
LEMMA WriteAfter ==
    ASSUME Types, NEW place, Tree(place), Grows(place), LinksEmpty(place)
    PROVE  WriteInv'
<1> SUFFICES ASSUME NEW p \in Pages, Full(p)', "write" \in E4(p)'.flags
             PROVE  "write" \in E1(p)'.flags /\ "write" \in E2(p)'.flags /\ "write" \in E3(p)'.flags
  BY DEF WriteInv
<1>1. Full(p)
  BY TranslateStays
<1>2. Present(E1(p)) /\ Present(E2(p)) /\ Present(E3(p))
  BY <1>1 DEF Full
<1>3. /\ E3(p)'.addr = E3(p).addr /\ OnPath(place, E3(p).addr, p, 4)
      /\ E1(p).flags \subseteq E1(p)'.flags
      /\ E2(p).flags \subseteq E2(p)'.flags
      /\ E3(p).flags \subseteq E3(p)'.flags
  BY <1>2, UppersStay, WalkPlaces
<1>4. PICK t : t = E3(p).addr /\ t = E3(p)'.addr
  BY <1>3
<1>5. p[4] \in Index
  BY TableNumbers
<1>6. entry'[t][p[4]] = entry[t][p[4]]
  BY <1>3, <1>4, <1>5 DEF LinksEmpty, OnPath
<1>7. E4(p)' = E4(p)
  BY <1>4, <1>6 DEF E4
<1> QED
  BY <1>1, <1>3, <1>7 DEF Tree, WriteInv

(* A step that changes no entry.                                           *)
LEMMA QuietStep ==
    ASSUME Types, NEW place, Tree(place), NEW a \in Actors, entry' = entry, tables' = tables,
           \A b \in Actors \ {a} : op'[b] = op[b],
           ~HasFresh(a)', op[a].pc # "clear"
    PROVE  /\ Around(place, place, a) /\ OwnFresh(a)
           /\ TablesInv(place)' /\ WriteInv' /\ Grows(place) /\ LinksEmpty(place)
<1>1. OthersStay(a)
  BY DEF OthersStay, Entry, Slot
<1>2. \A t : Fresh(t)' => Fresh(t)
  BY <1>1, FreshAfter
<1>3. Grows(place) /\ LinksEmpty(place)
  BY DEF Grows, LinksEmpty
<1>4. tables \in Nat
  BY TableNumbers
<1>5. Around(place, place, a)
  BY <1>1, <1>2, <1>3, <1>4 DEF Around
<1>6. TablesInv(place)'
  <2>1. ASSUME NEW t \in 1 .. tables, NEW i \in Index, place[t].level <= 3, ~Uncleared(t)'
        PROVE  /\ entry[t][i].addr \in 0 .. tables
               /\ Present(entry[t][i]) =>
                    /\ entry[t][i].addr \in 1 .. tables
                    /\ ~Fresh(entry[t][i].addr)'
                    /\ Below(place, entry[t][i].addr, t, i)
    <3>1. ~Uncleared(t)
      BY <1>1, <2>1, UnclearedAfter
    <3>2. PICK u : u = entry[t][i].addr
      OBVIOUS
    <3>3. /\ u \in 0 .. tables
          /\ Present(entry[t][i]) => u \in 1 .. tables /\ ~Fresh(u) /\ Below(place, u, t, i)
      BY <2>1, <3>1, <3>2 DEF Tree, TablesInv
    <3>4. Present(entry[t][i]) => ~Fresh(u)'
      BY <1>2, <3>3
    <3>5. ~Fresh(u)' => ~Fresh(entry[t][i].addr)'
      BY <3>2 DEF Fresh
    <3> QED
      BY <3>2, <3>3, <3>4, <3>5
  <2>2. place \in Places /\ place[Pml4].level = 1
    BY DEF Tree, TablesInv
  <2> QED
    BY <2>1, <2>2 DEF TablesInv, Fresh
<1>7. WriteInv'
  BY <1>3, WriteAfter
<1>8. OwnFresh(a)
  BY DEF OwnFresh
<1> QED
  BY <1>3, <1>5, <1>6, <1>7, <1>8

-----------------------------------------------------------------------------
(* The steps of a call, one by one.  What MapPages is asked for.           *)
Asks(req) == req \in Requests /\ ("write" \in req.low => "write" \in req.flags)

LEMMA MapPagesKeeps ==
    ASSUME Types, NEW place, Tree(place), NEW a \in Actors, NEW req, Asks(req), MapPages(a, req)
    PROVE  /\ op' \in [Actors -> {Idle} \cup Ops] /\ \A b \in Actors \ {a} : op'[b] = op[b]
           /\ op[a].pc = "idle" /\ op'[a].pc = "test" /\ op'[a].table = Pml4
           /\ op'[a].req.page = req.page /\ op'[a].req.frame = req.frame
           /\ op'[a].req.page \in Pages /\ op'[a].req.frame \in Frames
           /\ Tree(place)' /\ Grows(place) /\ LinksEmpty(place)
<1> DEFINE new == [pc |-> "test", level |-> 1, table |-> Pml4,
                   req |-> [req EXCEPT !.flags = @ \cup {"present"}]]
<1>0. /\ op[a].pc = "idle" /\ op' = [op EXCEPT ![a] = new] /\ op \in [Actors -> {Idle} \cup Ops]
      /\ entry' = entry /\ tables' = tables
  BY DEF MapPages, Goes, Types
<1>1. PICK r : r = [req EXCEPT !.flags = @ \cup {"present"}]
  OBVIOUS
<1>2. /\ r \in Requests /\ r.page = req.page /\ r.low = req.low /\ r.frame = req.frame
      /\ r.flags = req.flags \cup {"present"}
  BY <1>1 DEF Asks, Requests, Flags
<1>3. new \in Ops /\ new.pc = "test" /\ new.level = 1 /\ new.table = Pml4 /\ new.req = r
  <2>1. new = [pc |-> "test", level |-> 1, table |-> Pml4, req |-> r]
    BY <1>1
  <2>2. Pml4 \in Tables
    BY TableNumbers
  <2> HIDE DEF new
  <2> QED
    BY <1>2, <2>1, <2>2 DEF Ops
<1> HIDE DEF new
<1>4. op' \in [Actors -> {Idle} \cup Ops] /\ op'[a] = new /\ \A b \in Actors \ {a} : op'[b] = op[b]
  BY <1>0, <1>3
<1>5. ~HasFresh(a)' /\ op[a].pc # "clear"
  BY <1>0, <1>3, <1>4 DEF HasFresh
<1>6. /\ Around(place, place, a) /\ OwnFresh(a)
      /\ TablesInv(place)' /\ WriteInv' /\ Grows(place) /\ LinksEmpty(place)
  BY <1>0, <1>4, <1>5, QuietStep
<1>7. CallInv(place, a)'
  <2>1. ~Fresh(Pml4)
    BY RootOnPath DEF OnPath
  <2>2. ~Fresh(Pml4)'
    BY <1>6, <2>1, TableNumbers DEF Around
  <2>3. ~Fresh(op[a].table)'
    BY <1>3, <1>4, <2>2 DEF Fresh
  <2>4. op'[a].table \in 1 .. tables' /\ place[op'[a].table].level = 1
    BY <1>0, <1>3, <1>4, TableNumbers DEF Tree, TablesInv
  <2>5. Led(a)'
    BY <1>3, <1>4 DEF Led
  <2>6. Alike(op'[a].req.page, place[op'[a].table].page, op'[a].level)
    BY <1>3, <1>4 DEF Alike
  <2> QED
    BY <1>2, <1>3, <1>4, <2>3, <2>4, <2>5, <2>6 DEF CallInv, Asks
<1>8. Tree(place)'
  BY <1>3, <1>4, <1>5, <1>6, <1>7, TreeAfter
<1>9. r.page \in Pages /\ r.frame \in Frames
  BY <1>2 DEF Requests
<1> QED
  BY <1>0, <1>2, <1>3, <1>4, <1>6, <1>8, <1>9

LEMMA TestKeeps ==
    ASSUME Types, NEW place, Tree(place), NEW a \in Actors, Test(a)
    PROVE  /\ op' \in [Actors -> {Idle} \cup Ops] /\ \A b \in Actors \ {a} : op'[b] = op[b]
           /\ op[a].pc = "test" /\ op'[a].pc \in {"or", "store"}
           /\ op'[a].table = op[a].table /\ op'[a].req = op[a].req
           /\ Tree(place)' /\ Grows(place) /\ LinksEmpty(place)
<1>0. /\ op[a].pc = "test" /\ entry' = entry /\ tables' = tables
      /\ op' = [op EXCEPT ![a].pc = IF Present(Entry(a)) THEN "or" ELSE "store"]
      /\ op \in [Actors -> {Idle} \cup Ops]
  BY DEF Test, Goes, Types, Present
<1>1. /\ op[a] \in Ops /\ op[a] # Idle
      /\ CallInv(place, a)
  BY <1>0, OpParts, SlotIs
<1>2. PICK pc : pc = IF Present(Entry(a)) THEN "or" ELSE "store"
  OBVIOUS
<1>3. PICK new : new = [op[a] EXCEPT !.pc = pc]
  OBVIOUS
<1>4. pc \in {"or", "store"} /\ (pc = "or" <=> Present(Entry(a)))
  BY <1>2
<1>5. /\ new \in Ops /\ new.pc = pc /\ new.level = op[a].level /\ new.table = op[a].table
      /\ new.req = op[a].req
  BY <1>1, <1>3, <1>4 DEF Ops
<1>6. op' = [op EXCEPT ![a] = new]
  BY <1>0, <1>2, <1>3
<1>7. op' \in [Actors -> {Idle} \cup Ops] /\ op'[a] = new /\ \A b \in Actors \ {a} : op'[b] = op[b]
  BY <1>0, <1>5, <1>6
<1>8. Entry(a)' = Entry(a)
  BY <1>0, <1>5, <1>7 DEF Entry, Slot
<1>9. ~HasFresh(a)' /\ op[a].pc # "clear"
  BY <1>0, <1>4, <1>5, <1>7, <1>8 DEF HasFresh
<1>10. /\ Around(place, place, a) /\ OwnFresh(a)
       /\ TablesInv(place)' /\ WriteInv' /\ Grows(place) /\ LinksEmpty(place)
  BY <1>0, <1>7, <1>9, QuietStep
<1>11. CallInv(place, a)'
  <2>1. PICK t : t = op[a].table
    OBVIOUS
  <2>2. t \in 1 .. tables /\ ~Fresh(t)
    BY <1>1, <2>1 DEF CallInv, Fresh
  <2>3. ~Fresh(t)'
    BY <1>10, <2>2 DEF Around
  <2>4. ~Fresh(op[a].table)'
    BY <1>5, <1>7, <2>1, <2>3 DEF Fresh
  <2>5. Led(a)'
    BY <1>1, <1>5, <1>7, <1>10, StillLed
  <2> QED
    BY <1>0, <1>1, <1>4, <1>5, <1>7, <2>4, <2>5 DEF CallInv
<1>12. op'[a].pc \in {"store", "clear"} => ~Present(Entry(a)')
  BY <1>4, <1>5, <1>7, <1>8
<1>13. Tree(place)'
  BY <1>9, <1>10, <1>11, <1>12, TreeAfter
<1> QED
  BY <1>0, <1>4, <1>5, <1>7, <1>10, <1>13

LEMMA FlushKeeps ==
    ASSUME Types, NEW place, Tree(place), NEW a \in Actors, Flush(a)
    PROVE  /\ op' \in [Actors -> {Idle} \cup Ops] /\ \A b \in Actors \ {a} : op'[b] = op[b]
           /\ op[a].pc = "flush" /\ op'[a] = Idle
           /\ Tree(place)' /\ Grows(place) /\ LinksEmpty(place)
<1>0. /\ op[a].pc = "flush" /\ entry' = entry /\ tables' = tables
      /\ op' = [op EXCEPT ![a] = Idle] /\ op \in [Actors -> {Idle} \cup Ops]
  BY DEF Flush, Goes, Types
<1>1. op' \in [Actors -> {Idle} \cup Ops] /\ op'[a] = Idle /\ \A b \in Actors \ {a} : op'[b] = op[b]
  BY <1>0
<1>2. Idle.pc = "idle"
  BY DEF Idle
<1>3. ~HasFresh(a)' /\ op[a].pc # "clear"
  BY <1>0, <1>1, <1>2 DEF HasFresh
<1>4. /\ Around(place, place, a) /\ OwnFresh(a) /\ TablesInv(place)' /\ WriteInv'
      /\ Grows(place) /\ LinksEmpty(place)
  BY <1>0, <1>1, <1>3, QuietStep
<1>5. CallInv(place, a)'
  BY <1>1 DEF CallInv
<1>6. Tree(place)'
  BY <1>1, <1>2, <1>3, <1>4, <1>5, TreeAfter
<1> QED
  BY <1>0, <1>1, <1>4, <1>6

-----------------------------------------------------------------------------
(* The steps that write: what they leave of the other calls, and what the  *)
(* entries they write have to be.                                          *)
LEMMA WritesOne ==
    ASSUME Types, NEW place, Tree(place), NEW a \in Actors, op[a].pc \in {"store", "or"},
           NEW e \in Entries, Writes(a, e)
    PROVE  /\ entry' \in [Tables -> [Index -> Entries]]
           /\ entry'[op[a].table][op[a].req.page[op[a].level]] = e
           /\ \A t \in Tables, i \in Index :
                 t # op[a].table \/ i # op[a].req.page[op[a].level] =>
                     entry'[t][i] = entry[t][i]
           /\ ~raced' /\ (\A b \in Actors \ {a} : op'[b] = op[b]) => OthersStay(a)
<1>1. PICK t \in Tables, i \in Index : t = op[a].table /\ i = op[a].req.page[op[a].level]
  BY SlotIs, SMTT(20)
<1>2. /\ entry' = [entry EXCEPT ![t][i] = e] /\ entry \in [Tables -> [Index -> Entries]]
      /\ Slot(a) = <<t, i>> /\ Entry(a) = entry[t][i]
  BY <1>1, SlotIs DEF Writes, Slot, Types
<1>3. /\ entry' \in [Tables -> [Index -> Entries]] /\ entry'[t][i] = e
      /\ \A x \in Tables, j \in Index : x # t \/ j # i => entry'[x][j] = entry[x][j]
  BY <1>2
<1>4. ASSUME ~raced', \A b \in Actors \ {a} : op'[b] = op[b], NEW b \in Actors \ {a}, Relies(b)
      PROVE  Entry(b)' = Entry(b)
  <2>1. PICK x \in Tables, j \in Index : x = op[b].table /\ j = op[b].req.page[op[b].level]
    BY <1>4, SlotIs DEF Relies
  <2>2. Slot(b) = <<x, j>> /\ Entry(b) = entry[x][j]
    BY <2>1 DEF Entry, Slot
  <2>3. Entry(b)' = entry'[x][j]
    BY <1>4, <2>1 DEF Entry, Slot
  <2>4. CASE x # t \/ j # i
    BY <1>3, <2>2, <2>3, <2>4
  <2>5. CASE x = t /\ j = i
    <3>1. e = Entry(a)
      BY <1>2, <1>4, <2>2, <2>5 DEF Writes
    <3> QED
      BY <1>2, <1>3, <2>2, <2>3, <2>5, <3>1
  <2> QED
    BY <2>4, <2>5
<1> QED
  BY <1>1, <1>3, <1>4 DEF OthersStay

LEMMA TablesAfter ==
    ASSUME Types, NEW place, Tree(place), NEW pl \in Places, NEW a \in Actors,
           Around(place, pl, a), pl[Pml4].level = 1,
           \A t \in 1 .. tables', i \in Index :
              pl[t].level <= 3 /\ ~Uncleared(t)' =>
                 \/ t \in 1 .. tables /\ ~Uncleared(t) /\ entry'[t][i] = entry[t][i]
                 \/ ~Present(entry'[t][i]) /\ entry'[t][i].addr \in 0 .. tables'
                 \/ \E u \in 1 .. tables' : entry'[t][i].addr = u /\ ~Fresh(u)' /\ Below(pl, u, t, i)
    PROVE  TablesInv(pl)'
<1> SUFFICES ASSUME NEW t \in 1 .. tables', NEW i \in Index, pl[t].level <= 3, ~Uncleared(t)'
             PROVE  /\ entry'[t][i].addr \in 0 .. tables'
                    /\ Present(entry'[t][i]) =>
                          \E u \in 1 .. tables' :
                              entry'[t][i].addr = u /\ ~Fresh(u)' /\ Below(pl, u, t, i)
  <2>1. ASSUME NEW t \in 1 .. tables', NEW i \in Index,
               Present(entry'[t][i]),
               NEW u \in 1 .. tables', entry'[t][i].addr = u, ~Fresh(u)', Below(pl, u, t, i)
        PROVE  /\ entry'[t][i].addr \in 1 .. tables'
               /\ ~Fresh(entry[t][i].addr)'
               /\ Below(pl, entry'[t][i].addr, t, i)
    BY <2>1 DEF Fresh
  <2> QED
    BY <2>1 DEF TablesInv, Present
<1>1. tables \in Nat /\ tables' \in Nat /\ tables <= tables'
  BY TableNumbers DEF Around
<1>2. CASE t \in 1 .. tables /\ ~Uncleared(t) /\ entry'[t][i] = entry[t][i]
  <2>1. PICK u : u = entry[t][i].addr
    OBVIOUS
  <2>2. pl[t] = place[t]
    BY <1>2 DEF Around
  <2>3. /\ u \in 0 .. tables
        /\ Present(entry[t][i]) => u \in 1 .. tables /\ ~Fresh(u) /\ Below(place, u, t, i)
    BY <1>2, <2>1, <2>2 DEF Tree, TablesInv
  <2>4. Present(entry[t][i]) => u \in 1 .. tables' /\ ~Fresh(u)' /\ Below(pl, u, t, i)
    <3> SUFFICES ASSUME Present(entry[t][i])
                 PROVE  u \in 1 .. tables' /\ ~Fresh(u)' /\ Below(pl, u, t, i)
      OBVIOUS
    <3>1. u \in 1 .. tables /\ ~Fresh(u) /\ Below(place, u, t, i)
      BY <2>3
    <3>2. pl[u] = place[u] /\ ~Fresh(u)'
      BY <3>1 DEF Around
    <3> QED
      BY <1>1, <2>2, <3>1, <3>2 DEF Below
  <2> QED
    BY <1>1, <1>2, <2>1, <2>3, <2>4
<1>3. CASE ~Present(entry'[t][i]) /\ entry'[t][i].addr \in 0 .. tables'
  BY <1>3
<1>4. CASE \E u \in 1 .. tables' : entry'[t][i].addr = u /\ ~Fresh(u)' /\ Below(pl, u, t, i)
  BY <1>1, <1>4
<1> QED
  BY <1>2, <1>3, <1>4

-----------------------------------------------------------------------------
(* A new table is placed below the entry it is stored in.                  *)
LEMMA StoreParts ==
    ASSUME Types, NEW place, Tree(place), NEW a \in Actors, Store(a)
    PROVE  /\ op[a].pc = "store" /\ tables' = tables + 1 /\ tables' \in Tables
           /\ [addr |-> tables', flags |-> {}] \in Entries
           /\ Writes(a, [addr |-> tables', flags |-> {}])
           /\ op' \in [Actors -> {Idle} \cup Ops]
           /\ op'[a] \in Ops /\ op'[a] # Idle
           /\ op'[a].pc = "clear" /\ op'[a].table = op[a].table
           /\ op'[a].level = op[a].level /\ op'[a].req = op[a].req
           /\ \A b \in Actors \ {a} : op'[b] = op[b]
<1>0. /\ op[a].pc = "store" /\ tables' = tables + 1 /\ tables < MaxTables
      /\ Writes(a, [addr |-> tables', flags |-> {}])
      /\ op' = [op EXCEPT ![a].pc = "clear"] /\ op \in [Actors -> {Idle} \cup Ops]
  BY DEF Store, Goes, Types
<1>1. op[a] \in Ops /\ op[a] # Idle
  BY <1>0, OpParts
<1>2. PICK new : new = [op[a] EXCEPT !.pc = "clear"]
  OBVIOUS
<1>3. /\ new \in Ops /\ new.pc = "clear" /\ new.level = op[a].level /\ new.table = op[a].table
      /\ new.req = op[a].req
  BY <1>1, <1>2 DEF Ops
<1>4. new # Idle
  <2>1. Idle.pc = "idle"
    BY DEF Idle
  <2> QED
    BY <1>3, <2>1
<1>5. op' = [op EXCEPT ![a] = new]
  BY <1>0, <1>2
<1>6. op' \in [Actors -> {Idle} \cup Ops] /\ op'[a] = new /\ \A b \in Actors \ {a} : op'[b] = op[b]
  BY <1>0, <1>3, <1>5
<1>7. tables' \in Tables
  BY <1>0, TableNumbers, PagingAssumption DEF Tables, Pml4
<1>8. [addr |-> tables', flags |-> {}] \in Entries
  BY <1>7 DEF Entries
<1> QED
  BY <1>0, <1>3, <1>4, <1>6, <1>7, <1>8

LEMMA StoreGrows ==
    ASSUME Types, NEW place, Tree(place), NEW a \in Actors, Store(a)
    PROVE  Grows(place) /\ LinksEmpty(place)
<1> DEFINE e == [addr |-> tables', flags |-> {}]
<1>0. op[a].pc = "store" /\ e \in Entries /\ Writes(a, e)
  BY StoreParts
<1>1. ~Present(e)
  BY DEF Present
<1> HIDE DEF e
<1>2. PICK t \in Tables, i \in Index : t = op[a].table /\ i = op[a].req.page[op[a].level]
  BY <1>0, SlotIs
<1>3. /\ Entry(a) = entry[t][i] /\ op[a].level \in 1 .. 3
      /\ op[a] # Idle /\ CallInv(place, a) /\ FreshInv(place, a)
  BY <1>0, <1>2, SlotIs
<1>4. ~Present(entry[t][i]) /\ place[t].level = op[a].level
  BY <1>0, <1>2, <1>3, Zenon DEF CallInv, FreshInv
<1>5. /\ entry'[t][i] = e
      /\ \A x \in Tables, j \in Index : x # t \/ j # i => entry'[x][j] = entry[x][j]
  BY <1>0, <1>2, WritesOne
<1>6. \A x \in 1 .. tables, j \in Index :
        \/ entry'[x][j] = entry[x][j]
        \/ x = t /\ ~Present(entry'[x][j]) /\ ~Present(entry[x][j])
  BY <1>1, <1>4, <1>5, TableNumbers
<1> QED
  BY <1>3, <1>4, <1>6 DEF Grows, LinksEmpty

LEMMA StoreKeeps ==
    ASSUME Types, NEW place, Tree(place), NEW a \in Actors, Store(a), ~raced'
    PROVE  \E pl : Tree(pl)'
<1> DEFINE e == [addr |-> tables', flags |-> {}]
<1>0. /\ op[a].pc = "store" /\ tables' = tables + 1 /\ tables' \in Tables
      /\ e \in Entries /\ Writes(a, e)
      /\ op'[a] # Idle
      /\ op'[a].pc = "clear" /\ op'[a].table = op[a].table
      /\ op'[a].level = op[a].level /\ op'[a].req = op[a].req
      /\ \A b \in Actors \ {a} : op'[b] = op[b]
  BY StoreParts
<1>1. e.addr = tables' /\ ~Present(e)
  BY DEF Present
<1>2. PICK t \in Tables, i \in Index : t = op[a].table /\ i = op[a].req.page[op[a].level]
  BY <1>0, SlotIs
<1>3. /\ t \in 1 .. tables /\ Entry(a) = entry[t][i]
      /\ op[a] # Idle /\ CallInv(place, a) /\ FreshInv(place, a)
      /\ op[a].level \in 1 .. 3 /\ op[a].req.page \in Pages
      /\ tables \in Nat
  BY <1>0, <1>2, SlotIs, OpParts, TableNumbers
<1>4. ~Present(entry[t][i]) /\ ~Fresh(t) /\ place[t].level = op[a].level
      /\ Alike(op[a].req.page, place[t].page, op[a].level)
  BY <1>0, <1>2, <1>3, Zenon DEF CallInv, FreshInv, Fresh
<1> HIDE DEF e
<1>5. /\ entry'[t][i] = e
      /\ \A x \in Tables, j \in Index : x # t \/ j # i => entry'[x][j] = entry[x][j]
      /\ OthersStay(a)
  BY <1>0, <1>2, WritesOne
<1>6. Entry(a)' = e
  BY <1>0, <1>2, <1>5 DEF Entry, Slot
<1>7. PICK pl :
         /\ pl \in Places /\ pl[Pml4].level = 1
         /\ pl[tables'].level = op[a].level + 1 /\ pl[tables'].page = op[a].req.page
         /\ \A x \in 1 .. tables : pl[x] = place[x]
  <2>1. place \in Places /\ place[Pml4].level = 1
    BY DEF Tree, TablesInv
  <2>2. Pml4 # tables' /\ Pml4 \in Tables /\ \A x \in 1 .. tables : x \in Tables /\ x # tables'
    BY <1>0, TableNumbers
  <2>3. PICK new : new = [level |-> op[a].level + 1, page |-> op[a].req.page]
    OBVIOUS
  <2>4. op[a].level + 1 \in 1 .. 4 /\ op[a].req.page \in Pages \cup {Zero}
    BY <1>3
  <2>5. /\ new \in [level : 1 .. 4, page : Pages \cup {Zero}]
        /\ new.level = op[a].level + 1 /\ new.page = op[a].req.page
    BY <2>3, <2>4
  <2>6. PICK pl : pl = [place EXCEPT ![tables'] = new]
    OBVIOUS
  <2>7. pl \in Places /\ pl[tables'] = new /\ \A x \in Tables : x # tables' => pl[x] = place[x]
    BY <1>0, <2>1, <2>5, <2>6 DEF Places
  <2> QED
    BY <2>1, <2>2, <2>5, <2>7
<1>8. OwnFresh(a)
  BY <1>0, <1>1, <1>6 DEF OwnFresh
<1>9. \A x \in 1 .. tables : Fresh(x)' => Fresh(x)
  <2> SUFFICES ASSUME NEW x \in 1 .. tables, NEW b \in Actors, HasFresh(b)', Entry(b)'.addr = x
               PROVE  Fresh(x)
    BY DEF Fresh
  <2>1. b # a
    BY <1>0, <1>1, <1>3, <1>6
  <2>2. HasFresh(b) /\ Entry(b).addr = x
    BY <1>5, <2>1, OthersFresh
  <2> QED
    BY <2>2 DEF Fresh
<1>10. 1 .. tables \subseteq Tables
  BY TableNumbers
<1>11. Grows(place) /\ LinksEmpty(place)
  BY StoreGrows
<1>12. Around(place, pl, a)
  <2>1. \A x \in 1 .. tables, j \in Index :
            Fresh(x) /\ Present(entry'[x][j]) => entry'[x][j] = entry[x][j]
    BY <1>1, <1>5, <1>10
  <2> QED
    BY <1>0, <1>3, <1>5, <1>7, <1>9, <1>11, <2>1 DEF Around
<1>13. TablesInv(pl)'
  <2>1. ASSUME NEW x \in 1 .. tables', NEW j \in Index, ~Uncleared(x)'
        PROVE  \/ x \in 1 .. tables /\ ~Uncleared(x) /\ entry'[x][j] = entry[x][j]
               \/ ~Present(entry'[x][j]) /\ entry'[x][j].addr \in 0 .. tables'
    <3>1. x # tables'
      BY <1>0, <1>1, <1>6, <2>1 DEF Uncleared
    <3>2. x \in 1 .. tables
      BY <1>0, <1>3, <3>1
    <3>3. ~Uncleared(x)
      BY <1>0, <1>5, <2>1, UnclearedAfter
    <3>4. tables' \in 0 .. tables'
      BY <1>0, <1>3
    <3>5. CASE x = t /\ j = i
      BY <1>1, <1>5, <3>4, <3>5
    <3>6. CASE x # t \/ j # i
      BY <1>5, <1>10, <3>2, <3>3, <3>6
    <3> QED
      BY <3>5, <3>6
  <2> QED
    BY <1>7, <1>12, <2>1, TablesAfter
<1>14. CallInv(pl, a)'
  <2>1. Led(a)'
    BY <1>0, <1>3, <1>11, StillLed
  <2>2. ~Fresh(t)'
    BY <1>3, <1>4, <1>12 DEF Around
  <2>3. ~Fresh(op[a].table)'
    BY <1>0, <1>2, <2>2 DEF Fresh
  <2>4. pl[t] = place[t] /\ t \in 1 .. tables'
    BY <1>0, <1>3, <1>7
  <2> QED
    BY <1>0, <1>2, <1>3, <1>4, <2>1, <2>3, <2>4 DEF CallInv
<1>15. Below(pl, tables', t, i)
  BY <1>2, <1>3, <1>4, <1>7 DEF Below
<1>16. tables' \in 2 .. tables'
  <2>1. \A n \in Nat : n >= 1 => n + 1 \in 2 .. n + 1
    OBVIOUS
  <2>2. tables >= 1
    BY TableNumbers
  <2> QED
    BY <1>0, <1>3, <2>1, <2>2
<1>17. WriteInv'
  BY <1>11, WriteAfter
<1>18. Below(pl, Entry(a)'.addr, op'[a].table, op'[a].req.page[op'[a].level])
  BY <1>0, <1>1, <1>2, <1>6, <1>15
<1>19. op'[a].pc # "or"
  BY <1>0
<1>20. Tree(pl)'
  BY <1>1, <1>6, <1>8, <1>12, <1>13, <1>14, <1>16, <1>17, <1>18, <1>19, TreeAfter
<1> QED
  BY <1>20

(* The memory that is cleared is the call's own.                           *)
LEMMA ClearParts ==
    ASSUME Types, NEW place, Tree(place), NEW a \in Actors, Clear(a)
    PROVE  /\ op[a].pc = "clear" /\ tables' = tables
           /\ entry' \in [Tables -> [Index -> Entries]]
           /\ \A i \in Index : entry'[Entry(a).addr][i] = Zero
           /\ \A t \in Tables : t # Entry(a).addr => entry'[t] = entry[t]
           /\ op' \in [Actors -> {Idle} \cup Ops]
           /\ op'[a] # Idle /\ op'[a].pc = "or" /\ op'[a].table = op[a].table
           /\ op'[a].level = op[a].level /\ op'[a].req = op[a].req
           /\ \A b \in Actors \ {a} : op'[b] = op[b]
<1>0. /\ op[a].pc = "clear" /\ tables' = tables
      /\ entry' = [entry EXCEPT ![Entry(a).addr] = [i \in Index |-> Zero]]
      /\ entry \in [Tables -> [Index -> Entries]]
      /\ op' = [op EXCEPT ![a].pc = "or"] /\ op \in [Actors -> {Idle} \cup Ops]
  BY DEF Clear, Goes, Types
<1>1. op[a] \in Ops /\ op[a] # Idle
  BY <1>0, OpParts
<1>2. PICK new : new = [op[a] EXCEPT !.pc = "or"]
  OBVIOUS
<1>3. /\ new \in Ops /\ new.pc = "or" /\ new.level = op[a].level /\ new.table = op[a].table
      /\ new.req = op[a].req
  BY <1>1, <1>2 DEF Ops
<1>4. new # Idle
  <2>1. Idle.pc = "idle"
    BY DEF Idle
  <2> QED
    BY <1>3, <2>1
<1>5. op' = [op EXCEPT ![a] = new]
  BY <1>0, <1>2
<1>6. op' \in [Actors -> {Idle} \cup Ops] /\ op'[a] = new /\ \A b \in Actors \ {a} : op'[b] = op[b]
  BY <1>0, <1>3, <1>5
<1>7. PICK u \in Tables : u = Entry(a).addr
  BY <1>0, SlotIs, TableNumbers DEF FreshInv, HasFresh, Tables, Pml4
<1>8. Zero \in Entries
  BY DEF Zero, Entries
<1>9. [i \in Index |-> Zero] \in [Index -> Entries]
  BY <1>8
<1>10. /\ entry' \in [Tables -> [Index -> Entries]]
       /\ \A i \in Index : entry'[u][i] = Zero
       /\ \A t \in Tables : t # u => entry'[t] = entry[t]
  BY <1>0, <1>7, <1>9
<1> QED
  BY <1>0, <1>3, <1>4, <1>6, <1>7, <1>10

LEMMA ClearKeeps ==
    ASSUME Types, NEW place, Tree(place), NEW a \in Actors, Clear(a)
    PROVE  Tree(place)' /\ Grows(place) /\ LinksEmpty(place)
<1>0. /\ op[a].pc = "clear" /\ tables' = tables
      /\ \A i \in Index : entry'[Entry(a).addr][i] = Zero
      /\ \A t \in Tables : t # Entry(a).addr => entry'[t] = entry[t]
      /\ op'[a] # Idle /\ op'[a].pc = "or" /\ op'[a].table = op[a].table
      /\ op'[a].level = op[a].level /\ op'[a].req = op[a].req
      /\ \A b \in Actors \ {a} : op'[b] = op[b]
  BY ClearParts
<1>1. PICK t \in Tables, i \in Index : t = op[a].table /\ i = op[a].req.page[op[a].level]
  BY <1>0, SlotIs
<1>2. /\ t \in 1 .. tables /\ Entry(a) = entry[t][i] /\ op[a] # Idle
      /\ CallInv(place, a) /\ FreshInv(place, a) /\ HasFresh(a)
  BY <1>0, <1>1, SlotIs DEF HasFresh
<1>3. PICK u : u = Entry(a).addr
  OBVIOUS
<1>4. /\ u \in 2 .. tables /\ Below(place, u, t, i) /\ Fresh(u) /\ ~Fresh(t)
      /\ ~Present(entry[t][i])
  BY <1>0, <1>1, <1>2, <1>3, Zenon DEF FreshInv, CallInv, Fresh
<1>5. /\ \A j \in Index : entry'[u][j] = Zero
      /\ \A x \in Tables : x # u => entry'[x] = entry[x]
  BY <1>0, <1>3
<1>6. t # u /\ Entry(a)' = Entry(a)
  <2>1. t # u
    BY <1>4
  <2>2. entry'[t][i] = entry[t][i]
    BY <1>5, <2>1
  <2> QED
    BY <1>0, <1>1, <1>2, <2>1, <2>2, Zenon DEF Entry, Slot
<1>7. OthersStay(a)
  <2> SUFFICES ASSUME NEW b \in Actors \ {a}, Relies(b) PROVE Entry(b)' = Entry(b)
    BY <1>0 DEF OthersStay
  <2>1. PICK x \in Tables, j \in Index : x = op[b].table /\ j = op[b].req.page[op[b].level]
    BY SlotIs DEF Relies
  <2>2. ~Fresh(op[b].table)
    BY SlotIs DEF CallInv, Relies
  <2>3. x # u
    BY <1>4, <2>1, <2>2
  <2>4. entry'[x][j] = entry[x][j]
    BY <1>5, <2>3
  <2> QED
    BY <1>0, <2>1, <2>4, Zenon DEF Entry, Slot
<1>8. \A x : Fresh(x)' => Fresh(x)
  BY <1>2, <1>6, <1>7, FreshAfter
<1>9. Zero.addr = 0 /\ ~Present(Zero)
  BY DEF Zero, Present
<1>10. 1 .. tables \subseteq Tables /\ tables \in Nat
  BY TableNumbers
<1>11. Grows(place) /\ LinksEmpty(place)
  <2>1. \A x \in 1 .. tables : ~Fresh(x) => entry'[x] = entry[x]
    BY <1>4, <1>5, <1>10
  <2> QED
    BY <2>1 DEF Grows, LinksEmpty
<1>12. Around(place, place, a)
  <2>1. \A x \in 1 .. tables, j \in Index :
            Fresh(x) /\ Present(entry'[x][j]) => entry'[x][j] = entry[x][j]
    BY <1>5, <1>9, <1>10
  <2> QED
    BY <1>0, <1>7, <1>8, <1>10, <1>11, <2>1 DEF Around
<1>13. TablesInv(place)'
  <2>1. ASSUME NEW x \in 1 .. tables', NEW j \in Index, ~Uncleared(x)'
        PROVE  \/ x \in 1 .. tables /\ ~Uncleared(x) /\ entry'[x][j] = entry[x][j]
               \/ ~Present(entry'[x][j]) /\ entry'[x][j].addr \in 0 .. tables'
    <3>1. CASE x = u
      BY <1>0, <1>5, <1>9, <1>10, <3>1
    <3>2. CASE x # u
      <4>1. ~Uncleared(x)
        BY <1>3, <1>7, <2>1, <3>2, UnclearedAfter
      <4> QED
        BY <1>0, <1>5, <1>10, <3>2, <4>1
    <3> QED
      BY <3>1, <3>2
  <2>2. place \in Places /\ place[Pml4].level = 1
    BY DEF Tree, TablesInv
  <2> QED
    BY <1>12, <2>1, <2>2, TablesAfter
<1>14. CallInv(place, a)'
  <2>1. Led(a)'
    BY <1>0, <1>2, <1>11, StillLed
  <2>2. ~Fresh(t)'
    BY <1>4, <1>8
  <2>3. ~Fresh(op[a].table)'
    BY <1>0, <1>1, <2>2 DEF Fresh
  <2> QED
    BY <1>0, <1>1, <1>2, <2>1, <2>3, Zenon DEF CallInv
<1>15. WriteInv'
  BY <1>11, WriteAfter
<1>16. OwnFresh(a)
  BY <1>2, <1>6 DEF OwnFresh
<1>17. /\ Entry(a)'.addr \in 2 .. tables'
       /\ Below(place, Entry(a)'.addr, op'[a].table, op'[a].req.page[op'[a].level])
       /\ \A j \in Index : ~Present(entry'[Entry(a)'.addr][j])
  BY <1>0, <1>1, <1>3, <1>4, <1>5, <1>6, <1>9
<1>18. op'[a].pc \notin {"store", "clear"}
  BY <1>0
<1> QED
  BY <1>11, <1>12, <1>13, <1>14, <1>15, <1>16, <1>17, <1>18, TreeAfter

-----------------------------------------------------------------------------
(* The table a call descends to is one that exists, and nobody's own after *)
(* the step.                                                               *)
LEMMA NextTable ==
    ASSUME Types, NEW place, Tree(place), NEW a \in Actors, op[a].pc = "or"
    PROVE  /\ Entry(a).addr \in 1 .. tables
           /\ Below(place, Entry(a).addr, op[a].table, op[a].req.page[op[a].level])
           /\ \A b \in Actors : HasFresh(b) /\ Entry(b).addr = Entry(a).addr => b = a
           /\ Present(Entry(a)) => ~Fresh(Entry(a).addr)
<1>1. PICK t \in Tables, i \in Index : t = op[a].table /\ i = op[a].req.page[op[a].level]
  BY SlotIs
<1>2. /\ t \in 1 .. tables /\ Entry(a) = entry[t][i] /\ op[a].level <= 3
      /\ CallInv(place, a) /\ FreshInv(place, a) /\ op[a] # Idle
  BY <1>1, SlotIs
<1>3. ~Fresh(t) /\ place[t].level <= 3
  BY <1>1, <1>2 DEF CallInv, Fresh
<1>4. ~Uncleared(t)
  BY <1>3 DEF Fresh, Uncleared, HasFresh
<1>5. CASE Present(Entry(a))
  <2>1. /\ Entry(a).addr \in 1 .. tables /\ ~Fresh(Entry(a).addr)
        /\ Below(place, Entry(a).addr, t, i)
    BY <1>2, <1>3, <1>4, <1>5 DEF Tree, TablesInv
  <2> QED
    BY <1>1, <2>1 DEF Fresh
<1>6. CASE ~Present(Entry(a))
  <2>1. HasFresh(a)
    BY <1>6 DEF HasFresh
  <2>2. Entry(a).addr \in 2 .. tables /\ Below(place, Entry(a).addr, t, i)
    BY <1>1, <1>2, <2>1, Zenon DEF FreshInv
  <2>3. Entry(a).addr \in 1 .. tables
    BY <2>2, TableNumbers
  <2>4. \A b \in Actors : HasFresh(b) /\ Entry(b).addr = Entry(a).addr => b = a
    BY <1>2, <2>1 DEF FreshInv
  <2> QED
    BY <1>1, <1>6, <2>2, <2>3, <2>4
<1> QED
  BY <1>5, <1>6

LEMMA OrParts ==
    ASSUME Types, NEW place, Tree(place), NEW a \in Actors, Or(a)
    PROVE  \E e \in Entries :
              /\ op[a].pc = "or" /\ tables' = tables /\ Writes(a, e)
              /\ e.addr = Entry(a).addr /\ e.flags = Entry(a).flags \cup op[a].req.flags
              /\ op' \in [Actors -> {Idle} \cup Ops]
              /\ op'[a] # Idle /\ op'[a].table = Entry(a).addr
              /\ op'[a].level = op[a].level + 1 /\ op'[a].req = op[a].req
              /\ op'[a].pc = IF op[a].level = 3 THEN "leaf" ELSE "test"
              /\ \A b \in Actors \ {a} : op'[b] = op[b]
<1> DEFINE pc == IF op[a].level = 3 THEN "leaf" ELSE "test"
<1>0. /\ op[a].pc = "or" /\ tables' = tables
      /\ Writes(a, [Entry(a) EXCEPT !.flags = @ \cup op[a].req.flags])
      /\ op' = [op EXCEPT ![a].table = Entry(a).addr, ![a].level = @ + 1, ![a].pc = pc]
      /\ op \in [Actors -> {Idle} \cup Ops]
  BY DEF Or, Goes, Types, Descend
<1>1. op[a] \in Ops /\ op[a] # Idle /\ op[a].req.flags \in SUBSET Flags
  BY <1>0, OpParts
<1>2. Entry(a) \in Entries /\ op[a].level \in 1 .. 3
  BY <1>0, SlotIs
<1>3. PICK e : e = [Entry(a) EXCEPT !.flags = @ \cup op[a].req.flags]
  OBVIOUS
<1>4. e \in Entries /\ e.addr = Entry(a).addr /\ e.flags = Entry(a).flags \cup op[a].req.flags
  BY <1>1, <1>2, <1>3 DEF Entries
<1>5. pc \in {"leaf", "test"}
  OBVIOUS
<1> HIDE DEF pc
<1>6. PICK new : new = [op[a] EXCEPT !.table = Entry(a).addr, !.level = op[a].level + 1, !.pc = pc]
  OBVIOUS
<1>7. Entry(a).addr \in Tables
  BY <1>0, NextTable, TableNumbers
<1>8. op[a].level + 1 \in 1 .. 4
  BY <1>2
<1>9. /\ new \in Ops /\ new.pc = pc /\ new.level = op[a].level + 1
      /\ new.table = Entry(a).addr /\ new.req = op[a].req
  BY <1>1, <1>5, <1>6, <1>7, <1>8 DEF Ops
<1>10. new # Idle
  <2>1. Idle.pc = "idle"
    BY DEF Idle
  <2> QED
    BY <1>5, <1>9, <2>1
<1>11. op' = [op EXCEPT ![a] = new]
  BY <1>0, <1>1, <1>6
<1>12. op' \in [Actors -> {Idle} \cup Ops] /\ op'[a] = new /\ \A b \in Actors \ {a} : op'[b] = op[b]
  BY <1>0, <1>9, <1>11
<1>13. op'[a].pc = IF op[a].level = 3 THEN "leaf" ELSE "test"
  BY <1>9, <1>12 DEF pc
<1> QED
  BY <1>0, <1>3, <1>4, <1>9, <1>10, <1>12, <1>13

LEMMA OrGrows ==
    ASSUME Types, NEW place, Tree(place), NEW a \in Actors, Or(a)
    PROVE  Grows(place) /\ LinksEmpty(place)
<1>0. PICK e \in Entries :
         /\ op[a].pc = "or" /\ Writes(a, e)
         /\ e.addr = Entry(a).addr /\ e.flags = Entry(a).flags \cup op[a].req.flags
  BY OrParts
<1>1. PICK t \in Tables, i \in Index : t = op[a].table /\ i = op[a].req.page[op[a].level]
  BY <1>0, SlotIs
<1>2. /\ t \in 1 .. tables /\ Entry(a) = entry[t][i] /\ op[a] # Idle
      /\ op[a].level \in 1 .. 3
      /\ CallInv(place, a) /\ FreshInv(place, a)
  BY <1>0, <1>1, SlotIs
<1>3. ~Fresh(t) /\ place[t].level = op[a].level
  BY <1>1, <1>2 DEF CallInv, Fresh
<1>4. PICK u : u = Entry(a).addr
  OBVIOUS
<1>5. u \in 1 .. tables
  BY <1>0, <1>4, NextTable
<1>6. /\ entry'[t][i] = e
      /\ \A x \in Tables, j \in Index : x # t \/ j # i => entry'[x][j] = entry[x][j]
  BY <1>0, <1>1, WritesOne
<1>7. e.addr = u
  BY <1>0, <1>4
<1>8. Grows(place)
  <2> SUFFICES ASSUME NEW x \in 1 .. tables, NEW j \in Index
               PROVE  entry'[x][j].addr = entry[x][j].addr
                      /\ entry[x][j].flags \subseteq entry'[x][j].flags
    BY DEF Grows
  <2>1. CASE x = t /\ j = i
    BY <1>0, <1>2, <1>6, <2>1
  <2>2. CASE x # t \/ j # i
    BY <1>6, TableNumbers, <2>2
  <2> QED
    BY <2>1, <2>2
<1>9. LinksEmpty(place)
  <2> SUFFICES ASSUME NEW x \in 1 .. tables, NEW j \in Index
               PROVE  /\ place[x].level = 4 => entry'[x][j] = entry[x][j]
                      /\ Present(entry'[x][j]) /\ ~Present(entry[x][j]) =>
                            \A k \in Index : ~Present(entry'[entry'[x][j].addr][k])
    BY DEF LinksEmpty
  <2>1. CASE x = t /\ j = i
    <3>1. place[x].level # 4
      BY <1>2, <1>3, <2>1
    <3>2. ASSUME ~Present(entry[x][j]), NEW k \in Index PROVE ~Present(entry'[u][k])
      <4>1. HasFresh(a)
        BY <1>0, <1>2, <2>1, <3>2 DEF HasFresh
      <4>2. ~Present(entry[u][k])
        BY <1>0, <1>2, <1>4, <4>1 DEF FreshInv
      <4>3. u # t
        BY <1>3, <1>4, <4>1 DEF Fresh
      <4> QED
        BY <1>5, <1>6, TableNumbers, <4>2, <4>3
    <3> QED
      BY <1>6, <1>7, <2>1, <3>1, <3>2
  <2>2. CASE x # t \/ j # i
    BY <1>6, TableNumbers, <2>2
  <2> QED
    BY <2>1, <2>2
<1> QED
  BY <1>8, <1>9

LEMMA OrKeeps ==
    ASSUME Types, NEW place, Tree(place), NEW a \in Actors, Or(a), ~raced'
    PROVE  Tree(place)'
<1>0. PICK e \in Entries :
         /\ op[a].pc = "or" /\ tables' = tables /\ Writes(a, e)
         /\ e.addr = Entry(a).addr /\ e.flags = Entry(a).flags \cup op[a].req.flags
         /\ op'[a] # Idle /\ op'[a].table = Entry(a).addr
         /\ op'[a].level = op[a].level + 1 /\ op'[a].req = op[a].req
         /\ op'[a].pc = IF op[a].level = 3 THEN "leaf" ELSE "test"
         /\ \A b \in Actors \ {a} : op'[b] = op[b]
  BY OrParts
<1>1. PICK t \in Tables, i \in Index : t = op[a].table /\ i = op[a].req.page[op[a].level]
  BY <1>0, SlotIs
<1>2. /\ t \in 1 .. tables /\ Entry(a) = entry[t][i] /\ op[a] # Idle
      /\ op[a].level \in 1 .. 3
      /\ CallInv(place, a) /\ FreshInv(place, a)
  BY <1>0, <1>1, SlotIs
<1>3. /\ ~Fresh(t) /\ place[t].level = op[a].level
      /\ Alike(op[a].req.page, place[t].page, op[a].level)
      /\ "present" \in op[a].req.flags /\ Led(a)
      /\ "write" \in op[a].req.low => "write" \in op[a].req.flags
  BY <1>1, <1>2 DEF CallInv, Fresh
<1>4. PICK u : u = Entry(a).addr
  OBVIOUS
<1>5. /\ u \in 1 .. tables /\ Below(place, u, t, i)
      /\ \A b \in Actors : HasFresh(b) /\ Entry(b).addr = u => b = a
      /\ Present(Entry(a)) => ~Fresh(u)
  BY <1>0, <1>1, <1>4, NextTable
<1>6. /\ entry'[t][i] = e
      /\ \A x \in Tables, j \in Index : x # t \/ j # i => entry'[x][j] = entry[x][j]
      /\ OthersStay(a)
  BY <1>0, <1>1, WritesOne
<1>7. Present(e) /\ e.addr = u
  BY <1>0, <1>3, <1>4 DEF Present
<1>8. op'[a].pc \in {"leaf", "test"} /\ ~HasFresh(a)' /\ op[a].pc # "clear"
  <2>1. op'[a].pc = "leaf" \/ op'[a].pc = "test"
    BY <1>0
  <2> QED
    BY <1>0, <2>1 DEF HasFresh
<1>9. \A x : Fresh(x)' => Fresh(x)
  BY <1>6, <1>8, FreshAfter
<1>10. ~Fresh(u)'
  <2> SUFFICES ASSUME NEW b \in Actors, HasFresh(b)', Entry(b)'.addr = u PROVE FALSE
    BY DEF Fresh
  <2>1. b # a
    BY <1>8
  <2>2. HasFresh(b) /\ Entry(b).addr = u
    BY <1>6, <2>1, OthersFresh
  <2> QED
    BY <1>5, <2>1, <2>2
<1>11. 1 .. tables \subseteq Tables /\ tables \in Nat
  BY TableNumbers
<1>12. Grows(place) /\ LinksEmpty(place)
  BY OrGrows
<1>14. Around(place, place, a)
  <2>1. \A x \in 1 .. tables, j \in Index :
            Fresh(x) /\ Present(entry'[x][j]) => entry'[x][j] = entry[x][j]
    BY <1>3, <1>6, <1>11
  <2> QED
    BY <1>0, <1>6, <1>9, <1>11, <1>12, <2>1 DEF Around
<1>15. TablesInv(place)'
  <2>1. ASSUME NEW x \in 1 .. tables', NEW j \in Index, ~Uncleared(x)'
        PROVE  \/ x \in 1 .. tables /\ ~Uncleared(x) /\ entry'[x][j] = entry[x][j]
               \/ entry'[x][j].addr = u /\ Below(place, u, x, j)
    <3>1. CASE x = t /\ j = i
      BY <1>5, <1>6, <1>7, <3>1
    <3>2. CASE x # t \/ j # i
      <4>1. ~Uncleared(x)
        BY <1>6, <1>8, <2>1, UnclearedAfter
      <4> QED
        BY <1>0, <1>6, <1>11, <3>2, <4>1
    <3> QED
      BY <3>1, <3>2
  <2>2. place \in Places /\ place[Pml4].level = 1
    BY DEF Tree, TablesInv
  <2>3. u \in 1 .. tables'
    BY <1>0, <1>5
  <2> QED
    BY <1>10, <1>14, <2>1, <2>2, <2>3, TablesAfter
<1>16. Led(a)'
  <2>1. PICK p \in Pages : p = op[a].req.page
    BY <1>0, OpParts
  <2>2. /\ op[a].level > 1 => op[a].req.flags \subseteq E1(p).flags
        /\ op[a].level > 2 => op[a].req.flags \subseteq E2(p).flags
        /\ op[a].level = 1 => t = Pml4
        /\ op[a].level = 2 => t = E1(p).addr
        /\ op[a].level = 3 => t = E2(p).addr
    BY <1>1, <1>2, <1>3, <2>1 DEF Led
  <2>3. /\ op[a].level > 1 => Present(E1(p))
        /\ op[a].level > 2 => Present(E1(p)) /\ Present(E2(p))
    BY <1>2, <1>3, <2>2 DEF Present
  <2>4. /\ op[a].level > 1 => E1(p)'.addr = E1(p).addr /\ op[a].req.flags \subseteq E1(p)'.flags
        /\ op[a].level > 2 => E2(p)'.addr = E2(p).addr /\ op[a].req.flags \subseteq E2(p)'.flags
    BY <1>2, <1>12, <2>2, <2>3, UppersStay
  <2>5. op[a].req.flags \subseteq entry'[t][i].flags /\ entry'[t][i].addr = u
    BY <1>0, <1>6, <1>7
  <2>6. op'[a].req.page = p /\ op'[a].req.flags = op[a].req.flags /\ op'[a].table = u
    BY <1>0, <1>4, <2>1
  <2>7. CASE op[a].level = 1
    <3>1. E1(p)' = entry'[t][i]
      BY <1>1, <2>1, <2>2, <2>7 DEF E1
    <3>2. op'[a].level = 2
      BY <1>0, <2>7
    <3> QED
      BY <2>5, <2>6, <3>1, <3>2 DEF Led
  <2>8. CASE op[a].level = 2
    <3>1. E2(p)' = entry'[t][i]
      BY <1>1, <2>1, <2>2, <2>4, <2>8 DEF E2
    <3>2. op'[a].level = 3
      BY <1>0, <2>8
    <3> QED
      BY <2>4, <2>5, <2>6, <2>8, <3>1, <3>2 DEF Led
  <2>9. CASE op[a].level = 3
    <3>1. E3(p)' = entry'[t][i]
      BY <1>1, <2>1, <2>2, <2>4, <2>9 DEF E3
    <3>2. op'[a].level = 4
      BY <1>0, <2>9
    <3> QED
      BY <2>4, <2>5, <2>6, <2>9, <3>1, <3>2 DEF Led
  <2> QED
    BY <1>2, <2>7, <2>8, <2>9
<1>17. Alike(op[a].req.page, place[u].page, op[a].level + 1)
  <2> SUFFICES ASSUME NEW k \in 1 .. 3, k < op[a].level + 1
               PROVE  op[a].req.page[k] = place[u].page[k]
    BY DEF Alike
  <2>1. CASE k = op[a].level
    BY <1>1, <1>3, <1>5, <2>1 DEF Below
  <2>2. CASE k # op[a].level
    <3>1. k < op[a].level
      BY <1>2, <2>2
    <3> QED
      BY <1>3, <1>5, <3>1 DEF Alike, Below
  <2> QED
    BY <2>1, <2>2
<1>18. CallInv(place, a)'
  <2>1. ~Fresh(op[a].table)'
    BY <1>0, <1>4, <1>10 DEF Fresh
  <2>2. place[u].level = op[a].level + 1
    BY <1>3, <1>5 DEF Below
  <2>3. /\ op'[a].pc \in {"test", "store", "clear", "or"} => op'[a].level <= 3
        /\ op'[a].pc \in {"leaf", "flush"} => op'[a].level = 4
    BY <1>0, <1>2
  <2> QED
    BY <1>0, <1>3, <1>4, <1>5, <1>16, <1>17, <2>1, <2>2, <2>3 DEF CallInv
<1>19. WriteInv'
  BY <1>12, WriteAfter
<1>20. OwnFresh(a)
  BY <1>8 DEF OwnFresh
<1>21. op'[a].pc \notin {"store", "clear"}
  BY <1>8
<1> QED
  BY <1>8, <1>14, <1>15, <1>18, <1>19, <1>20, <1>21, TreeAfter

-----------------------------------------------------------------------------
(* The store to the last level, the only step that changes the map.        *)
LEMMA LeafParts ==
    ASSUME Types, NEW place, Tree(place), NEW a \in Actors, Leaf(a)
    PROVE  /\ op[a].pc = "leaf" /\ tables' = tables
           /\ op[a].table \in 1 .. tables /\ op[a].req.page[4] \in Index
           /\ entry' \in [Tables -> [Index -> Entries]]
           /\ LET e == entry'[op[a].table][op[a].req.page[4]]
              IN  e.addr = op[a].req.frame /\ e.flags = op[a].req.flags \cup op[a].req.low
           /\ \A t \in Tables, i \in Index :
                 t # op[a].table \/ i # op[a].req.page[4] => entry'[t][i] = entry[t][i]
           /\ op' \in [Actors -> {Idle} \cup Ops]
           /\ op'[a] # Idle /\ op'[a].pc = "flush" /\ op'[a].table = op[a].table
           /\ op'[a].level = op[a].level /\ op'[a].req = op[a].req
           /\ \A b \in Actors \ {a} : op'[b] = op[b]
<1> DEFINE e == [addr |-> op[a].req.frame, flags |-> op[a].req.flags \cup op[a].req.low]
<1>0. /\ op[a].pc = "leaf" /\ tables' = tables
      /\ entry' = [entry EXCEPT ![op[a].table][op[a].req.page[4]] = e]
      /\ entry \in [Tables -> [Index -> Entries]]
      /\ op' = [op EXCEPT ![a].pc = "flush"] /\ op \in [Actors -> {Idle} \cup Ops]
  BY DEF Leaf, Goes, Types
<1>1. /\ op[a] \in Ops /\ op[a] # Idle /\ op[a].table \in Tables
      /\ op[a].req.page \in Pages /\ op[a].req.frame \in Frames
      /\ op[a].req.flags \in SUBSET Flags /\ op[a].req.low \in SUBSET Flags
  BY <1>0, OpParts
<1>2. PICK new : new = [op[a] EXCEPT !.pc = "flush"]
  OBVIOUS
<1>3. /\ new \in Ops /\ new.pc = "flush" /\ new.level = op[a].level /\ new.table = op[a].table
      /\ new.req = op[a].req
  BY <1>1, <1>2 DEF Ops
<1>4. new # Idle
  <2>1. Idle.pc = "idle"
    BY DEF Idle
  <2> QED
    BY <1>3, <2>1
<1>5. op' = [op EXCEPT ![a] = new]
  BY <1>0, <1>2
<1>6. op' \in [Actors -> {Idle} \cup Ops] /\ op'[a] = new /\ \A b \in Actors \ {a} : op'[b] = op[b]
  BY <1>0, <1>3, <1>5
<1>7. e \in Entries /\ e.addr = op[a].req.frame /\ e.flags = op[a].req.flags \cup op[a].req.low
  BY <1>1 DEF Entries
<1> HIDE DEF e
<1>8. op[a].req.page[4] \in Index /\ op[a].table \in 1 .. tables
  <2>1. 4 \in 1 .. 4
    OBVIOUS
  <2>2. CallInv(place, a)
    BY DEF Tree
  <2> QED
    BY <1>1, <2>1, <2>2, TableNumbers DEF CallInv
<1>9. /\ entry' \in [Tables -> [Index -> Entries]]
      /\ entry'[op[a].table][op[a].req.page[4]] = e
      /\ \A t \in Tables, i \in Index :
            t # op[a].table \/ i # op[a].req.page[4] => entry'[t][i] = entry[t][i]
  BY <1>0, <1>1, <1>7, <1>8
<1> QED
  BY <1>0, <1>3, <1>4, <1>6, <1>7, <1>8, <1>9

LEMMA LeafLeaves ==
    ASSUME Types, NEW place, Tree(place), NEW a \in Actors, Leaf(a)
    PROVE  /\ place[op[a].table].level = 4 /\ op[a].level = 4 /\ ~Fresh(op[a].table)
           /\ \A t \in 1 .. tables, i \in Index :
                 place[t].level <= 3 \/ Fresh(t) => entry'[t][i] = entry[t][i]
<1>1. op[a].pc = "leaf"
  BY DEF Leaf, Goes
<1>2. op[a] # Idle
  BY <1>1, OpParts
<1>3. place[op[a].table].level = 4 /\ op[a].level = 4 /\ ~Fresh(op[a].table)
  BY <1>1, <1>2 DEF Tree, CallInv
<1>4. 1 .. tables \subseteq Tables
  BY TableNumbers
<1>5. ASSUME NEW t \in 1 .. tables, NEW i \in Index, place[t].level <= 3 \/ Fresh(t)
      PROVE  entry'[t][i] = entry[t][i]
  <2>1. t # op[a].table
    BY <1>3, <1>5
  <2> QED
    BY <1>4, <2>1, LeafParts
<1> QED
  BY <1>3, <1>5

(* The walk for a page after the store.                                    *)
LEMMA LeafWalk ==
    ASSUME Types, NEW place, Tree(place), NEW a \in Actors, Leaf(a), NEW q \in Pages
    PROVE  /\ E1(q)' = E1(q)
           /\ Present(E1(q)) => E2(q)' = E2(q)
           /\ Present(E1(q)) /\ Present(E2(q)) => E3(q)' = E3(q)
           /\ Present(E1(q)) /\ Present(E2(q)) /\ Present(E3(q)) =>
                 /\ q = op[a].req.page =>
                      /\ E4(q)'.addr = op[a].req.frame
                      /\ E4(q)'.flags = op[a].req.flags \cup op[a].req.low
                 /\ q # op[a].req.page => E4(q)' = E4(q)
<1>0. q[1] \in Index /\ q[2] \in Index /\ q[3] \in Index /\ q[4] \in Index
      /\ 1 .. tables \subseteq Tables
  BY TableNumbers
<1>1. E1(q)' = E1(q)
  BY <1>0, WalkPlaces, LeafLeaves DEF OnPath, E1
<1>2. Present(E1(q)) => E2(q)' = E2(q)
  <2> SUFFICES ASSUME Present(E1(q)) PROVE E2(q)' = E2(q)
    OBVIOUS
  <2>1. PICK t \in 1 .. tables : t = E1(q).addr /\ place[t].level = 2
    BY WalkPlaces DEF OnPath
  <2>2. entry'[t][q[2]] = entry[t][q[2]]
    BY <1>0, <2>1, LeafLeaves
  <2> QED
    BY <1>1, <2>1, <2>2 DEF E2
<1>3. Present(E1(q)) /\ Present(E2(q)) => E3(q)' = E3(q)
  <2> SUFFICES ASSUME Present(E1(q)), Present(E2(q)) PROVE E3(q)' = E3(q)
    OBVIOUS
  <2>1. PICK t \in 1 .. tables : t = E2(q).addr /\ place[t].level = 3
    BY WalkPlaces DEF OnPath
  <2>2. entry'[t][q[3]] = entry[t][q[3]]
    BY <1>0, <2>1, LeafLeaves
  <2> QED
    BY <1>2, <2>1, <2>2 DEF E3
<1>4. ASSUME Present(E1(q)), Present(E2(q)), Present(E3(q))
      PROVE  /\ q = op[a].req.page =>
                  /\ E4(q)'.addr = op[a].req.frame
                  /\ E4(q)'.flags = op[a].req.flags \cup op[a].req.low
             /\ q # op[a].req.page => E4(q)' = E4(q)
  <2>1. PICK t \in 1 .. tables : t = E3(q).addr
    BY <1>4, WalkPlaces DEF OnPath
  <2>2. place[t].level = 4 /\ Alike(place[t].page, q, 4)
    BY <1>4, <2>1, WalkPlaces DEF OnPath
  <2>3. E4(q)' = entry'[t][q[4]] /\ E4(q) = entry[t][q[4]]
    BY <1>3, <1>4, <2>1 DEF E4
  <2>4. PICK p \in Pages : p = op[a].req.page
    BY LeafParts, OpParts
  <2>5. op[a] # Idle /\ op[a].level = 4 /\ CallInv(place, a)
    BY LeafParts, OpParts, LeafLeaves DEF Tree
  <2>6. Alike(p, place[op[a].table].page, 4) /\ Led(a)
    BY <2>4, <2>5 DEF CallInv
  <2>7. CASE q = p
    <3>1. op[a].table = t
      BY <2>1, <2>4, <2>5, <2>6, <2>7 DEF Led
    <3>2. E4(q)' = entry'[op[a].table][op[a].req.page[4]]
      BY <2>3, <2>4, <2>7, <3>1
    <3> QED
      BY <2>4, <2>7, <3>2, LeafParts, ZenonT(30)
  <2>8. CASE q # p
    <3>1. t # op[a].table \/ q[4] # p[4]
      <4> SUFFICES ASSUME t = op[a].table, q[4] = p[4] PROVE FALSE
        OBVIOUS
      <4>1. q[1] = p[1] /\ q[2] = p[2] /\ q[3] = p[3]
        BY <2>2, <2>6 DEF Alike
      <4>2. q \in [1 .. 4 -> Index] /\ p \in [1 .. 4 -> Index]
        BY PagingAssumption
      <4>3. \A k \in 1 .. 4 : q[k] = p[k]
        BY <4>1
      <4> QED
        BY <2>8, <4>2, <4>3
    <3>2. entry'[t][q[4]] = entry[t][q[4]]
      BY <1>0, <2>4, <3>1, LeafParts
    <3> QED
      BY <2>3, <2>4, <2>8, <3>2
  <2> QED
    BY <2>7, <2>8
<1> QED
  BY <1>1, <1>2, <1>3, <1>4

(* What leads to the page being mapped.                                    *)
LEMMA LeafLed ==
    ASSUME Types, NEW place, Tree(place), NEW a \in Actors, Leaf(a)
    PROVE  /\ op[a].req.flags \subseteq E1(op[a].req.page).flags
           /\ op[a].req.flags \subseteq E2(op[a].req.page).flags
           /\ op[a].req.flags \subseteq E3(op[a].req.page).flags
           /\ "present" \in op[a].req.flags
           /\ "write" \in op[a].req.low => "write" \in op[a].req.flags
<1>1. op[a] # Idle /\ op[a].level = 4 /\ CallInv(place, a)
  BY LeafParts, OpParts, LeafLeaves DEF Tree
<1> QED
  BY <1>1 DEF CallInv, Led

LEMMA LeafKeeps ==
    ASSUME Types, NEW place, Tree(place), NEW a \in Actors, Leaf(a)
    PROVE  Tree(place)'
<1>0. /\ op[a].pc = "leaf" /\ tables' = tables
      /\ op'[a] # Idle /\ op'[a].pc = "flush" /\ op'[a].table = op[a].table
      /\ op'[a].level = op[a].level /\ op'[a].req = op[a].req
      /\ \A b \in Actors \ {a} : op'[b] = op[b]
  BY LeafParts
<1>1. op[a] # Idle /\ CallInv(place, a) /\ op[a].level = 4
  BY <1>0, OpParts, LeafLeaves DEF Tree
<1>2. 1 .. tables \subseteq Tables /\ tables \in Nat
  BY TableNumbers
<1>3. OthersStay(a)
  <2> SUFFICES ASSUME NEW b \in Actors \ {a}, Relies(b) PROVE Entry(b)' = Entry(b)
    BY <1>0 DEF OthersStay
  <2>1. PICK x \in 1 .. tables, j \in Index : x = op[b].table /\ j = op[b].req.page[op[b].level]
    BY SlotIs DEF Relies
  <2>2. place[x].level <= 3
    BY <2>1, SlotIs DEF CallInv, Relies
  <2>3. entry'[x][j] = entry[x][j]
    BY <2>2, LeafLeaves
  <2> QED
    BY <1>0, <2>1, <2>3 DEF Entry, Slot
<1>4. ~HasFresh(a)' /\ op[a].pc # "clear"
  BY <1>0 DEF HasFresh
<1>5. \A x : Fresh(x)' => Fresh(x)
  BY <1>3, <1>4, FreshAfter
<1>6. Grows(place)
  BY LeafLeaves DEF Grows
<1>7. Around(place, place, a)
  BY <1>0, <1>2, <1>3, <1>5, <1>6, LeafLeaves DEF Around
<1>8. TablesInv(place)'
  <2>1. ASSUME NEW x \in 1 .. tables', NEW j \in Index, place[x].level <= 3, ~Uncleared(x)'
        PROVE  x \in 1 .. tables /\ ~Uncleared(x) /\ entry'[x][j] = entry[x][j]
    <3>1. ~Uncleared(x)
      BY <1>3, <1>4, <2>1, UnclearedAfter
    <3> QED
      BY <1>0, <2>1, <3>1, LeafLeaves
  <2>2. place \in Places /\ place[Pml4].level = 1
    BY DEF Tree, TablesInv
  <2> QED
    BY <1>7, <2>1, <2>2, TablesAfter
<1>9. CallInv(place, a)'
  <2>1. Led(a)'
    BY <1>0, <1>1, <1>6, StillLed
  <2>2. PICK t \in 1 .. tables : t = op[a].table /\ ~Fresh(t)
    BY <1>1 DEF CallInv, Fresh
  <2>3. ~Fresh(t)'
    BY <1>5, <2>2
  <2>4. ~Fresh(op[a].table)'
    BY <1>0, <2>2, <2>3 DEF Fresh
  <2> QED
    BY <1>0, <1>1, <2>1, <2>4 DEF CallInv
<1>10. WriteInv'
  <2> SUFFICES ASSUME NEW q \in Pages, Full(q)', "write" \in E4(q)'.flags
               PROVE  "write" \in E1(q)'.flags /\ "write" \in E2(q)'.flags
                      /\ "write" \in E3(q)'.flags
    BY DEF WriteInv
  <2>1. Present(E1(q)') /\ Present(E2(q)') /\ Present(E3(q)') /\ Present(E4(q)')
    BY DEF Full, Present
  <2>2. /\ E1(q)' = E1(q) /\ E2(q)' = E2(q) /\ E3(q)' = E3(q)
        /\ Present(E1(q)) /\ Present(E2(q)) /\ Present(E3(q))
    BY <2>1, LeafWalk
  <2>3. CASE q = op[a].req.page
    <3>1. "write" \in op[a].req.flags
      BY <2>2, <2>3, LeafWalk, LeafLed
    <3> QED
      BY <2>2, <2>3, <3>1, LeafLed
  <2>4. CASE q # op[a].req.page
    <3>1. E4(q)' = E4(q)
      BY <2>2, <2>4, LeafWalk
    <3> QED
      BY <2>1, <2>2, <3>1 DEF Tree, WriteInv, Full
  <2> QED
    BY <2>3, <2>4
<1>11. OwnFresh(a)
  BY <1>4 DEF OwnFresh
<1>12. op'[a].pc \notin {"store", "clear"}
  BY <1>0
<1> QED
  BY <1>4, <1>7, <1>8, <1>9, <1>10, <1>11, <1>12, TreeAfter

(* What the page maps to then, and that the others map to what they did.   *)
LEMMA LeafMaps ==
    ASSUME Types, NEW place, Tree(place), NEW a \in Actors, Leaf(a), NEW q \in Pages
    PROVE  Translate(q)' = IF q = op[a].req.page
                             THEN [frame |-> op[a].req.frame, write |-> "write" \in op[a].req.flags]
                             ELSE Translate(q)
<1>1. CASE q = op[a].req.page
  <2>1. /\ Present(E1(q)) /\ Present(E2(q)) /\ Present(E3(q))
    BY <1>1, LeafLed DEF Present
  <2>2. /\ E1(q)' = E1(q) /\ E2(q)' = E2(q) /\ E3(q)' = E3(q)
        /\ E4(q)'.addr = op[a].req.frame
        /\ E4(q)'.flags = op[a].req.flags \cup op[a].req.low
    BY <1>1, <2>1, LeafWalk
  <2>3. Full(q)'
    <3>1. Present(E1(q)') /\ Present(E2(q)') /\ Present(E3(q)') /\ Present(E4(q)')
      BY <1>1, <2>1, <2>2, LeafLed DEF Present
    <3> QED
      BY <3>1 DEF Full, Present
  <2>4. Translate(q)' = [frame |-> E4(q)'.addr,
                         write |-> /\ "write" \in E1(q)'.flags /\ "write" \in E2(q)'.flags
                                   /\ "write" \in E3(q)'.flags /\ "write" \in E4(q)'.flags]
    BY <2>3, TranslateIsNext DEF Walked
  <2>5. (/\ "write" \in E1(q)'.flags /\ "write" \in E2(q)'.flags
         /\ "write" \in E3(q)'.flags /\ "write" \in E4(q)'.flags)
        = ("write" \in op[a].req.flags)
    <3>1. CASE "write" \in op[a].req.flags
      <4>1. "write" \in E1(q).flags /\ "write" \in E2(q).flags /\ "write" \in E3(q).flags
        BY <1>1, <3>1, LeafLed
      <4>2. /\ "write" \in E1(q)'.flags /\ "write" \in E2(q)'.flags
            /\ "write" \in E3(q)'.flags /\ "write" \in E4(q)'.flags
        BY <2>2, <3>1, <4>1
      <4> QED
        BY <3>1, <4>2
    <3>2. CASE "write" \notin op[a].req.flags
      <4>1. "write" \notin E4(q)'.flags
        BY <2>2, <3>2, LeafLed
      <4>2. ("write" \in op[a].req.flags) = FALSE
        BY <3>2
      <4>3. (/\ "write" \in E1(q)'.flags /\ "write" \in E2(q)'.flags
             /\ "write" \in E3(q)'.flags /\ "write" \in E4(q)'.flags) = FALSE
        BY <4>1
      <4> QED
        BY <4>2, <4>3
    <3> QED
      BY <3>1, <3>2
  <2> QED
    BY <1>1, <2>2, <2>4, <2>5
<1>2. CASE q # op[a].req.page
  <2>1. Full(q)' <=> Full(q)
    <3>1. Full(q)' <=> Present(E1(q)') /\ Present(E2(q)') /\ Present(E3(q)') /\ Present(E4(q)')
      BY DEF Full, Present
    <3> QED
      BY <1>2, <3>1, LeafWalk DEF Full
  <2>2. CASE ~Full(q)
    <3>1. Translate(q) = Zero
      BY <2>2, TranslateIs DEF Walked
    <3>2. Translate(q)' = Walked(q)' /\ ~Full(q)'
      BY <2>1, <2>2, TranslateIsNext
    <3>3. Translate(q)' = Zero
      BY <3>2 DEF Walked, Zero
    <3> QED
      BY <1>2, <3>1, <3>3
  <2>3. CASE Full(q)
    <3>1. E1(q)' = E1(q) /\ E2(q)' = E2(q) /\ E3(q)' = E3(q) /\ E4(q)' = E4(q)
      BY <1>2, <2>3, LeafWalk DEF Full
    <3>2. Translate(q)' = [frame |-> E4(q)'.addr,
                           write |-> /\ "write" \in E1(q)'.flags /\ "write" \in E2(q)'.flags
                                     /\ "write" \in E3(q)'.flags /\ "write" \in E4(q)'.flags]
      BY <2>1, <2>3, TranslateIsNext DEF Walked
    <3>3. Translate(q) = [frame |-> E4(q).addr,
                          write |-> /\ "write" \in E1(q).flags /\ "write" \in E2(q).flags
                                    /\ "write" \in E3(q).flags /\ "write" \in E4(q).flags]
      BY <2>3, TranslateIs DEF Walked
    <3> QED
      BY <1>2, <3>1, <3>2, <3>3
  <2> QED
    BY <2>2, <2>3
<1> QED
  BY <1>1, <1>2

-----------------------------------------------------------------------------
(* The steps of the calls, and what the kernel's requests amount to.       *)
Begins(a, req) == Asks(req) /\ MapPages(a, req) /\ booted' \in 0 .. Len(BootMaps)

GoesOn(a) == Test(a) \/ Store(a) \/ Clear(a) \/ Or(a) \/ Leaf(a) \/ Flush(a)

LEMMA Requested ==
    /\ \A p \in Pages, f \in Frames, flags \in SUBSET Flags, low \in SUBSET Flags :
          ("write" \in low => "write" \in flags) => Asks(Request(p, f, flags, low))
    /\ {"write"} \in SUBSET Flags /\ {} \in SUBSET Flags /\ "write" \notin {}
    /\ HhdmPages \cup DevicePages \cup HeapPages \cup ImagePages \subseteq Pages
    /\ ImageFrames \subseteq Frames
    /\ \A p \in HhdmPages \cup DevicePages \cup HeapPages : Frame[p] \in Frames
<1>1. \A p \in Pages, f \in Frames, flags \in SUBSET Flags, low \in SUBSET Flags :
        ("write" \in low => "write" \in flags) => Asks(Request(p, f, flags, low))
  <2> SUFFICES ASSUME NEW p \in Pages, NEW f \in Frames,
                      NEW flags \in SUBSET Flags, NEW low \in SUBSET Flags,
                      "write" \in low => "write" \in flags
               PROVE  Asks(Request(p, f, flags, low))
    OBVIOUS
  <2>1. /\ Request(p, f, flags, low) \in Requests
        /\ Request(p, f, flags, low).low = low /\ Request(p, f, flags, low).flags = flags
    BY DEF Request, Requests
  <2> QED
    BY <2>1 DEF Asks
<1>2. {"write"} \in SUBSET Flags /\ {} \in SUBSET Flags /\ "write" \notin {}
  BY DEF Flags
<1>3. HhdmPages \cup DevicePages \cup HeapPages \cup ImagePages \subseteq Pages
  BY DEF Pages
<1>4. ImageFrames \subseteq Frames
  BY DEF Frames
<1>5. \A p \in HhdmPages \cup DevicePages \cup HeapPages : Frame[p] \in Frames
  BY PagingAssumption DEF Frames
<1> QED
  BY <1>1, <1>2, <1>3, <1>4, <1>5

LEMMA BootRequested ==
    ASSUME Types, booted < Len(BootMaps)
    PROVE  Asks(BootMaps[booted + 1]) /\ booted + 1 \in 0 .. Len(BootMaps)
<1>1. Len(BootMaps) \in Nat /\ DOMAIN BootMaps = 1 .. Len(BootMaps)
      /\ \A n \in 1 .. Len(BootMaps) : BootMaps[n] \in Requests
  BY PagingAssumption
<1>2. booted + 1 \in 1 .. Len(BootMaps) /\ booted + 1 \in 0 .. Len(BootMaps)
  BY <1>1 DEF Types
<1>3. /\ BootMaps[booted + 1] \in Requests
      /\ "write" \in BootMaps[booted + 1].low => "write" \in BootMaps[booted + 1].flags
  BY <1>1, <1>2, PagingAssumption
<1> QED
  BY <1>2, <1>3 DEF Asks

LEMMA ThreadRequested ==
    ASSUME Types, NEW a \in Actors, AcpiOsMapMemory(a) \/ AddGlobalPage(a) \/ LoadSection(a)
    PROVE  \E req : Asks(req) /\ MapPages(a, req)
<1>1. CASE AcpiOsMapMemory(a)
  <2>1. PICK p \in HhdmPages, low \in OffsetFlags :
            MapPages(a, Request(p, Frame[p], {"write"}, low))
    BY <1>1 DEF AcpiOsMapMemory
  <2>2. low \in SUBSET Flags /\ p \in Pages /\ Frame[p] \in Frames /\ "write" \in {"write"}
    BY PagingAssumption, Requested
  <2>3. Asks(Request(p, Frame[p], {"write"}, low))
    BY <2>2, Requested
  <2> QED
    BY <2>1, <2>3
<1>2. CASE AddGlobalPage(a)
  <2>1. PICK p \in DevicePages, flags \in DeviceFlags :
            MapPages(a, Request(p, Frame[p], flags, {}))
    BY <1>2 DEF AddGlobalPage
  <2>2. flags \in SUBSET Flags /\ p \in Pages /\ Frame[p] \in Frames
    BY PagingAssumption, Requested
  <2>3. Asks(Request(p, Frame[p], flags, {}))
    BY <2>2, Requested
  <2> QED
    BY <2>1, <2>3
<1>3. CASE LoadSection(a)
  <2>1. PICK p \in ImagePages, f \in ImageFrames, flags \in {{}, {"write"}} :
            MapPages(a, Request(p, f, flags, {}))
    BY <1>3 DEF LoadSection
  <2>2. flags \in SUBSET Flags /\ p \in Pages /\ f \in Frames
    BY Requested
  <2>3. Asks(Request(p, f, flags, {}))
    BY <2>2, Requested
  <2> QED
    BY <2>1, <2>3
<1> QED
  BY <1>1, <1>2, <1>3

LEMMA NextCases ==
    ASSUME Types, [Next]_vars
    PROVE  \/ \E a \in Actors : \E req : Begins(a, req)
           \/ SetCr3
           \/ \E a \in Actors : GoesOn(a)
           \/ \E p \in Pages : Access(p)
           \/ UNCHANGED vars
<1>0. Threads \subseteq Actors /\ Fault \in Actors /\ booted \in 0 .. Len(BootMaps)
  BY DEF Actors, Types
<1>1. ASSUME NEW a \in Threads, CreatePml4(a)
      PROVE  \E b \in Actors : \E req : Begins(b, req)
  <2>1. MapPages(a, BootMaps[booted + 1]) /\ booted' = booted + 1 /\ booted < Len(BootMaps)
    BY <1>1 DEF CreatePml4
  <2> QED
    BY <1>0, <2>1, BootRequested DEF Begins
<1>2. ASSUME NEW a \in Threads, ThreadMaps(a)
      PROVE  \E b \in Actors : \E req : Begins(b, req)
  <2>1. booted' = booted /\ (AcpiOsMapMemory(a) \/ AddGlobalPage(a) \/ LoadSection(a))
    BY <1>2 DEF ThreadMaps
  <2> QED
    BY <1>0, <2>1, ThreadRequested DEF Begins
<1>3. ASSUME Interrupt14
      PROVE  \E b \in Actors : \E req : Begins(b, req)
  <2>1. PICK p \in HeapPages, low \in OffsetFlags :
            MapPages(Fault, Request(p, Frame[p], {"write"}, low)) /\ booted' = booted
    BY <1>3 DEF Interrupt14
  <2>2. low \in SUBSET Flags /\ p \in Pages /\ Frame[p] \in Frames /\ "write" \in {"write"}
    BY PagingAssumption, Requested
  <2>3. Asks(Request(p, Frame[p], {"write"}, low))
    BY <2>2, Requested
  <2> QED
    BY <1>0, <2>1, <2>3 DEF Begins
<1> QED
  BY <1>1, <1>2, <1>3 DEF Next, GoesOn

-----------------------------------------------------------------------------
(* The types hold after any step, the one that races too.                  *)
LEMMA StepTypes ==
    ASSUME Types, NEW a \in Actors, entry' \in [Tables -> [Index -> Entries]],
           tables' \in Tables, tables <= tables',
           op' \in [Actors -> {Idle} \cup Ops],
           op'[a] # Idle => op'[a].table <= tables',
           \A b \in Actors \ {a} : op'[b] = op[b],
           booted' \in 0 .. Len(BootMaps), live' \in BOOLEAN, raced' \in BOOLEAN,
           tlb' # Zero => tlb'.page \in Pages
    PROVE  Types'
<1>1. ASSUME NEW b \in Actors, op'[b] # Idle PROVE op'[b].table <= tables'
  <2>1. CASE b = a
    BY <1>1, <2>1
  <2>2. CASE b # a
    <3>1. op[b] # Idle /\ op'[b].table = op[b].table /\ op[b].table <= tables
      BY <1>1, <2>2 DEF Types
    <3>2. op[b].table \in Nat /\ tables \in Nat /\ tables' \in Nat
      BY <3>1, PagingAssumption DEF Types, Ops, Tables, Pml4
    <3> QED
      BY <3>1, <3>2
  <2> QED
    BY <2>1, <2>2
<1> QED
  BY <1>1 DEF Types

LEMMA TypesKept ==
    ASSUME Inv, [Next]_vars
    PROVE  Types'
<1>0. Types
  BY DEF Inv
<1>1. /\ entry \in [Tables -> [Index -> Entries]]
      /\ tables \in Tables /\ tables \in Nat /\ tables <= tables
      /\ op \in [Actors -> {Idle} \cup Ops]
      /\ booted \in 0 .. Len(BootMaps) /\ live \in BOOLEAN /\ raced \in BOOLEAN
      /\ (tlb # Zero => tlb.page \in Pages)
  BY <1>0, TableNumbers DEF Types
<1>2. ASSUME ~raced PROVE \E place : Tree(place)
  BY <1>2 DEF Inv, TreeInv
<1>3. ASSUME NEW a \in Actors, NEW req, Begins(a, req) PROVE Types'
  <2>1. ~raced /\ UNCHANGED <<entry, tables, live, tlb, raced>> /\ booted' \in 0 .. Len(BootMaps)
    BY <1>3 DEF Begins, MapPages, Goes
  <2>2. PICK place : Tree(place)
    BY <1>2, <2>1
  <2>3. /\ op' \in [Actors -> {Idle} \cup Ops] /\ op'[a].table = Pml4
        /\ \A b \in Actors \ {a} : op'[b] = op[b]
    BY <1>0, <1>3, <2>2, MapPagesKeeps DEF Begins
  <2>4. Pml4 <= tables'
    BY <1>0, <2>1, TableNumbers
  <2> QED
    BY <1>0, <1>1, <2>1, <2>3, <2>4, StepTypes
<1>4. ASSUME SetCr3 PROVE Types'
  BY <1>0, <1>4 DEF SetCr3, Types
<1>5. ASSUME NEW a \in Actors, GoesOn(a) PROVE Types'
  <2>0. ~raced
    BY <1>5 DEF GoesOn, Test, Store, Clear, Or, Leaf, Flush, Goes
  <2>1. PICK place : Tree(place)
    BY <1>2, <2>0
  <2>2. op[a] # Idle => op[a].table <= tables /\ op[a].table \in Nat
    BY <1>0, PagingAssumption DEF Types, Ops, Tables, Pml4
  <2>3. op[a].pc # "idle" => op[a] # Idle
    BY DEF Idle
  <2>4. CASE Test(a)
    <3>1. UNCHANGED <<entry, tables, booted, live, tlb, raced>>
      BY <2>4 DEF Test
    <3>2. /\ op' \in [Actors -> {Idle} \cup Ops] /\ op'[a].table = op[a].table
          /\ op[a].pc # "idle" /\ \A b \in Actors \ {a} : op'[b] = op[b]
      BY <1>0, <2>1, <2>4, TestKeeps
    <3> QED
      BY <1>0, <1>1, <2>2, <2>3, <3>1, <3>2, StepTypes
  <2>5. CASE Store(a)
    <3>1. UNCHANGED <<booted, live, tlb>>
      BY <2>5 DEF Store
    <3>2. PICK e \in Entries :
             /\ op[a].pc = "store" /\ tables' = tables + 1 /\ tables' \in Tables
             /\ Writes(a, e)
             /\ op' \in [Actors -> {Idle} \cup Ops] /\ op'[a].table = op[a].table
             /\ \A b \in Actors \ {a} : op'[b] = op[b]
      BY <1>0, <2>1, <2>5, StoreParts
    <3>3. entry' \in [Tables -> [Index -> Entries]]
      BY <1>0, <2>1, <3>2, WritesOne
    <3>4. raced' \in BOOLEAN
      BY <3>2 DEF Writes
    <3>5. tables <= tables' /\ op'[a].table <= tables'
      BY <1>1, <2>2, <2>3, <3>2
    <3> QED
      BY <1>0, <1>1, <3>1, <3>2, <3>3, <3>4, <3>5, StepTypes
  <2>6. CASE Clear(a)
    <3>1. UNCHANGED <<tables, booted, live, tlb, raced>>
      BY <2>6 DEF Clear
    <3>2. /\ op' \in [Actors -> {Idle} \cup Ops] /\ op'[a].table = op[a].table
          /\ op[a].pc # "idle" /\ \A b \in Actors \ {a} : op'[b] = op[b]
          /\ entry' \in [Tables -> [Index -> Entries]]
      BY <1>0, <2>1, <2>6, ClearParts
    <3> QED
      BY <1>0, <1>1, <2>2, <2>3, <3>1, <3>2, StepTypes
  <2>7. CASE Or(a)
    <3>1. UNCHANGED <<tables, booted, live, tlb>>
      BY <2>7 DEF Or
    <3>2. PICK e \in Entries :
             /\ op[a].pc = "or" /\ Writes(a, e)
             /\ op' \in [Actors -> {Idle} \cup Ops] /\ op'[a].table = Entry(a).addr
             /\ \A b \in Actors \ {a} : op'[b] = op[b]
      BY <1>0, <2>1, <2>7, OrParts
    <3>3. entry' \in [Tables -> [Index -> Entries]]
      BY <1>0, <2>1, <3>2, WritesOne
    <3>4. raced' \in BOOLEAN
      BY <3>2 DEF Writes
    <3>5. op'[a].table <= tables
      BY <1>0, <2>1, <3>2, NextTable
    <3> QED
      BY <1>0, <1>1, <3>1, <3>2, <3>3, <3>4, <3>5, StepTypes
  <2>8. CASE Leaf(a)
    <3>1. UNCHANGED <<tables, booted, live, tlb, raced>>
      BY <2>8 DEF Leaf
    <3>2. /\ op' \in [Actors -> {Idle} \cup Ops] /\ op'[a].table = op[a].table
          /\ op[a].pc # "idle" /\ \A b \in Actors \ {a} : op'[b] = op[b]
          /\ entry' \in [Tables -> [Index -> Entries]]
      BY <1>0, <2>1, <2>8, LeafParts
    <3> QED
      BY <1>0, <1>1, <2>2, <2>3, <3>1, <3>2, StepTypes
  <2>9. CASE Flush(a)
    <3>1. UNCHANGED <<entry, tables, booted, live, raced>> /\ tlb' \in {tlb, Zero}
      BY <2>9 DEF Flush
    <3>2. /\ op' \in [Actors -> {Idle} \cup Ops] /\ op'[a] = Idle
          /\ \A b \in Actors \ {a} : op'[b] = op[b]
      BY <1>0, <2>1, <2>9, FlushKeeps
    <3> QED
      BY <1>0, <1>1, <3>1, <3>2, StepTypes
  <2> QED
    BY <1>5, <2>4, <2>5, <2>6, <2>7, <2>8, <2>9 DEF GoesOn
<1>6. ASSUME NEW p \in Pages, Access(p) PROVE Types'
  <2>1. UNCHANGED <<entry, tables, op, booted, live, raced>> /\ tlb'.page = p
    BY <1>6 DEF Access
  <2> QED
    BY <1>0, <2>1 DEF Types
<1>7. ASSUME UNCHANGED vars PROVE Types'
  BY <1>0, <1>7 DEF vars, Types
<1> QED
  BY <1>0, <1>3, <1>4, <1>5, <1>6, <1>7, NextCases

-----------------------------------------------------------------------------
(* The tree after any step that does not race.                             *)
LEMMA TreeKept ==
    ASSUME Inv, [Next]_vars
    PROVE  TreeInv'
<1> SUFFICES ASSUME ~raced' PROVE \E place : Tree(place)'
  BY DEF TreeInv
<1>0. Types
  BY DEF Inv
<1>1. ASSUME ~raced PROVE \E place : Tree(place)
  BY <1>1 DEF Inv, TreeInv
<1>2. ASSUME NEW a \in Actors, NEW req, Begins(a, req) PROVE \E place : Tree(place)'
  <2>1. PICK place : Tree(place)
    BY <1>1, <1>2 DEF Begins, MapPages, Goes
  <2> QED
    BY <1>0, <1>2, <2>1, MapPagesKeeps DEF Begins
<1>3. ASSUME NEW a \in Actors, GoesOn(a) PROVE \E place : Tree(place)'
  <2>0. ~raced
    BY <1>3 DEF GoesOn, Test, Store, Clear, Or, Leaf, Flush, Goes
  <2>1. PICK place : Tree(place)
    BY <1>1, <2>0
  <2> QED
    BY <1>0, <1>3, <2>1, TestKeeps, StoreKeeps, ClearKeeps, OrKeeps, LeafKeeps, FlushKeeps
    DEF GoesOn
<1>4. ASSUME UNCHANGED <<entry, tables, op, raced>> PROVE \E place : Tree(place)'
  <2>1. PICK place : Tree(place)
    BY <1>1, <1>4
  <2>2. Tree(place)'
    <3>1. \A t : Fresh(t)' <=> Fresh(t)
      BY <1>4 DEF Fresh, HasFresh, Entry, Slot, Present
    <3>2. \A t : Uncleared(t)' <=> Uncleared(t)
      BY <1>4 DEF Uncleared, Entry, Slot
    <3>3. TablesInv(place)'
      <4>1. ASSUME NEW t \in 1 .. tables, NEW i \in Index, place[t].level <= 3, ~Uncleared(t)'
            PROVE  /\ entry[t][i].addr \in 0 .. tables
                   /\ Present(entry[t][i]) =>
                        /\ entry[t][i].addr \in 1 .. tables
                        /\ ~Fresh(entry[t][i].addr)
                        /\ Below(place, entry[t][i].addr, t, i)
        BY <2>1, <3>2, <4>1 DEF Tree, TablesInv
      <4>2. place \in Places /\ place[Pml4].level = 1
        BY <2>1 DEF Tree, TablesInv
      <4>3. \A t, i : ~Fresh(entry[t][i].addr) => ~Fresh(entry[t][i].addr)'
        BY <1>4, <3>1 DEF Fresh
      <4> QED
        BY <1>4, <4>1, <4>2, <4>3 DEF TablesInv, Present
    <3>4. ASSUME NEW a \in Actors PROVE CallInv(place, a)' /\ FreshInv(place, a)'
      <4>1. CallInv(place, a) /\ FreshInv(place, a)
        BY <2>1 DEF Tree
      <4>2. ~Fresh(op[a].table) => ~Fresh(op[a].table)'
        BY <1>4, <3>1 DEF Fresh
      <4>3. Led(a) => Led(a)'
        BY <1>4, Zenon DEF Led, E1, E2, E3
      <4>4. CallInv(place, a)'
        BY <1>4, <4>1, <4>2, <4>3 DEF CallInv
      <4>5. FreshInv(place, a)'
        BY <1>4, <4>1, Zenon DEF FreshInv, HasFresh, Entry, Slot, Present
      <4> QED
        BY <4>4, <4>5
    <3>5. WriteInv'
      BY <1>4, <2>1, Zenon DEF Tree, WriteInv, Full, E1, E2, E3, E4, Present
    <3> QED
      BY <3>3, <3>4, <3>5 DEF Tree
  <2> QED
    BY <2>2
<1>5. SetCr3 \/ (\E p \in Pages : Access(p)) \/ UNCHANGED vars
         => UNCHANGED <<entry, tables, op, raced>>
  BY DEF SetCr3, Access, vars
<1> QED
  BY <1>0, <1>2, <1>3, <1>4, <1>5, NextCases

LEMMA InitInv == Init => Inv
<1> SUFFICES ASSUME Init PROVE Inv
  OBVIOUS
<1>0. /\ entry = [t \in Tables |-> [i \in Index |-> IF t = Pml4 THEN Zero ELSE Unknown]]
      /\ tables = 1 /\ op = [a \in Actors |-> Idle]
      /\ booted = 0 /\ live = FALSE /\ tlb = Zero /\ raced = FALSE
  BY DEF Init
<1>1. Pml4 = 1 /\ Pml4 \in Tables /\ Len(BootMaps) \in Nat
  BY PagingAssumption DEF Tables, Pml4
<1>2. Zero \in Entries /\ Unknown \in Entries /\ Zero.addr = 0 /\ ~Present(Zero)
  BY <1>1 DEF Zero, Unknown, Entries, Flags, Present
<1>3. Types
  <2>1. \A t \in Tables : [i \in Index |-> IF t = Pml4 THEN Zero ELSE Unknown] \in [Index -> Entries]
    BY <1>2
  <2>2. entry \in [Tables -> [Index -> Entries]]
    BY <1>0, <2>1
  <2>3. op \in [Actors -> {Idle} \cup Ops] /\ \A a \in Actors : op[a] = Idle
    BY <1>0
  <2>4. tables \in Tables /\ booted \in 0 .. Len(BootMaps)
    BY <1>0, <1>1
  <2> QED
    BY <1>0, <2>2, <2>3, <2>4 DEF Types
<1>4. \A i \in Index : entry[Pml4][i] = Zero
  BY <1>0, <1>1
<1>5. \A a \in Actors : op[a] = Idle /\ op[a].pc = "idle"
  BY <1>0 DEF Idle
<1>6. \A a \in Actors : ~HasFresh(a) /\ op[a].pc # "clear" /\ op[a].pc # "or" /\ op[a].pc # "store"
  BY <1>5 DEF HasFresh
<1>7. PICK place : place = [t \in Tables |-> [level |-> 1, page |-> Zero]]
  OBVIOUS
<1>8. place \in Places /\ place[Pml4].level = 1
  <2>1. [level |-> 1, page |-> Zero] \in [level : 1 .. 4, page : Pages \cup {Zero}]
    OBVIOUS
  <2> QED
    BY <1>1, <1>7, <2>1 DEF Places
<1>9. TablesInv(place)
  <2>1. \A t \in 1 .. tables : t = Pml4
    BY <1>0, <1>1
  <2>2. \A i \in Index : entry[Pml4][i].addr \in 0 .. tables /\ ~Present(entry[Pml4][i])
    BY <1>0, <1>2, <1>4
  <2> QED
    BY <1>8, <2>1, <2>2 DEF TablesInv
<1>10. \A a \in Actors : CallInv(place, a) /\ FreshInv(place, a)
  BY <1>5, <1>6 DEF CallInv, FreshInv
<1>11. WriteInv
  <2>1. \A p \in Pages : ~Full(p)
    BY <1>2, <1>3, <1>4, TableNumbers DEF Full, E1
  <2> QED
    BY <2>1 DEF WriteInv
<1> QED
  BY <1>3, <1>9, <1>10, <1>11 DEF Inv, TreeInv, Tree

LEMMA InvStep == Inv /\ [Next]_vars => Inv'
BY TypesKept, TreeKept DEF Inv

LEMMA InvHolds == Spec => []Inv
BY InitInv, InvStep, PTL DEF Spec

(* Every number of a table, level and flag stays in its range: no call of  *)
(* GetNextLevel (paging.cpp:15) descends into a table that does not exist, *)
(* or a fifth time.                                                        *)
THEOREM TypeCorrect == Spec => []TypeOK
<1>1. Inv => TypeOK
  <2> SUFFICES ASSUME Types PROVE TypeOK
    BY DEF Inv
  <2>1. \A t \in Tables, i \in Index :
            entry[t][i].flags \subseteq Flags /\ entry[t][i].addr \in Tables \cup Frames \cup {0}
    BY TableNumbers DEF Entries
  <2>2. ASSUME NEW a \in Actors, op[a] # Idle
        PROVE  /\ op[a].pc \in {"test", "store", "clear", "or", "leaf", "flush"}
               /\ op[a].level \in 1 .. 4
               /\ op[a].table \in 1 .. tables
               /\ op[a].req \in Requests
    <3>1. op[a] \in Ops /\ op[a].table <= tables
      BY <2>2 DEF Types
    <3>2. op[a].table \in 1 .. tables
      BY <3>1, TableNumbers, PagingAssumption DEF Ops, Tables, Pml4
    <3> QED
      BY <3>1, <3>2 DEF Ops
  <2> QED
    BY <2>1, <2>2 DEF TypeOK, Types
<1> QED
  BY <1>1, InvHolds, PTL

-----------------------------------------------------------------------------
(* Only the store to the last level changes the map.                       *)
LEMMA MapStays ==
    ASSUME Types, NEW place, Tree(place), NEW a \in Actors,
           \/ \E req : Begins(a, req)
           \/ Test(a) \/ Store(a) \/ Clear(a) \/ Or(a) \/ Flush(a),
           NEW p \in Pages
    PROVE  Translate(p)' = Translate(p)
<1>1. Grows(place) /\ LinksEmpty(place)
  BY MapPagesKeeps, TestKeeps, StoreGrows, ClearKeeps, OrGrows, FlushKeeps DEF Begins
<1> QED
  BY <1>1, TranslateStays

(* What a step of call a does to the states of the calls.                  *)
LEMMA CallSteps ==
    ASSUME Types, NEW place, Tree(place), NEW a \in Actors
    PROVE  /\ (\E req : Begins(a, req)) \/ GoesOn(a) => \A b \in Actors \ {a} : op'[b] = op[b]
           /\ Test(a) \/ Store(a) \/ Clear(a) \/ Or(a) =>
                /\ op[a].pc \notin {"idle", "flush"} /\ op'[a].pc \notin {"idle", "flush"}
                /\ op'[a].req = op[a].req
           /\ Leaf(a) => op[a].pc = "leaf" /\ op'[a].pc = "flush" /\ op'[a].req = op[a].req
           /\ Flush(a) => op[a].pc = "flush" /\ op'[a] = Idle
<1>1. ASSUME NEW req, Begins(a, req) PROVE \A b \in Actors \ {a} : op'[b] = op[b]
  BY <1>1, MapPagesKeeps DEF Begins
<1>2. ASSUME Or(a)
      PROVE  /\ \A b \in Actors \ {a} : op'[b] = op[b]
             /\ op[a].pc \notin {"idle", "flush"} /\ op'[a].pc \notin {"idle", "flush"}
             /\ op'[a].req = op[a].req
  <2>1. op'[a].pc = IF op[a].level = 3 THEN "leaf" ELSE "test"
    BY <1>2, OrParts
  <2>2. op'[a].pc = "leaf" \/ op'[a].pc = "test"
    BY <2>1
  <2> QED
    BY <1>2, <2>2, OrParts
<1>3. ASSUME Test(a)
      PROVE  /\ \A b \in Actors \ {a} : op'[b] = op[b]
             /\ op[a].pc \notin {"idle", "flush"} /\ op'[a].pc \notin {"idle", "flush"}
             /\ op'[a].req = op[a].req
  BY <1>3, TestKeeps
<1>4. ASSUME Store(a) \/ Clear(a)
      PROVE  /\ \A b \in Actors \ {a} : op'[b] = op[b]
             /\ op[a].pc \notin {"idle", "flush"} /\ op'[a].pc \notin {"idle", "flush"}
             /\ op'[a].req = op[a].req
  BY <1>4, StoreParts, ClearParts
<1>5. ASSUME Leaf(a)
      PROVE  /\ \A b \in Actors \ {a} : op'[b] = op[b]
             /\ op[a].pc = "leaf" /\ op'[a].pc = "flush" /\ op'[a].req = op[a].req
  BY <1>5, LeafParts
<1>6. ASSUME Flush(a)
      PROVE  /\ \A b \in Actors \ {a} : op'[b] = op[b]
             /\ op[a].pc = "flush" /\ op'[a] = Idle
  BY <1>6, FlushKeeps
<1> QED
  BY <1>1, <1>2, <1>3, <1>4, <1>5, <1>6 DEF GoesOn

(* A step that keeps what the CPU has cached, and what makes that right.   *)
LEMMA CachedAfter ==
    ASSUME TlbCoherent, tlb' = tlb, NEW q, q = tlb.page,
           \/ Translate(q)' = Translate(q)
           \/ \E a \in Actors : op'[a].pc = "flush" /\ op'[a].req.page = q,
           \A a \in Actors : op[a].pc = "flush" /\ op[a].req.page = q => op'[a] = op[a]
    PROVE  TlbCoherent'
<1>1. Translate(tlb.page)' = Translate(q)' /\ Translate(tlb.page) = Translate(q)
  <2>1. tlb'.page = q
    OBVIOUS
  <2>2. Path(tlb.page)' = Path(q)'
    BY <2>1, Zenon DEF Path
  <2>3. Translate(tlb.page)' = Translate(q)'
    BY <2>2, Zenon DEF Translate
  <2> QED
    BY <2>3
<1>2. CASE tlb = Zero
  BY <1>2 DEF TlbCoherent, Zero
<1>3. CASE tlb # Zero /\ tlb.backing = Translate(q)
  BY <1>1, <1>3 DEF TlbCoherent
<1>4. CASE \E a \in Actors : op[a].pc = "flush" /\ op[a].req.page = q
  <2>1. \E a \in Actors : op'[a].pc = "flush" /\ op'[a].req.page = tlb'.page
    BY <1>4
  <2> QED
    BY <2>1 DEF TlbCoherent
<1> QED
  BY <1>1, <1>2, <1>3, <1>4 DEF TlbCoherent

(* The CPU keeps no translation that the tables no longer say, but for one *)
(* that a call is about to drop: MapPages executes invlpg (paging.cpp:116) *)
(* after the only store that can change what a page maps to, and ORing     *)
(* flags into the levels above never does.                                 *)
THEOREM CachedIsCurrent == Spec => []TlbCoherent
<1>1. Init => TlbCoherent
  BY DEF Init, TlbCoherent
<1>2. Inv /\ TlbCoherent /\ [Next]_vars => TlbCoherent'
  <2> SUFFICES ASSUME Inv, TlbCoherent, [Next]_vars PROVE TlbCoherent'
    OBVIOUS
  <2>0. Types /\ (~raced => \E place : Tree(place))
    BY DEF Inv, TreeInv
  <2>1. PICK q : q = tlb.page
    OBVIOUS
  <2>2. tlb' = Zero => TlbCoherent'
    BY DEF TlbCoherent, Zero
  <2>3. tlb # Zero => q \in Pages
    BY <2>0, <2>1 DEF Types
  <2>4. ASSUME tlb = Zero, tlb' = tlb PROVE TlbCoherent'
    BY <2>2, <2>4
  <2>5. ASSUME NEW a \in Actors, NEW req, Begins(a, req) PROVE TlbCoherent'
    <3>1. ~raced /\ tlb' = tlb /\ op[a].pc = "idle"
      BY <2>5 DEF Begins, MapPages, Goes
    <3>2. PICK place : Tree(place)
      BY <2>0, <3>1
    <3>3. \A b \in Actors \ {a} : op'[b] = op[b]
      BY <2>0, <2>5, <3>2, CallSteps
    <3>4. tlb # Zero => Translate(q)' = Translate(q)
      BY <2>0, <2>3, <2>5, <3>2, MapStays
    <3> QED
      BY <2>1, <2>4, <3>1, <3>3, <3>4, CachedAfter
  <2>6. ASSUME SetCr3 PROVE TlbCoherent'
    BY <2>2, <2>6 DEF SetCr3
  <2>7. ASSUME NEW a \in Actors, Test(a) \/ Store(a) \/ Clear(a) \/ Or(a) PROVE TlbCoherent'
    <3>1. ~raced /\ tlb' = tlb
      BY <2>7 DEF Test, Store, Clear, Or, Goes
    <3>2. PICK place : Tree(place)
      BY <2>0, <3>1
    <3>3. op[a].pc # "flush" /\ \A b \in Actors \ {a} : op'[b] = op[b]
      BY <2>0, <2>7, <3>2, CallSteps DEF GoesOn
    <3>4. tlb # Zero => Translate(q)' = Translate(q)
      BY <2>0, <2>3, <2>7, <3>2, MapStays
    <3> QED
      BY <2>1, <2>4, <3>1, <3>3, <3>4, CachedAfter
  <2>8. ASSUME NEW a \in Actors, Leaf(a) PROVE TlbCoherent'
    <3>1. ~raced /\ tlb' = tlb
      BY <2>8 DEF Leaf, Goes
    <3>2. PICK place : Tree(place)
      BY <2>0, <3>1
    <3>3. /\ op[a].pc # "flush" /\ op'[a].pc = "flush" /\ op'[a].req = op[a].req
          /\ \A b \in Actors \ {a} : op'[b] = op[b]
      BY <2>0, <2>8, <3>2, CallSteps DEF GoesOn
    <3>4. CASE q = op[a].req.page
      BY <2>1, <3>1, <3>3, <3>4, CachedAfter
    <3>5. CASE q # op[a].req.page
      <4>1. tlb # Zero => Translate(q)' = Translate(q)
        BY <2>0, <2>3, <2>8, <3>2, <3>5, LeafMaps
      <4> QED
        BY <2>1, <2>4, <3>1, <3>3, <4>1, CachedAfter
    <3> QED
      BY <3>4, <3>5
  <2>9. ASSUME NEW a \in Actors, Flush(a) PROVE TlbCoherent'
    <3>1. ~raced /\ tlb' = IF tlb # Zero /\ q = op[a].req.page THEN Zero ELSE tlb
      BY <2>1, <2>9 DEF Flush, Goes
    <3>2. PICK place : Tree(place)
      BY <2>0, <3>1
    <3>3. \A b \in Actors \ {a} : op'[b] = op[b]
      BY <2>0, <2>9, <3>2, CallSteps DEF GoesOn
    <3>4. tlb # Zero => Translate(q)' = Translate(q)
      BY <2>0, <2>3, <2>9, <3>2, MapStays
    <3>5. CASE tlb # Zero /\ q = op[a].req.page
      BY <2>2, <3>1, <3>5
    <3>6. CASE tlb # Zero /\ q # op[a].req.page
      <4>1. tlb' = tlb
        BY <3>1, <3>6
      <4>2. \A b \in Actors : op[b].pc = "flush" /\ op[b].req.page = q => op'[b] = op[b]
        BY <3>3, <3>6
      <4> QED
        BY <2>1, <3>4, <3>6, <4>1, <4>2, CachedAfter
    <3>7. CASE tlb = Zero
      BY <2>4, <3>1, <3>7
    <3> QED
      BY <3>5, <3>6, <3>7
  <2>10. ASSUME NEW p \in Pages, Access(p) PROVE TlbCoherent'
    <3>1. /\ UNCHANGED <<entry, op>>
          /\ tlb' = [page |-> p, backing |-> Translate(p)]
      BY <2>10 DEF Access
    <3>2. tlb'.page = p /\ tlb'.backing = Translate(p)
      BY <3>1
    <3>3. Path(tlb.page)' = Path(p)
      BY <3>1, <3>2, Zenon DEF Path
    <3>4. Translate(tlb.page)' = Translate(p)
      BY <3>3, Zenon DEF Translate
    <3> QED
      BY <3>2, <3>4 DEF TlbCoherent
  <2>11. ASSUME UNCHANGED vars PROVE TlbCoherent'
    <3>1. tlb' = tlb /\ op' = op /\ Translate(q)' = Translate(q)
      BY <2>11 DEF vars, Translate, Path
    <3> QED
      BY <2>1, <3>1, CachedAfter
  <2> QED
    BY <2>0, <2>5, <2>6, <2>7, <2>8, <2>9, <2>10, <2>11, NextCases DEF GoesOn
<1> QED
  BY <1>1, <1>2, InvHolds, PTL DEF Spec

-----------------------------------------------------------------------------
(* The calls and the map that module PageMap sees.                         *)
LEMMA AskedAfter ==
    ASSUME NEW a \in Actors,
           \/ op'[a] = op[a]
           \/ op[a].pc \notin {"idle", "flush"} /\ op'[a].pc \notin {"idle", "flush"}
              /\ op'[a].req = op[a].req
    PROVE  Asked(a)' = Asked(a)
BY DEF Asked

LEMMA MapNext ==
    ASSUME \A p \in Pages : Translate(p)' = Translate(p)
    PROVE  [p \in Pages |-> Translate(p)]' = [p \in Pages |-> Translate(p)]
OBVIOUS

LEMMA CallsNext ==
    ASSUME \A a \in Actors : Asked(a)' = Asked(a)
    PROVE  [a \in Actors |-> Asked(a)]' = [a \in Actors |-> Asked(a)]
OBVIOUS

LEMMA Stutters ==
    ASSUME \A p \in Pages : Translate(p)' = Translate(p),
           \A a \in Actors : Asked(a)' = Asked(a)
    PROVE  UNCHANGED Abstract!vars
BY MapNext, CallsNext DEF Abstract!vars

(* MapPages is the start of a call there.                                  *)
LEMMA BeginsOne ==
    ASSUME Types, NEW place, Tree(place), NEW a \in Actors, NEW req, Begins(a, req)
    PROVE  Abstract!Begin(a)
<1>1. /\ \A b \in Actors \ {a} : op'[b] = op[b]
      /\ op[a].pc = "idle" /\ op'[a].pc = "test"
      /\ op'[a].req.page \in Pages /\ op'[a].req.frame \in Frames
  BY MapPagesKeeps DEF Begins
<1>2. Asked(a) = Zero
  BY <1>1 DEF Asked
<1>3. Asked(a)' = [page |-> op'[a].req.page,
                   backing |-> [frame |-> op'[a].req.frame,
                                write |-> "write" \in op'[a].req.flags]]
  BY <1>1 DEF Asked
<1>4. [frame |-> op'[a].req.frame, write |-> "write" \in op'[a].req.flags] \in Backing
  BY <1>1 DEF Backing
<1>5. Asked(a)' \in [page : Pages, backing : Backing]
  BY <1>1, <1>3, <1>4
<1>6. \A b \in Actors \ {a} : Asked(b)' = Asked(b)
  BY <1>1, AskedAfter
<1>7. \A p \in Pages : Translate(p)' = Translate(p)
  BY MapStays
<1>8. [p \in Pages |-> Translate(p)]' = [p \in Pages |-> Translate(p)]
  BY <1>7, MapNext
<1>9. [b \in Actors |-> Asked(b)]'
        = [[b \in Actors |-> Asked(b)] EXCEPT ![a] = [b \in Actors |-> Asked(b)]'[a]]
  BY <1>6
<1>10. [b \in Actors |-> Asked(b)][a] = Zero /\ [b \in Actors |-> Asked(b)]'[a] = Asked(a)'
  BY <1>2
<1> QED
  BY <1>5, <1>8, <1>9, <1>10 DEF Abstract!Begin, Abstract!Call

(* The store to the last level is the moment at which a call takes effect. *)
LEMMA LeafTakesEffect ==
    ASSUME Types, NEW place, Tree(place), NEW a \in Actors, Leaf(a)
    PROVE  Abstract!TakeEffect(a)
<1>1. /\ \A b \in Actors \ {a} : op'[b] = op[b]
      /\ op[a].pc = "leaf" /\ op'[a].pc = "flush"
  BY CallSteps DEF GoesOn
<1>0. PICK w : w = [frame |-> op[a].req.frame, write |-> "write" \in op[a].req.flags]
  OBVIOUS
<1>2. PICK p \in Pages : p = op[a].req.page
  BY <1>1, OpParts
<1>3. Asked(a) = [page |-> p, backing |-> w]
  BY <1>0, <1>1, <1>2 DEF Asked
<1>4. Asked(a) # Zero /\ Asked(a).page = p /\ Asked(a).backing = w
  BY <1>3, NotZero
<1>5. Asked(a)' = Zero
  BY <1>1 DEF Asked, Zero
<1>6. \A b \in Actors \ {a} : Asked(b)' = Asked(b)
  BY <1>1, AskedAfter
<1>7. \A q \in Pages : Translate(q)' = IF q = p THEN w ELSE Translate(q)
  BY <1>0, <1>2, LeafMaps
<1>8. [q \in Pages |-> Translate(q)]' = [[q \in Pages |-> Translate(q)] EXCEPT ![p] = w]
  BY <1>7
<1>9. [b \in Actors |-> Asked(b)]' = [[b \in Actors |-> Asked(b)] EXCEPT ![a] = Zero]
  BY <1>5, <1>6
<1>10. [b \in Actors |-> Asked(b)][a] = Asked(a)
  OBVIOUS
<1> QED
  BY <1>4, <1>8, <1>9, <1>10 DEF Abstract!TakeEffect

LEMMA OtherStepsStutter ==
    ASSUME Types, NEW place, Tree(place), NEW a \in Actors,
           Test(a) \/ Store(a) \/ Clear(a) \/ Or(a) \/ Flush(a)
    PROVE  UNCHANGED Abstract!vars
<1>1. \A b \in Actors \ {a} : op'[b] = op[b]
  BY CallSteps DEF GoesOn
<1>2. \A p \in Pages : Translate(p)' = Translate(p)
  BY MapStays
<1>3. Asked(a)' = Asked(a)
  <2>1. CASE Flush(a)
    <3>1. op[a].pc = "flush" /\ op'[a].pc = "idle"
      BY <2>1, CallSteps DEF Idle
    <3>2. Asked(a) = Zero /\ Asked(a)' = Zero
      BY <3>1 DEF Asked, Zero
    <3> QED
      BY <3>2
  <2>2. CASE ~Flush(a)
    BY <2>2, CallSteps, AskedAfter
  <2> QED
    BY <2>1, <2>2
<1>4. \A b \in Actors : Asked(b)' = Asked(b)
  BY <1>1, <1>3, AskedAfter
<1> QED
  BY <1>2, <1>4, Stutters

(* Whatever is mapped at boot and by however many threads, and however     *)
(* their calls are preempted by each other and by the page fault handler:  *)
(* as long as no two of them are at one entry at once, each call of        *)
(* MapPages (paging.cpp:96) maps its page to its frame, with the write     *)
(* permission it asks for, in one store and touches no other page.         *)
THEOREM ImplementsMap == Spec => ImplementsPageMap
<1>1. Init => Abstract!Init
  <2> SUFFICES ASSUME Init PROVE Abstract!Init
    OBVIOUS
  <2>1. Types
    BY InitInv DEF Inv
  <2>2. \A i \in Index : entry[Pml4][i] = Zero
    BY <2>1, TableNumbers DEF Init
  <2>3. ~Present(Zero)
    BY DEF Present, Zero
  <2>4. \A p \in Pages : Translate(p) = Zero
    BY <2>1, <2>2, <2>3, TableNumbers, TranslateIs DEF Walked, Full, E1
  <2>5. \A a \in Actors : Asked(a) = Zero
    BY DEF Init, Asked, Idle
  <2> QED
    BY <2>4, <2>5 DEF Abstract!Init
<1>2. Inv /\ [Next]_vars => [Abstract!Next]_(Abstract!vars)
  <2> SUFFICES ASSUME Inv, [Next]_vars PROVE Abstract!Next \/ UNCHANGED Abstract!vars
    OBVIOUS
  <2>0. Types /\ (~raced => \E place : Tree(place))
    BY DEF Inv, TreeInv
  <2>1. ASSUME NEW a \in Actors, NEW req, Begins(a, req) PROVE Abstract!Next
    <3>1. PICK place : Tree(place)
      BY <2>0, <2>1 DEF Begins, MapPages, Goes
    <3>2. Abstract!Begin(a)
      BY <2>0, <2>1, <3>1, BeginsOne
    <3> QED
      BY <3>2 DEF Abstract!Next
  <2>2. ASSUME NEW a \in Actors, GoesOn(a) PROVE Abstract!Next \/ UNCHANGED Abstract!vars
    <3>1. ~raced
      BY <2>2 DEF GoesOn, Test, Store, Clear, Or, Leaf, Flush, Goes
    <3>2. PICK place : Tree(place)
      BY <2>0, <3>1
    <3>3. CASE Leaf(a)
      <4>1. Abstract!TakeEffect(a)
        BY <2>0, <3>2, <3>3, LeafTakesEffect
      <4> QED
        BY <4>1 DEF Abstract!Next
    <3>4. CASE ~Leaf(a)
      BY <2>0, <2>2, <3>2, <3>4, OtherStepsStutter DEF GoesOn
    <3> QED
      BY <3>3, <3>4
  <2>3. ASSUME UNCHANGED <<entry, op>> PROVE UNCHANGED Abstract!vars
    <3>1. \A p \in Pages : Translate(p)' = Translate(p)
      BY <2>3 DEF Translate, Path
    <3>2. \A a \in Actors : Asked(a)' = Asked(a)
      BY <2>3 DEF Asked
    <3> QED
      BY <3>1, <3>2, Stutters
  <2>4. SetCr3 \/ (\E p \in Pages : Access(p)) \/ UNCHANGED vars => UNCHANGED <<entry, op>>
    BY DEF SetCr3, Access, vars
  <2> QED
    BY <2>0, <2>1, <2>2, <2>3, <2>4, NextCases
<1> QED
  BY <1>1, <1>2, InvHolds, PTL DEF Spec, ImplementsPageMap, Abstract!Spec
=============================================================================
