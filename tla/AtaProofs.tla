------------------------------ MODULE AtaProofs ------------------------------
(***************************************************************************)
(* TypeOK, DriverVectorsDelivered and ProbeFindsDrives are invariants of   *)
(* the load of the ATA driver, whatever pins the I/O APIC has, however the *)
(* firmware left them and whatever drives there are.                       *)
(*                                                                         *)
(* None is inductive.  VectorInv says what the redirection table and the   *)
(* handlers are at each step of the boot, and that no entry is waiting for *)
(* an end of interrupt: only then does reading the mask from Remote IRR    *)
(* and writing it back unmask a pin.  ProbeInv says that the positions     *)
(* behind count are recorded as they should be and the others are not, and *)
(* that the local type is that of the drive selected from the time its     *)
(* data is read.                                                           *)
(***************************************************************************)
EXTENDS AtaProps, VectorTheorems, SequenceTheorems

Installed == [Vector : 35 .. 36, Pin : {14, 15}]
First35 == [Vector |-> 35, Pin |-> 14]
Second36 == [Vector |-> 36, Pin |-> 15]

Booted == pc \notin {"hpet", "primary", "secondary"}

BothInstalled ==
    Len(m_Interrupts) = 2 /\ m_Interrupts[1] = First35 /\ m_Interrupts[2] = Second36

VectorInv ==
    /\ redir \in [Pins -> Entries]
    /\ \A pin \in Pins : redir[pin].RemoteIrr = 0
    /\ hpetPin \in Pins \cup {-1}
    /\ pc # "hpet" /\ hpetPin \notin {14, 15} =>
          hpetPin \in Pins /\ redir[hpetPin].Mask = 0 /\ redir[hpetPin].Vector = 33
    /\ m_Interrupts \in Seq(Installed)
    /\ pc \in {"hpet", "primary"} => m_InterruptBase = 35 /\ m_Interrupts = <<>>
    /\ pc = "secondary" => /\ m_InterruptBase = 36
                           /\ Len(m_Interrupts) = 1 /\ m_Interrupts[1] = First35
    /\ Booted => m_InterruptBase = 37 /\ BothInstalled
    /\ pc = "secondary" \/ Booted => redir[14].Vector = 35 /\ redir[14].Mask = 0
    /\ Booted => redir[15].Vector = 36 /\ redir[15].Mask = 0

Found(i) == Reached(i \div 2) /\ drive[<<i \div 2, i % 2>>] \in {"ata", "atapi"}

(* What the record d of position i should be in the end.                   *)
Right(d, i) ==
    /\ d.Reserved = 1 <=> Found(i)
    /\ d.Reserved = 1 => /\ d.Type = drive[<<i \div 2, i % 2>>]
                         /\ d.Type = "ata" => d.id = <<i \div 2, i % 2>>

ProbeInv ==
    /\ drive \in [Positions -> Kinds]
    /\ legacy \in BOOLEAN
    /\ pc \in {"hpet", "primary", "secondary", "identify", "status", "poll", "signature",
              "data", "record", "done"}
    /\ count \in 0 .. 4
    /\ count = 4 <=> pc = "done"
    /\ ~Booted => count = 0
    /\ type \in {"ata", "atapi"}
    /\ idspace \in Positions \cup {Garbage}
    /\ Devices \in [0 .. 3 -> [Reserved : {0, 1}, Channel : {0, 1}, Drive : {0, 1},
                               Type : {"ata", "atapi"}, id : Positions \cup {Garbage}]]
    /\ \A i \in 0 .. 3 : IF i < count THEN Right(Devices[i], i) ELSE Devices[i].Reserved = 0
    /\ pc \in {"status", "poll"} => type = "ata"
    /\ pc = "signature" => type = "ata" /\ Selected \in {"none", "atapi", "other"}
    /\ pc \in {"data", "record"} => Selected = type
    /\ pc = "record" /\ type = "ata" => idspace = <<t, c>>

LoadInv == VectorInv /\ ProbeInv

-----------------------------------------------------------------------------
(* FindSuitableIrq returns one of the pins it may choose from.             *)
LEMMA SuitableIsAllowed ==
    ASSUME NEW allowed \in SUBSET (Pins \ {0}), allowed # {}
    PROVE  Suitable(allowed) \in Pins
<1>1. allowed \ {0} \in SUBSET (0 .. 32 - 1) /\ allowed \ {0} # {}
  BY PinsAssumption
<1>2. First(allowed \ {0}) \in allowed \ {0}
  BY <1>1, FirstIsFirst
<1> QED
  BY <1>2 DEF Suitable, First

(* The handlers of the two vectors, once both are installed.               *)
LEMMA HandlersFound ==
    ASSUME m_Interrupts \in Seq(Installed), BothInstalled
    PROVE  HandlerOf(35) = 14 /\ HandlerOf(36) = 15
<1>1. /\ DOMAIN m_Interrupts = {1, 2}
      /\ m_Interrupts[1] = First35 /\ m_Interrupts[2] = Second36
  BY DEF BothInstalled
<1>2. /\ {i \in DOMAIN m_Interrupts : m_Interrupts[i].Vector = 35} = {1}
      /\ {i \in DOMAIN m_Interrupts : m_Interrupts[i].Vector = 36} = {2}
  BY <1>1 DEF First35, Second36
<1>3. /\ (CHOOSE i \in {1} : \A j \in {1} : i <= j) = 1
      /\ (CHOOSE i \in {2} : \A j \in {2} : i <= j) = 2
  OBVIOUS
<1> QED
  BY <1>1, <1>2, <1>3 DEF HandlerOf, First35, Second36

LEMMA LoadInvImplies ==
    LoadInv => TypeOK /\ DriverVectorsDelivered /\ ProbeFindsDrives
<1> SUFFICES ASSUME LoadInv PROVE TypeOK /\ DriverVectorsDelivered /\ ProbeFindsDrives
  OBVIOUS
<1>1. TypeOK
  <2>1. m_InterruptBase \in 35 .. 37 /\ m_Interrupts \in Seq([Vector : 35 .. 36, Pin : {14, 15}])
    BY DEF LoadInv, VectorInv, Booted, Installed
  <2>2. DOMAIN Devices = 0 .. 3
    BY DEF LoadInv, ProbeInv
  <2> QED
    BY <2>1, <2>2 DEF LoadInv, VectorInv, ProbeInv, TypeOK
<1>2. DriverVectorsDelivered
  BY HandlersFound DEF LoadInv, VectorInv, Booted, DriverVectorsDelivered, Reaches
<1>3. ProbeFindsDrives
  <2> SUFFICES ASSUME pc = "done", NEW ch \in {0, 1}, NEW pos \in {0, 1}
               PROVE  LET d == Devices[2 * ch + pos]
                      IN  /\ d.Reserved = 1 <=> Reached(ch) /\ drive[<<ch, pos>>] \in {"ata", "atapi"}
                          /\ d.Reserved = 1 => /\ d.Type = drive[<<ch, pos>>]
                                               /\ d.Type = "ata" => d.id = <<ch, pos>>
    BY DEF ProbeFindsDrives
  <2>1. /\ 2 * ch + pos \in 0 .. 3 /\ 2 * ch + pos < count
        /\ (2 * ch + pos) \div 2 = ch /\ (2 * ch + pos) % 2 = pos
    BY DEF LoadInv, ProbeInv
  <2>2. Right(Devices[2 * ch + pos], 2 * ch + pos)
    BY <2>1 DEF LoadInv, ProbeInv
  <2> QED
    BY <2>1, <2>2 DEF Right, Found
<1> QED
  BY <1>1, <1>2, <1>3

LEMMA InitLoadInv == AtaInit => LoadInv
<1> SUFFICES ASSUME AtaInit PROVE LoadInv
  OBVIOUS
<1>1. VectorInv
  <2>1. /\ redir \in [Pins -> Entries]
        /\ \A pin \in Pins : redir[pin].RemoteIrr = 0
    BY DEF AtaInit, ApicInit, Entries
  <2> QED
    BY <2>1 DEF AtaInit, ApicInit, VectorInv, Booted
<1>2. ProbeInv
  <2>1. NoDevice \in [Reserved : {0, 1}, Channel : {0, 1}, Drive : {0, 1},
                      Type : {"ata", "atapi"}, id : Positions \cup {Garbage}]
    BY DEF NoDevice
  <2>2. Devices = [i \in 0 .. 3 |-> NoDevice] /\ NoDevice.Reserved = 0
    BY DEF AtaInit, NoDevice
  <2> QED
    BY <2>1, <2>2 DEF AtaInit, ProbeInv, Booted
<1> QED
  BY <1>1, <1>2 DEF LoadInv

-----------------------------------------------------------------------------
(* What the I/O APIC has after an entry that does not wait for an end of   *)
(* interrupt was read, decoded and written back: it is unmasked.           *)
LEMMA EntryRewritten ==
    ASSUME NEW pin \in Pins, redir \in [Pins -> Entries], redir[pin].RemoteIrr = 0,
           NEW v \in 0 .. 255, NEW entry \in Entries,
           entry.Vector = v, entry.Mask = 0,
           IoSetRedirectionEntry(pin, entry)
    PROVE  /\ redir' \in [Pins -> Entries]
           /\ redir'[pin].RemoteIrr = 0 /\ redir'[pin].Vector = v /\ redir'[pin].Mask = 0
           /\ \A other \in Pins \ {pin} : redir'[other] = redir[other]
<1> DEFINE written == [entry EXCEPT !.RemoteIrr = 0]
<1>1. written \in Entries /\ written.RemoteIrr = 0 /\ written.Vector = v /\ written.Mask = 0
  BY DEF Entries
<1>2. redir' = [redir EXCEPT ![pin] = written]
  BY DEF IoSetRedirectionEntry
<1> HIDE DEF written
<1> QED
  BY <1>1, <1>2

LEMMA DecodedEntry ==
    ASSUME NEW raw \in Entries, raw.RemoteIrr = 0
    PROVE  Decode(raw) \in Entries /\ Decode(raw).Mask = 0
BY DEF Decode, Entries

(* What AssociateVector makes of it.                                       *)
Vectored(d, v) == [d EXCEPT !.Vector = v]
Routed(d, v) == [d EXCEPT !.Vector = v, !.Mask = 0]

LEMMA RoutedEntry ==
    ASSUME NEW d \in Entries, NEW v \in 0 .. 255
    PROVE  /\ Vectored(d, v) \in Entries /\ Vectored(d, v).Vector = v
           /\ Vectored(d, v).Mask = d.Mask
           /\ Routed(d, v) \in Entries /\ Routed(d, v).Vector = v /\ Routed(d, v).Mask = 0
<1> DEFINE e == [d EXCEPT !.Vector = v]
           f == [e EXCEPT !.Mask = 0]
<1>1. e \in Entries
  BY DEF Entries
<1>2. e.Vector = v
  BY DEF Entries
<1>3. e.Mask = d.Mask
  BY DEF Entries
<1>4. Vectored(d, v) = e /\ Routed(d, v) = f
  BY DEF Vectored, Routed
<1> HIDE DEF e
<1>5. f \in Entries
  BY <1>1 DEF Entries
<1>6. f.Mask = 0
  BY <1>1 DEF Entries
<1>7. f.Vector = e.Vector
  BY <1>1 DEF Entries
<1> HIDE DEF f
<1> QED
  BY <1>1, <1>2, <1>3, <1>4, <1>5, <1>6, <1>7

(* Before the probe, nothing is found or recorded.                         *)
LEMMA NothingProbed ==
    ASSUME LoadInv, ~Booted, pc' \in {"primary", "secondary", "identify"},
           UNCHANGED <<drive, legacy, driverVars>>
    PROVE  ProbeInv'
<1>1. count = 0 /\ count' = 0 /\ type' = type /\ idspace' = idspace /\ Devices' = Devices
  BY DEF LoadInv, ProbeInv, driverVars
<1>2. \A i \in 0 .. 3 : Devices'[i].Reserved = 0
  BY <1>1 DEF LoadInv, ProbeInv
<1> QED
  BY <1>1, <1>2 DEF LoadInv, ProbeInv

(* The steps that touch the I/O APIC.                                      *)
LEMMA AssociateKeeps ==
    ASSUME LoadInv, Associate
    PROVE  LoadInv'
<1>1. PICK allowed \in SUBSET (Pins \ {0}) :
          hpetPin' = IF allowed = {} THEN 2 ELSE Suitable(allowed)
  BY DEF Associate, AssociateHpetInterrupt
<1>2. hpetPin' \in Pins
  BY <1>1, SuitableIsAllowed, PinsAssumption
<1>3. /\ redir \in [Pins -> Entries] /\ \A pin \in Pins : redir[pin].RemoteIrr = 0
      /\ m_InterruptBase = 35 /\ m_Interrupts = <<>> /\ pc' = "primary" /\ pc = "hpet"
  BY DEF LoadInv, VectorInv, Associate
<1>4. /\ redir' \in [Pins -> Entries] /\ \A pin \in Pins : redir'[pin].RemoteIrr = 0
      /\ redir'[hpetPin'].Mask = 0 /\ redir'[hpetPin'].Vector = 33
  <2> DEFINE entry == [Decode(redir[hpetPin']) EXCEPT !.Vector = 33, !.Mask = 0]
  <2>0. redir[hpetPin'] \in Entries /\ redir[hpetPin'].RemoteIrr = 0 /\ 33 \in 0 .. 255
    BY <1>2, <1>3
  <2>1. entry \in Entries /\ entry.Vector = 33 /\ entry.Mask = 0
    <3>1. entry = Routed(Decode(redir[hpetPin']), 33)
      BY DEF Routed
    <3> HIDE DEF entry
    <3>2. Decode(redir[hpetPin']) \in Entries
      BY <2>0, DecodedEntry
    <3>3. PICK d \in Entries : d = Decode(redir[hpetPin'])
      BY <3>2
    <3>4. PICK v \in 0 .. 255 : v = 33
      BY <2>0
    <3>5. Routed(d, v) \in Entries /\ Routed(d, v).Vector = v /\ Routed(d, v).Mask = 0
      BY RoutedEntry
    <3> QED
      BY <3>1, <3>3, <3>4, <3>5
  <2>2. IoSetRedirectionEntry(hpetPin', entry)
    BY DEF Associate, AssociateHpetInterrupt
  <2> HIDE DEF entry
  <2>3. /\ redir' \in [Pins -> Entries]
        /\ redir'[hpetPin'].RemoteIrr = 0 /\ redir'[hpetPin'].Vector = 33 /\ redir'[hpetPin'].Mask = 0
        /\ \A other \in Pins \ {hpetPin'} : redir'[other] = redir[other]
    BY <1>2, <1>3, <2>1, <2>2, EntryRewritten
  <2> QED
    BY <1>2, <1>3, <2>3
<1>5. VectorInv'
  BY <1>2, <1>3, <1>4 DEF VectorInv, Booted, Associate, AssociateHpetInterrupt
<1>6. ProbeInv'
  BY <1>3, NothingProbed DEF Associate, Booted
<1> QED
  BY <1>5, <1>6 DEF LoadInv

(* One pin of SetupInterrupts; n is what GenerateVector returns.           *)
LEMMA SetupInterruptWrites ==
    ASSUME NEW pin \in Pins, redir \in [Pins -> Entries],
           \A p \in Pins : redir[p].RemoteIrr = 0,
           NEW n \in 0 .. 255, m_InterruptBase = n, SetupInterrupt(pin)
    PROVE  /\ redir' \in [Pins -> Entries] /\ \A p \in Pins : redir'[p].RemoteIrr = 0
           /\ redir'[pin].Vector = n /\ redir'[pin].Mask = 0
           /\ \A other \in Pins \ {pin} : redir'[other] = redir[other]
<1> DEFINE entry == [Decode(redir[pin]) EXCEPT !.Vector = n]
<1>1. entry \in Entries /\ entry.Vector = n /\ entry.Mask = 0
  <2>1. entry = Vectored(Decode(redir[pin]), n)
    BY DEF Vectored
  <2> HIDE DEF entry
  <2>2. Decode(redir[pin]) \in Entries /\ Decode(redir[pin]).Mask = 0
    BY DecodedEntry
  <2>3. PICK d \in Entries : d = Decode(redir[pin]) /\ d.Mask = 0
    BY <2>2
  <2>4. Vectored(d, n) \in Entries /\ Vectored(d, n).Vector = n /\ Vectored(d, n).Mask = d.Mask
    BY RoutedEntry
  <2> QED
    BY <2>1, <2>3, <2>4
<1>2. IoSetRedirectionEntry(pin, entry)
  BY DEF SetupInterrupt
<1> HIDE DEF entry
<1>3. /\ redir' \in [Pins -> Entries]
      /\ redir'[pin].RemoteIrr = 0 /\ redir'[pin].Vector = n /\ redir'[pin].Mask = 0
      /\ \A other \in Pins \ {pin} : redir'[other] = redir[other]
  BY <1>1, <1>2, EntryRewritten
<1> QED
  BY <1>3

LEMMA SetupInterruptsKeeps ==
    ASSUME LoadInv, SetupInterrupts
    PROVE  LoadInv'
<1>1. 14 \in Pins /\ 15 \in Pins
  BY PinsAssumption
<1>2. /\ redir \in [Pins -> Entries] /\ \A p \in Pins : redir[p].RemoteIrr = 0
      /\ m_Interrupts \in Seq(Installed) /\ First35 \in Installed /\ Second36 \in Installed
  BY DEF LoadInv, VectorInv, First35, Second36, Installed
<1>3. VectorInv'
  <2>1. CASE pc = "primary" /\ SetupInterrupt(14) /\ pc' = "secondary"
    <3>1. m_InterruptBase = 35 /\ m_Interrupts = <<>>
      BY <2>1 DEF LoadInv, VectorInv
    <3>2. /\ redir' \in [Pins -> Entries] /\ \A p \in Pins : redir'[p].RemoteIrr = 0
          /\ redir'[14].Vector = 35 /\ redir'[14].Mask = 0
          /\ \A other \in Pins \ {14} : redir'[other] = redir[other]
      BY <1>1, <1>2, <2>1, <3>1, SetupInterruptWrites
    <3>3. m_InterruptBase' = 36 /\ hpetPin' = hpetPin /\ m_Interrupts' = Append(m_Interrupts, First35)
      BY <2>1, <3>1 DEF SetupInterrupt, GenerateVector, First35
    <3>4. m_Interrupts' \in Seq(Installed) /\ Len(m_Interrupts') = 1 /\ m_Interrupts'[1] = First35
      BY <1>2, <3>1, <3>3
    <3> QED
      BY <2>1, <3>2, <3>3, <3>4 DEF LoadInv, VectorInv, Booted
  <2>2. CASE pc = "secondary" /\ SetupInterrupt(15) /\ pc' = "identify"
    <3>1. m_InterruptBase = 36 /\ Len(m_Interrupts) = 1 /\ m_Interrupts[1] = First35
      BY <2>2 DEF LoadInv, VectorInv
    <3>2. /\ redir' \in [Pins -> Entries] /\ \A p \in Pins : redir'[p].RemoteIrr = 0
          /\ redir'[15].Vector = 36 /\ redir'[15].Mask = 0
          /\ \A other \in Pins \ {15} : redir'[other] = redir[other]
      BY <1>1, <1>2, <2>2, <3>1, SetupInterruptWrites
    <3>3. m_InterruptBase' = 37 /\ hpetPin' = hpetPin /\ m_Interrupts' = Append(m_Interrupts, Second36)
      BY <2>2, <3>1 DEF SetupInterrupt, GenerateVector, Second36
    <3>4. m_Interrupts' \in Seq(Installed) /\ BothInstalled'
      BY <1>2, <3>1, <3>3, AppendProperties DEF BothInstalled
    <3> QED
      BY <1>1, <2>2, <3>2, <3>3, <3>4 DEF LoadInv, VectorInv, Booted
  <2> QED
    BY <2>1, <2>2 DEF SetupInterrupts
<1>4. ProbeInv'
  BY NothingProbed DEF SetupInterrupts, Booted
<1> QED
  BY <1>3, <1>4 DEF LoadInv

-----------------------------------------------------------------------------
(* The probe leaves the I/O APIC alone.                                    *)
LEMMA ProbeKeepsVectors ==
    ASSUME LoadInv, ProbeStep
    PROVE  VectorInv'
<1>1. UNCHANGED apicVars /\ Booted /\ Booted'
  BY DEF ProbeStep, Identify, FirstStatusZero, FirstStatusOther, PollError, PollData, Signature,
         ReadData, Record, NextPosition, Booted
<1> QED
  BY <1>1 DEF LoadInv, VectorInv, apicVars, Booted, BothInstalled

DeviceRecords == [Reserved : {0, 1}, Channel : {0, 1}, Drive : {0, 1},
                  Type : {"ata", "atapi"}, id : Positions \cup {Garbage}]

(* t and c are the channel and the drive of a position.                    *)
LEMMA Channel ==
    ASSUME NEW n \in 0 .. 3
    PROVE  n \div 2 \in {0, 1} /\ n % 2 \in {0, 1} /\ <<n \div 2, n % 2>> \in Positions
<1>1. n \div 2 \in {0, 1} /\ n % 2 \in {0, 1}
  OBVIOUS
<1> QED
  BY <1>1 DEF Positions

(* A step that goes on to the next position, count having been dealt with. *)
LEMMA NextPositionKeeps ==
    ASSUME LoadInv, Booted, count \in 0 .. 3, NextPosition, UNCHANGED <<drive, legacy, idspace>>,
           type' \in {"ata", "atapi"},
           Devices' \in [0 .. 3 -> DeviceRecords],
           \A i \in 0 .. 3 : i # count => Devices'[i] = Devices[i],
           Right(Devices'[count], count)
    PROVE  ProbeInv'
<1>1. count' = count + 1 /\ pc' = IF count = 3 THEN "done" ELSE "identify"
  BY DEF NextPosition
<1>2. ASSUME NEW i \in 0 .. 3
      PROVE  IF i < count' THEN Right(Devices[i], i)' ELSE Devices'[i].Reserved = 0
  <2>1. CASE i < count
    <3>1. Right(Devices[i], i)
      BY <2>1 DEF LoadInv, ProbeInv
    <3> QED
      BY <1>1, <2>1, <3>1 DEF Right, Found, Reached
  <2>2. CASE i = count
    BY <1>1, <2>2 DEF Right, Found, Reached
  <2>3. CASE i > count
    BY <1>1, <2>3 DEF LoadInv, ProbeInv
  <2> QED
    BY <2>1, <2>2, <2>3
<1>3. count' \in 0 .. 4 /\ (count' = 4 <=> pc' = "done") /\ Booted' /\ pc' \in {"identify", "done"}
  BY <1>1 DEF Booted
<1>4. /\ (drive \in [Positions -> Kinds])' /\ (legacy \in BOOLEAN)'
      /\ (idspace \in Positions \cup {Garbage})'
  BY DEF LoadInv, ProbeInv
<1> QED
  BY <1>2, <1>3, <1>4 DEF ProbeInv, DeviceRecords

(* What the probe knows at each of its steps before the position is dealt  *)
(* with.                                                                   *)
LEMMA ProbeFacts ==
    ASSUME LoadInv, pc \in {"identify", "status", "poll", "signature", "data", "record"}
    PROVE  /\ count \in 0 .. 3 /\ Booted
           /\ t \in {0, 1} /\ c \in {0, 1} /\ <<t, c>> \in Positions
           /\ Devices \in [0 .. 3 -> DeviceRecords] /\ Devices[count].Reserved = 0
           /\ Selected = (IF Reached(t) THEN drive[<<t, c>>] ELSE "none")
           /\ Found(count) <=> Selected \in {"ata", "atapi"}
<1>1. count \in 0 .. 3
  BY DEF LoadInv, ProbeInv
<1>2. t \in {0, 1} /\ c \in {0, 1} /\ <<t, c>> \in Positions
  BY <1>1, Channel DEF t, c
<1>3. Devices[count].Reserved = 0
  BY <1>1 DEF LoadInv, ProbeInv
<1> QED
  BY <1>1, <1>2, <1>3 DEF LoadInv, ProbeInv, Booted, DeviceRecords, Selected, Found, t, c

(* A position that has no drive of a known type is passed over.            *)
LEMMA PassedOver ==
    ASSUME LoadInv, pc \in {"status", "signature"},
           Selected \notin {"ata", "atapi"},
           NextPosition, UNCHANGED <<drive, legacy, idspace, Devices>>, type' = type
    PROVE  ProbeInv'
<1>1. count \in 0 .. 3 /\ Booted /\ Devices[count].Reserved = 0 /\ ~Found(count)
      /\ Devices \in [0 .. 3 -> DeviceRecords]
  BY ProbeFacts
<1>2. Right(Devices'[count], count)
  BY <1>1 DEF Right
<1>3. type' \in {"ata", "atapi"}
  BY DEF LoadInv, ProbeInv
<1> QED
  BY <1>1, <1>2, <1>3, NextPositionKeeps

(* The steps that stay at the position.                                    *)
LEMMA SamePositionKeeps ==
    ASSUME LoadInv, pc \in {"identify", "status", "poll", "signature", "data"},
           pc' \in {"status", "poll", "signature", "data", "record"},
           UNCHANGED <<drive, legacy, count>>,
           Devices' \in [0 .. 3 -> DeviceRecords],
           \A i \in 0 .. 3 : i # count => Devices'[i] = Devices[i],
           Devices'[count].Reserved = 0,
           type' \in {"ata", "atapi"}, idspace' \in Positions \cup {Garbage},
           pc' \in {"status", "poll"} => type' = "ata",
           pc' = "signature" => type' = "ata" /\ Selected \in {"none", "atapi", "other"},
           pc' \in {"data", "record"} => Selected = type',
           pc' = "record" /\ type' = "ata" => idspace' = <<t, c>>
    PROVE  ProbeInv'
<1>1. count \in 0 .. 3 /\ Booted /\ Booted'
  BY ProbeFacts DEF Booted
<1>2. ASSUME NEW i \in 0 .. 3
      PROVE  IF i < count' THEN Right(Devices[i], i)' ELSE Devices'[i].Reserved = 0
  <2>1. CASE i < count
    <3>1. Right(Devices[i], i)
      BY <2>1 DEF LoadInv, ProbeInv
    <3> QED
      BY <1>1, <2>1, <3>1 DEF Right, Found, Reached
  <2>2. CASE i >= count
    BY <1>1, <2>2 DEF LoadInv, ProbeInv
  <2> QED
    BY <1>1, <2>1, <2>2
<1>3. Selected' = Selected /\ t' = t /\ c' = c
  BY DEF Selected, Reached, t, c
<1>4. (drive \in [Positions -> Kinds])' /\ (legacy \in BOOLEAN)' /\ count' \in 0 .. 3
  BY <1>1 DEF LoadInv, ProbeInv
<1> QED
  BY <1>1, <1>2, <1>3, <1>4 DEF ProbeInv, DeviceRecords, Booted

LEMMA ProbeStepKeeps ==
    ASSUME LoadInv, ProbeStep
    PROVE  ProbeInv'
<1>0. /\ type \in {"ata", "atapi"} /\ idspace \in Positions \cup {Garbage}
      /\ pc \in {"status", "poll"} => type = "ata"
      /\ pc = "signature" => type = "ata" /\ Selected \in {"none", "atapi", "other"}
      /\ pc \in {"data", "record"} => Selected = type
      /\ pc = "record" /\ type = "ata" => idspace = <<t, c>>
  BY DEF LoadInv, ProbeInv
<1>1. CASE Identify
  <2>1. pc = "identify" /\ count \in 0 .. 3 /\ Devices \in [0 .. 3 -> DeviceRecords]
    BY <1>1, ProbeFacts DEF Identify
  <2>2. /\ Devices' \in [0 .. 3 -> DeviceRecords] /\ Devices'[count].Reserved = 0
        /\ \A i \in 0 .. 3 : i # count => Devices'[i] = Devices[i]
    BY <1>1, <2>1 DEF Identify, DeviceRecords
  <2> QED
    BY <1>0, <1>1, <2>1, <2>2, SamePositionKeeps DEF Identify
<1>2. CASE FirstStatusZero
  BY <1>2, PassedOver DEF FirstStatusZero
<1>3. CASE FirstStatusOther
  BY <1>0, <1>3, ProbeFacts, SamePositionKeeps DEF FirstStatusOther
<1>4. CASE PollError
  BY <1>0, <1>4, ProbeFacts, SamePositionKeeps DEF PollError, driverVars
<1>5. CASE PollData
  BY <1>0, <1>5, ProbeFacts, SamePositionKeeps DEF PollData, driverVars
<1>6. CASE Signature
  <2>1. CASE Selected = "atapi"
    BY <1>0, <1>6, <2>1, ProbeFacts, SamePositionKeeps DEF Signature
  <2>2. CASE Selected # "atapi"
    BY <1>0, <1>6, <2>2, PassedOver DEF Signature
  <2> QED
    BY <2>1, <2>2
<1>7. CASE ReadData
  BY <1>0, <1>7, ProbeFacts, SamePositionKeeps DEF ReadData
<1>8. CASE Record
  <2> DEFINE new == [Reserved |-> 1, Channel |-> c, Drive |-> t, Type |-> type, id |-> idspace]
  <2>1. /\ pc = "record" /\ count \in 0 .. 3 /\ Booted /\ t \in {0, 1} /\ c \in {0, 1}
        /\ Devices \in [0 .. 3 -> DeviceRecords]
        /\ Selected = (IF Reached(t) THEN drive[<<t, c>>] ELSE "none")
        /\ Found(count) <=> Selected \in {"ata", "atapi"}
    BY <1>8, ProbeFacts DEF Record
  <2>2. new \in DeviceRecords /\ new.Reserved = 1 /\ new.Type = type /\ new.id = idspace
    BY <1>0, <2>1 DEF DeviceRecords
  <2>3. Devices' = [Devices EXCEPT ![count] = new]
    BY <1>8 DEF Record
  <2> HIDE DEF new
  <2>4. /\ Devices' \in [0 .. 3 -> DeviceRecords] /\ Devices'[count] = new
        /\ \A i \in 0 .. 3 : i # count => Devices'[i] = Devices[i]
    BY <2>1, <2>2, <2>3
  <2>5. Found(count) /\ drive[<<t, c>>] = type /\ (type = "ata" => idspace = <<t, c>>)
    BY <1>0, <2>1
  <2>6. Right(Devices'[count], count)
    BY <2>2, <2>4, <2>5 DEF Right, t, c
  <2> QED
    BY <1>0, <1>8, <2>1, <2>4, <2>6, NextPositionKeeps DEF Record
<1> QED
  BY <1>1, <1>2, <1>3, <1>4, <1>5, <1>6, <1>7, <1>8 DEF ProbeStep

-----------------------------------------------------------------------------
LEMMA LoadInvInductive ==
    LoadInv /\ [Next]_ataVars => LoadInv'
<1> SUFFICES ASSUME LoadInv, [Next]_ataVars PROVE LoadInv'
  OBVIOUS
<1>1. CASE Associate
  BY <1>1, AssociateKeeps
<1>2. CASE SetupInterrupts
  BY <1>2, SetupInterruptsKeeps
<1>3. CASE ProbeStep
  BY <1>3, ProbeKeepsVectors, ProbeStepKeeps DEF LoadInv
<1>4. CASE UNCHANGED ataVars
  BY <1>4 DEF LoadInv, VectorInv, BothInstalled, ProbeInv, ataVars, apicVars, driverVars, Booted, Right,
              Found, Reached, Selected, t, c
<1> QED
  BY <1>1, <1>2, <1>3, <1>4 DEF Next

(* The state of the driver's load is always of its type, and count indexes *)
(* Devices wherever it is used to.                                         *)
THEOREM TypeCorrect == Spec => []TypeOK
BY InitLoadInv, LoadInvInductive, LoadInvImplies, PTL DEF Spec

(* Whatever the firmware left in the redirection table, the HPET's pin and *)
(* the two pins of the driver are unmasked once they were set up, each     *)
(* with a vector that leads to its own handler.                            *)
THEOREM VectorsDelivered == Spec => []DriverVectorsDelivered
BY InitLoadInv, LoadInvInductive, LoadInvImplies, PTL DEF Spec

(* Whatever drives there are, the probe ends with those it could reach in  *)
(* Devices, of the right type, each disk with its own identification.      *)
THEOREM DrivesFound == Spec => []ProbeFindsDrives
BY InitLoadInv, LoadInvInductive, LoadInvImplies, PTL DEF Spec
=============================================================================
