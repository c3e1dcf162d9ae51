--------------------------------- MODULE Ata ---------------------------------
(***************************************************************************)
(* The ATA driver from CreateController on (src/drivers/ata/source/ide.cpp) *)
(* on the thread LateInit: its two interrupts, then the probe of the four  *)
(* positions, against drives that answer as they like.                     *)
(***************************************************************************)
EXTENDS Apic

VARIABLES
    drive,        \* what is at <<channel, position>>
    legacy,       \* BAR 2 is zero: the secondary channel is in legacy mode
    pc,           \* the driver's next step
    count,        \* the loop variables: t = count \div 2, c = count % 2
    type,         \* the local type
    idspace,      \* whose identification is in the buffer
    Devices       \* ide_t::Devices

driverVars == <<count, type, idspace, Devices>>
ataVars == <<apicVars, drive, legacy, pc, driverVars>>

Positions == {0, 1} \X {0, 1}
Kinds == {"none", "ata", "atapi", "other", "stuck"}
Garbage == <<-1, -1>>

NoDevice == [Reserved |-> 0, Channel |-> 0, Drive |-> 0, Type |-> "ata", id |-> Garbage]

AtaInit ==
    /\ ApicInit
    /\ drive \in [Positions -> Kinds]
    /\ legacy \in BOOLEAN
    /\ pc = "hpet"
    /\ count = 0
    /\ type = "ata"
    /\ idspace = Garbage
    /\ Devices = [i \in 0 .. 3 |-> NoDevice]

t == count \div 2
c == count % 2

(* With BAR 2 zero, Channels[1].IoBase is the secondary control port.      *)
Reached(channel) == channel = 0 \/ ~legacy

(* The drive the task file registers of channel t belong to.               *)
Selected == IF Reached(t) THEN drive[<<t, c>>] ELSE "none"

-----------------------------------------------------------------------------
Associate ==
    /\ pc = "hpet"
    /\ AssociateHpetInterrupt
    /\ pc' = "primary"
    /\ UNCHANGED <<drive, legacy, driverVars>>

(* bit 0 and bit 2 of a value masked with 0xFF00 are 0: both always run.   *)
SetupInterrupts ==
    /\ \/ pc = "primary" /\ SetupInterrupt(14) /\ pc' = "secondary"
       \/ pc = "secondary" /\ SetupInterrupt(15) /\ pc' = "identify"
    /\ UNCHANGED <<drive, legacy, driverVars>>

NextPosition == count' = count + 1 /\ pc' = (IF count = 3 THEN "done" ELSE "identify")

IdentifyTypeKept ==         \* mutant: type is declared outside the loop
    /\ pc = "identify"
    /\ Devices' = [Devices EXCEPT ![count].Reserved = 0]
    /\ pc' = "status"
    /\ UNCHANGED <<apicVars, drive, legacy, count, type, idspace>>

(* The head of the loop: select, IDENTIFY.                                 *)
Identify ==
    /\ pc = "identify"
    /\ type' = "ata"
    /\ Devices' = [Devices EXCEPT ![count].Reserved = 0]
    /\ pc' = "status"
    /\ UNCHANGED <<apicVars, drive, legacy, count, idspace>>

(* An empty position reads as 0, if its channel has another drive or pulls *)
(* the bus down, or as 0xFF, in which the error bit is set.                *)
FirstStatusZero ==
    /\ pc = "status"
    /\ Selected = "none"
    /\ NextPosition
    /\ UNCHANGED <<apicVars, drive, legacy, type, idspace, Devices>>

FirstStatusOther ==
    /\ pc = "status"
    /\ pc' = "poll"
    /\ UNCHANGED <<apicVars, drive, legacy, count, type, idspace, Devices>>

PollErrorIgnored ==         \* mutant: only DRQ ends the loop
    /\ pc = "poll"
    /\ Selected \in {"none", "atapi", "other"}
    /\ UNCHANGED ataVars

(* while (true): until the error bit, or DRQ without BSY.  A drive that is *)
(* busy changes nothing here.                                              *)
PollError ==
    /\ pc = "poll"
    /\ Selected \in {"none", "atapi", "other"}
    /\ pc' = "signature"
    /\ UNCHANGED <<apicVars, drive, legacy, driverVars>>

PollData ==
    /\ pc = "poll"
    /\ Selected = "ata"
    /\ pc' = "data"
    /\ UNCHANGED <<apicVars, drive, legacy, driverVars>>

Signature ==
    /\ pc = "signature"
    /\ IF Selected = "atapi"
         THEN type' = "atapi" /\ pc' = "data" /\ UNCHANGED count
         ELSE NextPosition /\ UNCHANGED type
    /\ UNCHANGED <<apicVars, drive, legacy, idspace, Devices>>

(* IDENTIFY PACKET is not waited for: what is read may be anything.        *)
ReadData ==
    /\ pc = "data"
    /\ idspace' \in {<<t, c>>} \cup (IF type = "atapi" THEN {Garbage} ELSE {})
    /\ pc' = "record"
    /\ UNCHANGED <<apicVars, drive, legacy, count, type, Devices>>

RecordTwice ==              \* mutant: count++ by the record as well as at the end
    /\ pc = "record"
    /\ Devices' = [Devices EXCEPT ![count] =
            [Reserved |-> 1, Channel |-> c, Drive |-> t, Type |-> type, id |-> idspace]]
    /\ count' = count + 2
    /\ pc' = (IF count' = 4 THEN "done" ELSE "identify")
    /\ UNCHANGED <<apicVars, drive, legacy, type, idspace>>

Record ==
    /\ pc = "record"
    /\ Devices' = [Devices EXCEPT ![count] =
            [Reserved |-> 1, Channel |-> c, Drive |-> t, Type |-> type, id |-> idspace]]
    /\ NextPosition
    /\ UNCHANGED <<apicVars, drive, legacy, type, idspace>>

ProbeStep ==
    \/ Identify \/ FirstStatusZero \/ FirstStatusOther \/ PollError \/ PollData
    \/ Signature \/ ReadData \/ Record

Next == Associate \/ SetupInterrupts \/ ProbeStep

(* A drive that is not stuck stops being busy.                             *)
Spec == AtaInit /\ [][Next]_ataVars /\ WF_ataVars(Next)
=============================================================================
