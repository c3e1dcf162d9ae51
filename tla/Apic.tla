-------------------------------- MODULE Apic ---------------------------------
(***************************************************************************)
(* The I/O APIC's redirection table and the vectors of CApicController     *)
(* (arch/i386/apic.cpp), with their users: the HPET at boot and the ATA    *)
(* driver when it is loaded.  One I/O APIC, whose first pin is GSI 0.      *)
(***************************************************************************)
EXTENDS Integers, Sequences

CONSTANT Pins         \* the pins whose entries are kept track of

ASSUME PinsAssumption == Pins \subseteq 0 .. 31 /\ {2, 14, 15} \subseteq Pins

VARIABLES
    redir,            \* the redirection entry of each pin
    m_InterruptBase, m_Interrupts,   \* of CApicController
    hpetPin           \* the pin the HPET raises, -1 before it is associated

apicVars == <<redir, m_InterruptBase, m_Interrupts, hpetPin>>

(* Remote IRR is bit 14, the mask bit 16 of an entry.                      *)
Entries == [Vector : 0 .. 255, RemoteIrr : {0, 1}, Mask : {0, 1}]

(* m_FreedList stays empty: nobody calls RemoveVector.  The firmware       *)
(* leaves entries masked or not, and none waiting for an end of interrupt. *)
ApicInit ==
    /\ redir \in [Pins -> {[Vector |-> 0, RemoteIrr |-> 0, Mask |-> m] : m \in {0, 1}}]
    /\ m_InterruptBase = 35
    /\ m_Interrupts = <<>>
    /\ hpetPin = -1

DecodeBit16(raw) == raw     \* mutant: IOREDTBL_MASK, as apic.h:14 has it

(* io_apic_redir_entry(raw) takes Mask from bit 14.                        *)
Decode(raw) == [raw EXCEPT !.Mask = raw.RemoteIrr]

(* Remote IRR is read-only.                                                *)
IoSetRedirectionEntry(pin, entry) ==
    redir' = [redir EXCEPT ![pin] = [entry EXCEPT !.RemoteIrr = redir[pin].RemoteIrr]]

(* FindSuitableIrq: the lowest pin but 0 the comparator can be routed to.  *)
Suitable(allowed) == CHOOSE p \in allowed \ {0} : \A q \in allowed \ {0} : p <= q

AssociateHpetInterrupt ==
    /\ \E allowed \in SUBSET (Pins \ {0}) :
          hpetPin' = IF allowed = {} THEN 2 ELSE Suitable(allowed)   \* {}: it has the legacy route
    /\ IoSetRedirectionEntry(hpetPin', [Decode(redir[hpetPin']) EXCEPT !.Vector = 33, !.Mask = 0])
    /\ UNCHANGED <<m_InterruptBase, m_Interrupts>>

GenerateVector == m_InterruptBase' = m_InterruptBase + 1

(* One pin in SetupInterrupts: GenerateVector, AssociateVector,            *)
(* HandleInterrupt.                                                        *)
SetupInterrupt(pin) ==
    /\ GenerateVector
    /\ IoSetRedirectionEntry(pin, [Decode(redir[pin]) EXCEPT !.Vector = m_InterruptBase])
    /\ m_Interrupts' = Append(m_Interrupts, [Vector |-> m_InterruptBase, Pin |-> pin])
    /\ UNCHANGED hpetPin

(* TriggerInterrupt: the handler of a vector is the first one installed.   *)
HandlerOf(vector) ==
    LET matching == {i \in DOMAIN m_Interrupts : m_Interrupts[i].Vector = vector}
    IN  IF matching = {} THEN -1
                         ELSE m_Interrupts[CHOOSE i \in matching : \A j \in matching : i <= j].Pin
=============================================================================
