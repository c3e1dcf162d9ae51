------------------------------ MODULE AtaProps -------------------------------
(***************************************************************************)
(* What the load of the ATA driver achieves.                               *)
(***************************************************************************)
EXTENDS Ata

TypeOK ==
    /\ redir \in [Pins -> Entries]
    /\ m_InterruptBase \in 35 .. 37
    /\ m_Interrupts \in Seq([Vector : 35 .. 36, Pin : {14, 15}])
    /\ hpetPin \in Pins \cup {-1}
    /\ drive \in [Positions -> Kinds]
    /\ legacy \in BOOLEAN
    /\ pc \in {"hpet", "primary", "secondary", "identify", "status", "poll", "signature",
              "data", "record", "done"}
    /\ count \in 0 .. 4
    /\ pc \in {"identify", "status", "record"} => count \in DOMAIN Devices
    /\ type \in {"ata", "atapi"}
    /\ idspace \in Positions \cup {Garbage}
    /\ Devices \in [0 .. 3 -> [Reserved : {0, 1}, Channel : {0, 1}, Drive : {0, 1},
                               Type : {"ata", "atapi"}, id : Positions \cup {Garbage}]]

(* Once the driver has set its interrupts up, each device that raises a    *)
(* pin gets through to the handler installed for it: the pins are not      *)
(* masked, whatever the firmware left, although the code reads the mask    *)
(* from the wrong bit, and no vector is taken by another device before it. *)
(* (The HPET must not be on a drive's pin.)                                *)
Reaches(pin, handler) ==
    redir[pin].Mask = 0 /\ HandlerOf(redir[pin].Vector) = handler

DriverVectorsDelivered ==
    pc \notin {"hpet", "primary", "secondary"} /\ hpetPin \notin {14, 15} =>
        /\ redir[hpetPin].Mask = 0 /\ redir[hpetPin].Vector = 33
        /\ Reaches(14, 14) /\ Reaches(15, 15)

(* The probe goes on to the next position in five places and shares its    *)
(* buffer and its locals between positions.  In the end Devices has the    *)
(* drives that could be reached at their places, of the right type, and a  *)
(* disk is never given the identification of another drive.                *)
ProbeFindsDrives ==
    pc = "done" => \A ch, pos \in {0, 1} :
        LET d == Devices[2 * ch + pos]
        IN  /\ d.Reserved = 1 <=> Reached(ch) /\ drive[<<ch, pos>>] \in {"ata", "atapi"}
            /\ d.Reserved = 1 => /\ d.Type = drive[<<ch, pos>>]
                                 /\ d.Type = "ata" => d.id = <<ch, pos>>

(* The probe ends, unless a drive it can reach stays busy for ever.        *)
ProbeEnds ==
    (\A ch, pos \in {0, 1} : Reached(ch) => drive[<<ch, pos>>] # "stuck") ~> pc = "done"

-----------------------------------------------------------------------------
(* ide.h:63 and 64: "Primary (0) or secondary (1)", "Master (0) or slave   *)
(* (1)" -- a recorded device is addressed where it was found.              *)
DeviceAddressed ==
    \A i \in 0 .. 3 : Devices[i].Reserved = 1 =>
        Devices[i].Channel = i \div 2 /\ Devices[i].Drive = i % 2
=============================================================================
