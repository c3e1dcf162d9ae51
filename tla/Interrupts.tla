----------------------------- MODULE Interrupts ------------------------------
(***************************************************************************)
(* How an interrupt reaches its handler and how it ends: the gates of      *)
(* cpu/idt.cpp, IdtGenericHandler, the in-service register of the local    *)
(* APIC and the two interrupt stacks.  Threads are reduced to the handlers *)
(* on top of them: above[t] is the sequence of those thread t has below    *)
(* its next instruction, the innermost last.                               *)
(*                                                                         *)
(* Every gate starts at the top of its stack, whatever is on it.  When a   *)
(* handler is entered on a stack that still holds the frame of another     *)
(* one, that frame is gone and its handler will return to nowhere:         *)
(* clobbered says so, and nothing happens after it.                        *)
(***************************************************************************)
EXTENDS Integers, Sequences, FiniteSets

CONSTANTS
    LastThread,     \* m_Threads holds the threads 0 .. LastThread
    Quantum         \* ticks a thread keeps the CPU (10 in the code)

ASSUME CpuAssumption == LastThread \in Nat /\ Quantum \in Nat

Threads == 0 .. LastThread

PageFault == 14
Timer == 32         \* Interrupt32
HpetVector == 33    \* Interrupt33
DriverVector == 35  \* the first one GenerateVector returns
SpuriousVector == 47

VARIABLES
    m_Enabled, m_Quantum, m_Index,  \* of CScheduler
    above,          \* the handlers each thread has to return through
    interruptsOn,   \* the interrupt flag of the CPU
    stopped,        \* the CPU is in a hlt
    pending,        \* requested and not yet delivered
    inService,      \* the in-service register of the local APIC
    hpetSleepFlag,  \* _hpetSleepFlag
    clobbered       \* the frame of a running handler was overwritten

schedVars == <<m_Enabled, m_Quantum, m_Index>>
apicVars == <<pending, inService>>
cpuVars == <<schedVars, above, interruptsOn, stopped, apicVars, hpetSleepFlag, clobbered>>

Handlers == [vec : {PageFault, Timer, HpetVector, DriverVector, SpuriousVector},
             pc : {"body", "eoi", "ret"}, flags : BOOLEAN]

(* KeStartThunk runs in place of the first thread, interrupts are on since *)
(* its first AddThread.                                                    *)
InterruptsInit ==
    /\ m_Enabled = FALSE
    /\ m_Quantum = 0
    /\ m_Index = 0
    /\ above = [t \in Threads |-> <<>>]
    /\ interruptsOn = TRUE
    /\ stopped = FALSE
    /\ pending = {}
    /\ inService = {}
    /\ hpetSleepFlag = TRUE
    /\ clobbered = FALSE

-----------------------------------------------------------------------------
Nested == above[m_Index]
Innermost == Nested[Len(Nested)]

(* The CPU executes the handler vec at pc.                                 *)
Executing(vec, pc) ==
    /\ ~clobbered
    /\ Nested # <<>>
    /\ Innermost.vec = vec
    /\ Innermost.pc = pc

(* The CPU executes code of thread t.                                      *)
ThreadRuns(t) == ~clobbered /\ ~stopped /\ t = m_Index /\ Nested = <<>>

GoTo(pc) == above' = [above EXCEPT ![m_Index][Len(Nested)].pc = pc]
Pop == [above EXCEPT ![m_Index] = SubSeq(@, 1, Len(@) - 1)]

Running == UNION {{above[t][i] : i \in DOMAIN above[t]} : t \in Threads}

(* AddEntry: the stack of a gate, and whether it is a trap gate.           *)
Ist(vec) == IF vec = Timer THEN 2 ELSE 1
TrapGateTooMany(vec) == vec <= 33   \* mutant
TrapGate(vec) == vec <= 31

Enter(vec) ==
    /\ clobbered' = (\E h \in Running : Ist(h.vec) = Ist(vec))
    /\ above' = [above EXCEPT ![m_Index] = Append(@, [vec |-> vec, pc |-> "body", flags |-> interruptsOn])]
    /\ interruptsOn' = (interruptsOn /\ TrapGate(vec))
    /\ stopped' = FALSE
    /\ UNCHANGED <<schedVars, hpetSleepFlag>>

(* The local APIC delivers the highest request, if its priority is above   *)
(* all it has in service; the vectors of the kernel are of one priority.   *)
Priority(vec) == vec \div 16

Accept(vec) ==
    /\ ~clobbered
    /\ interruptsOn
    /\ vec \in pending
    /\ \A r \in pending : r <= vec
    /\ \A s \in inService : Priority(s) < Priority(vec)
    /\ pending' = pending \ {vec}
    /\ inService' = inService \cup {vec}
    /\ Enter(vec)

(* A spurious interrupt is not put in service.  Its vector is set at the   *)
(* end of CApicTimer::Configure.                                           *)
Spurious ==
    /\ m_Enabled
    /\ ~clobbered
    /\ interruptsOn
    /\ Enter(SpuriousVector)
    /\ UNCHANGED apicVars

(* Threads, the handlers that push to vectors, and MapPages, which clears  *)
(* new tables, touch heap pages that are mapped on demand.                 *)
Fault ==
    /\ \/ ThreadRuns(m_Index)
       \/ \E vec \in {PageFault, Timer, DriverVector} : Executing(vec, "body")
    /\ Enter(PageFault)
    /\ UNCHANGED apicVars

(* A drive raises its interrupt, once a thread has loaded the driver.      *)
DriveInterrupt ==
    /\ m_Enabled
    /\ ~clobbered
    /\ pending' = pending \cup {DriverVector}
    /\ UNCHANGED <<schedVars, above, interruptsOn, stopped, inService, hpetSleepFlag, clobbered>>

-----------------------------------------------------------------------------
(* The bodies.  Interrupt14 maps the page; no end of interrupt.            *)
Interrupt14 ==
    /\ Executing(PageFault, "body")
    /\ GoTo("ret")
    /\ UNCHANGED <<schedVars, interruptsOn, stopped, apicVars, hpetSleepFlag, clobbered>>

(* Think returns: sti, with the end of interrupt still to come.            *)
ThinkReturns ==
    /\ Executing(Timer, "body")
    /\ ~m_Enabled \/ m_Quantum > 0
    /\ m_Quantum' = IF m_Enabled THEN m_Quantum - 1 ELSE m_Quantum
    /\ interruptsOn' = TRUE
    /\ GoTo("eoi")
    /\ UNCHANGED <<m_Enabled, m_Index, stopped, apicVars, hpetSleepFlag, clobbered>>

(* The end of interrupt goes to the highest vector in service.             *)
EndOfInterrupt ==
    inService' = {s \in inService : \E u \in inService : u > s}

NextIndexLate == IF m_Index > LastThread THEN 0 ELSE m_Index + 1    \* mutant: > for >=
NextIndex == IF m_Index >= LastThread THEN 0 ELSE m_Index + 1

(* ThinkDeep switches: end of interrupt, then SchSwitchTaskKernel drops    *)
(* the handler and resumes the next thread with interrupts on.             *)
SwitchWithoutEoi ==         \* mutant: the switch does not end the interrupt
    /\ Executing(Timer, "body")
    /\ m_Enabled
    /\ m_Quantum = 0
    /\ above' = Pop
    /\ m_Index' = NextIndex
    /\ m_Quantum' = Quantum
    /\ interruptsOn' = TRUE
    /\ UNCHANGED <<m_Enabled, stopped, apicVars, hpetSleepFlag, clobbered>>

ThinkSwitches ==
    /\ Executing(Timer, "body")
    /\ m_Enabled
    /\ m_Quantum = 0
    /\ EndOfInterrupt
    /\ above' = Pop
    /\ m_Index' = NextIndex
    /\ m_Quantum' = Quantum
    /\ interruptsOn' = TRUE
    /\ UNCHANGED <<m_Enabled, stopped, pending, hpetSleepFlag, clobbered>>

Interrupt33 ==
    /\ Executing(HpetVector, "body")
    /\ hpetSleepFlag' = FALSE
    /\ GoTo("eoi")
    /\ UNCHANGED <<schedVars, interruptsOn, stopped, apicVars, clobbered>>

(* TriggerInterrupt calls the driver's handler, if it has one by now; the  *)
(* ATA driver's releases a mutex.                                          *)
TriggerInterrupt ==
    /\ Executing(DriverVector, "body")
    /\ GoTo("eoi")
    /\ UNCHANGED <<schedVars, interruptsOn, stopped, apicVars, hpetSleepFlag, clobbered>>

SpuriousEnds ==             \* mutant: it is ended like the others
    /\ Executing(SpuriousVector, "body")
    /\ GoTo("eoi")
    /\ UNCHANGED <<schedVars, interruptsOn, stopped, apicVars, hpetSleepFlag, clobbered>>

(* IdtGenericHandler returns at once, without an end of interrupt.         *)
SpuriousReturns ==
    /\ Executing(SpuriousVector, "body")
    /\ GoTo("ret")
    /\ UNCHANGED <<schedVars, interruptsOn, stopped, apicVars, hpetSleepFlag, clobbered>>

Eoi ==
    /\ \E vec \in 32 .. 47 : Executing(vec, "eoi")
    /\ EndOfInterrupt
    /\ GoTo("ret")
    /\ UNCHANGED <<schedVars, interruptsOn, stopped, pending, hpetSleepFlag, clobbered>>

(* iretq restores the flags of what was interrupted.                       *)
Iret ==
    /\ \E vec \in 0 .. 47 : Executing(vec, "ret")
    /\ interruptsOn' = Innermost.flags
    /\ above' = Pop
    /\ UNCHANGED <<schedVars, stopped, apicVars, hpetSleepFlag, clobbered>>

HandlerStep ==
    \/ Interrupt14 \/ ThinkReturns \/ ThinkSwitches \/ Interrupt33
    \/ TriggerInterrupt \/ SpuriousReturns \/ Eoi \/ Iret

Delivery == (\E vec \in pending : Accept(vec)) \/ Spurious \/ Fault
=============================================================================
