-------------------------------- MODULE Hpet ---------------------------------
(***************************************************************************)
(* The delay of timer/hpet.cpp and its callers: CalibrateTimer at boot,    *)
(* AcpiOsStall and HaltExecution from threads afterwards, all on the one   *)
(* comparator and the one flag, under the interrupts of module Interrupts. *)
(* Time is what the main counter counts.                                   *)
(***************************************************************************)
EXTENDS Interrupts

CONSTANTS
    Delays,       \* the lengths callers ask for
    MaxDelay      \* bound: the longest of them

ASSUME DelaysAssumption == MaxDelay \in Nat \ {0} /\ Delays \subseteq 1 .. MaxDelay /\ Delays # {}

VARIABLES
    routed,       \* the redirection entry of the HPET is unmasked
    lvt,          \* the local APIC timer is unmasked
    counting,     \* overall enable, bit 0 of the general configuration
    armed,        \* bit 2 of the timer's configuration
    left,         \* what the main counter has to go to the comparator
    delay,        \* one record per thread: see Callers
    overlapped    \* history: a delay was begun before another had ended

hpetVars == <<routed, lvt, counting, armed, left, delay, overlapped>>
allVars == <<cpuVars, hpetVars>>

(* The comparator was passed: the next match is 2^64 counts away.          *)
Far == MaxDelay + 1

(* pc: the caller's next step, or what KeStartThunk does next; ns: the     *)
(* argument; lag: counted since the main counter was read; elapsed:        *)
(* history, counted since the call while no two delays overlap.  Both stop *)
(* at Far.                                                                 *)
Steps == {"stop", "read", "compare", "start", "arm", "test", "hlt"}
Callers == [pc : Steps \cup {"acpi", "calibrate", "unmask", "enable", "idle", "halt"},
            ns : Delays, lag : 0 .. Far, elapsed : 0 .. Far, then : {"acpi", "unmask", "idle"}]

Idle(pc) == [pc |-> pc, ns |-> CHOOSE n \in Delays : TRUE, lag |-> 0, elapsed |-> 0, then |-> "idle"]

HpetInit ==
    /\ InterruptsInit
    /\ routed = FALSE
    /\ lvt = FALSE
    /\ counting = FALSE
    /\ armed = FALSE
    /\ left = Far
    /\ delay = [t \in Threads |-> Idle(IF t = 0 THEN "acpi" ELSE "idle")]
    /\ overlapped = FALSE

Waits(t) == delay[t].pc \in Steps

(* Thread t executes its next instruction, which is at pc.                 *)
Step(t, pc) == ThreadRuns(t) /\ delay[t].pc = pc
Then(t, pc) == delay' = [delay EXCEPT ![t].pc = pc]

-----------------------------------------------------------------------------
(* KeStartThunk: ACPI initialisation, CalibrateTimer, SetEnabled, halt.    *)
(* AssociateHpetInterrupt enables the counter and unmasks the pin.         *)
AssociateHpetInterrupt(t) ==
    /\ Step(t, "acpi")
    /\ counting' = TRUE
    /\ routed' = TRUE
    /\ interruptsOn' = TRUE
    /\ Then(t, "calibrate")
    /\ UNCHANGED <<schedVars, above, stopped, apicVars, hpetSleepFlag, clobbered,
                   lvt, armed, left, overlapped>>

(* The end of CApicTimer::Configure: the timer starts to tick.             *)
Configure(t) ==
    /\ Step(t, "unmask")
    /\ lvt' = TRUE
    /\ Then(t, "enable")
    /\ UNCHANGED <<cpuVars, routed, counting, armed, left, overlapped>>

SetEnabled(t) ==
    /\ Step(t, "enable")
    /\ m_Enabled' = TRUE
    /\ Then(t, "halt")
    /\ UNCHANGED <<m_Quantum, m_Index, above, interruptsOn, stopped, apicVars, hpetSleepFlag, clobbered,
                   routed, lvt, counting, armed, left, overlapped>>

(* hcf(): for (;;) hlt.                                                    *)
Halt(t) ==
    /\ Step(t, "halt")
    /\ stopped' = TRUE
    /\ UNCHANGED <<schedVars, above, interruptsOn, apicVars, hpetSleepFlag, clobbered, hpetVars>>

-----------------------------------------------------------------------------
PrepareHpetFlagKept(t) ==   \* mutant: _hpetSleepFlag = true is missing
    /\ \E pc \in {"acpi", "calibrate", "idle"} : Step(t, pc)
    /\ \E ns \in Delays :
          delay' = [delay EXCEPT ![t] =
                      [pc |-> "stop", ns |-> ns, lag |-> 0, elapsed |-> 0,
                       then |-> IF @.pc = "calibrate" THEN "unmask" ELSE @.pc]]
    /\ overlapped' = (overlapped \/ \E u \in Threads : Waits(u))
    /\ UNCHANGED <<cpuVars, routed, lvt, counting, armed, left>>

(* PrepareHpetDelay(ns), called by AcpiOsStall, CalibrateTimer and         *)
(* HaltExecution.                                                          *)
PrepareHpetDelay(t) ==
    /\ \E pc \in {"acpi", "calibrate", "idle"} : Step(t, pc)
    /\ hpetSleepFlag' = TRUE
    /\ \E ns \in Delays :
          delay' = [delay EXCEPT ![t] =
                      [pc |-> "stop", ns |-> ns, lag |-> 0, elapsed |-> 0,
                       then |-> IF @.pc = "calibrate" THEN "unmask" ELSE @.pc]]
    /\ overlapped' = (overlapped \/ \E u \in Threads : Waits(u))
    /\ UNCHANGED <<schedVars, above, interruptsOn, stopped, apicVars, clobbered,
                   routed, lvt, counting, armed, left>>

StopNothing(t) ==           \* mutant: the counter is not stopped
    /\ Step(t, "stop")
    /\ Then(t, "read")
    /\ UNCHANGED <<cpuVars, routed, lvt, counting, armed, left, overlapped>>

StopCounter(t) ==
    /\ Step(t, "stop")
    /\ counting' = FALSE
    /\ Then(t, "read")
    /\ UNCHANGED <<cpuVars, routed, lvt, armed, left, overlapped>>

ReadCounter(t) ==
    /\ Step(t, "read")
    /\ delay' = [delay EXCEPT ![t].pc = "compare", ![t].lag = 0]
    /\ UNCHANGED <<cpuVars, routed, lvt, counting, armed, left, overlapped>>

(* The comparator becomes what was read plus ns.                           *)
SetComparator(t) ==
    /\ Step(t, "compare")
    /\ left' = IF delay[t].lag < delay[t].ns THEN delay[t].ns - delay[t].lag ELSE Far
    /\ delay' = [delay EXCEPT ![t].pc = "start", ![t].lag = 0]
    /\ UNCHANGED <<cpuVars, routed, lvt, counting, armed, overlapped>>

StartCounter(t) ==
    /\ Step(t, "start")
    /\ counting' = TRUE
    /\ Then(t, "arm")
    /\ UNCHANGED <<cpuVars, routed, lvt, armed, left, overlapped>>

ArmTimer(t) ==
    /\ Step(t, "arm")
    /\ armed' = TRUE
    /\ Then(t, "test")
    /\ UNCHANGED <<cpuVars, routed, lvt, counting, left, overlapped>>

(* while (_hpetSleepFlag) hlt: an interrupt can come between the test and  *)
(* the hlt.                                                                *)
TestFlag(t) ==
    /\ Step(t, "test")
    /\ IF hpetSleepFlag THEN Then(t, "hlt") ELSE delay' = [delay EXCEPT ![t] = Idle(@.then)]
    /\ UNCHANGED <<cpuVars, routed, lvt, counting, armed, left, overlapped>>

Hlt(t) ==
    /\ Step(t, "hlt")
    /\ stopped' = TRUE
    /\ Then(t, "test")
    /\ UNCHANGED <<schedVars, above, interruptsOn, apicVars, hpetSleepFlag, clobbered,
                   routed, lvt, counting, armed, left, overlapped>>

-----------------------------------------------------------------------------
(* The main counter counts while anyone cares.                             *)
UpTo(n) == IF n = Far THEN Far ELSE n + 1

Count ==
    /\ ~clobbered
    /\ counting
    /\ \E t \in Threads : Waits(t)
    /\ left' = IF left \in {1, Far} THEN Far ELSE left - 1
    /\ pending' = IF left = 1 /\ armed /\ routed THEN pending \cup {HpetVector} ELSE pending
    /\ delay' = [t \in Threads |->
                   IF Waits(t) THEN [delay[t] EXCEPT !.elapsed = IF overlapped THEN @ ELSE UpTo(@),
                                       !.lag = IF delay[t].pc = "compare" THEN UpTo(@) ELSE @]
                               ELSE delay[t]]
    /\ UNCHANGED <<schedVars, above, interruptsOn, stopped, inService, hpetSleepFlag, clobbered,
                   routed, lvt, counting, armed, overlapped>>

TimerInterrupt ==
    /\ ~clobbered
    /\ lvt
    /\ pending' = pending \cup {Timer}
    /\ UNCHANGED <<schedVars, above, interruptsOn, stopped, inService, hpetSleepFlag, clobbered, hpetVars>>

DelayStep(t) ==
    \/ StopCounter(t) \/ ReadCounter(t) \/ SetComparator(t)
    \/ StartCounter(t) \/ ArmTimer(t) \/ TestFlag(t) \/ Hlt(t)

ThreadStep(t) ==
    \/ AssociateHpetInterrupt(t) \/ Configure(t) \/ SetEnabled(t) \/ Halt(t)
    \/ PrepareHpetDelay(t) \/ DelayStep(t)

Next ==
    \/ \E t \in Threads : ThreadStep(t)
    \/ (HandlerStep \/ Delivery \/ DriveInterrupt) /\ UNCHANGED hpetVars
    \/ Count
    \/ TimerInterrupt

Spec == HpetInit /\ [][Next]_allVars
=============================================================================
