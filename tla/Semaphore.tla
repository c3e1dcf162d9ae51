------------------------------ MODULE Semaphore ------------------------------
(***************************************************************************)
(* sched::semaphore (src/kernel/source/scheduler/semaphore.cpp) on top of  *)
(* the scheduler, as AcpiOsWaitSemaphore and AcpiOsSignalSemaphore use it: *)
(* Wait() without a timeout, after IsFree() where ACPICA does not want to  *)
(* wait, and Notify().  m_Counter is volatile: it is loaded again by every *)
(* expression that names it, and -- and ++ are a load and a store.         *)
(***************************************************************************)
EXTENDS Scheduler

CONSTANTS
    InitialUnits,     \* the units a semaphore is created with
    MaxWaits          \* bound: entries of the waiter list

ASSUME SemaphoreBounds == InitialUnits \subseteq Nat /\ MaxWaits \in Nat

VARIABLES
    m_Counter,        \* semaphore::m_Counter
    m_Waits,          \* semaphore::m_SuspendedThreads, slots of m_Threads
    overlapped        \* history: a call began before another thread's had ended

semaphoreVars == <<m_Counter, m_Waits, overlapped>>
semVars == <<vars, semaphoreVars>>

SemaphoreInit ==
    /\ Init
    /\ m_Counter \in InitialUnits
    /\ m_Waits = EmptyVector(0, MaxWaits)
    /\ overlapped = FALSE

InCall(c) == c.pc \in {"decrement", "tested", "flag", "append",
                       "increment", "wakes", "index", "unflag"}

Abs(v) == IF v < 0 THEN -v ELSE v

UnchangedBut == UNCHANGED <<m_Enabled, queueVars, m_Quantum, sleepVars, isr, halted>>

Begin(pc) ==
    /\ cpu' = [cpu EXCEPT !.pc = pc, !.end = m_Counter]
    /\ overlapped' = (overlapped \/ \E t \in Threads : saved[t].of # cpu.of /\ InCall(saved[t]))
    /\ UnchangedBut
    /\ UNCHANGED <<threadVars, m_Counter, m_Waits>>

Store(value, pc) ==
    /\ m_Counter' = value
    /\ cpu' = [cpu EXCEPT !.pc = pc]
    /\ UnchangedBut
    /\ UNCHANGED <<threadVars, m_Waits, overlapped>>

(* AcpiOsWaitSemaphore: with a timeout of zero it calls Wait() only if no  *)
(* entry is in the waiter list, and no entry ever leaves it.               *)
Wait ==
    /\ MayCall("wait")
    /\ m_Waits.len < MaxWaits /\ m_Counter > -MaxWaits
    /\ Begin("decrement")

TryWait ==
    /\ MayCall("trywait")
    /\ m_Waits.len = 0
    /\ MaxWaits > 0
    /\ Begin("decrement")

WaitDecrement == At("decrement") /\ Store(cpu.end - 1, "tested")

WaitTest ==
    /\ At("tested")
    /\ cpu' = IF m_Counter < 0 THEN [cpu EXCEPT !.pc = "flag", !.n = m_Index, !.end = 0]
                               ELSE Running(cpu.of)
    /\ UnchangedBut
    /\ UNCHANGED <<threadVars, semaphoreVars>>

(* SetSuspended, through the reference s into m_Threads.                   *)
WaitFlag ==
    /\ At("flag")
    /\ m_SuspendReason' = [m_SuspendReason EXCEPT ![m_Threads.mem[cpu.n]] = "Waiting"]
    /\ cpu' = [cpu EXCEPT !.pc = "append", !.n = 0]
    /\ UnchangedBut
    /\ UNCHANGED <<m_Id, saved, semaphoreVars>>

WaitAppendNext ==           \* mutant: one slot too far
    /\ At("append")
    /\ m_Waits.len < MaxWaits
    /\ m_Waits' = PushBack(m_Waits, m_Index + 1)
    /\ cpu' = [cpu EXCEPT !.pc = "yield"]
    /\ UnchangedBut
    /\ UNCHANGED <<threadVars, m_Counter, overlapped>>

(* The thread stays in the queue and runs on: only its mark says it waits. *)
WaitAppend ==
    /\ At("append")
    /\ m_Waits.len < MaxWaits
    /\ m_Waits' = PushBack(m_Waits, m_Index)
    /\ cpu' = [cpu EXCEPT !.pc = "yield"]
    /\ UnchangedBut
    /\ UNCHANGED <<threadVars, m_Counter, overlapped>>

Notify == MayCall("notify") /\ m_Counter < MaxWaits /\ Begin("increment")

NotifyIncrement == At("increment") /\ Store(cpu.end + 1, "wakes")

NotifyTest ==
    /\ At("wakes")
    /\ cpu' = IF m_Counter < 0 THEN [cpu EXCEPT !.pc = "index", !.end = 0] ELSE Running(cpu.of)
    /\ UnchangedBut
    /\ UNCHANGED <<threadVars, semaphoreVars>>

NotifyIndexOld ==           \* mutant: the magnitude before the increment
    /\ At("index")
    /\ cpu' = [cpu EXCEPT !.pc = "unflag", !.n = Abs(m_Counter - 1)]
    /\ UnchangedBut
    /\ UNCHANGED <<threadVars, semaphoreVars>>

NotifyIndex ==
    /\ At("index")
    /\ cpu' = [cpu EXCEPT !.pc = "unflag", !.n = Abs(m_Counter)]
    /\ UnchangedBut
    /\ UNCHANGED <<threadVars, semaphoreVars>>

(* GetThread(tid): the entry is used as a slot of m_Threads.  Behind the   *)
(* end of the list it is any word, and what is marked any byte: the model  *)
(* stops there.                                                            *)
NotifyUnflag ==
    /\ At("unflag")
    /\ cpu.n < m_Waits.len
    /\ LET t == m_Threads.mem[m_Waits.mem[cpu.n]]
       IN  m_SuspendReason' = [m_SuspendReason EXCEPT ![t] = "NotSuspended"]
    /\ cpu' = Running(cpu.of)
    /\ UnchangedBut
    /\ UNCHANGED <<m_Id, saved, semaphoreVars>>

SemaphoreStep ==
    \/ Wait \/ TryWait \/ WaitDecrement \/ WaitTest \/ WaitFlag \/ WaitAppend
    \/ Notify \/ NotifyIncrement \/ NotifyTest \/ NotifyIndex \/ NotifyUnflag

SemaphoreNext == (Next /\ UNCHANGED semaphoreVars) \/ SemaphoreStep

SemaphoreSpec == SemaphoreInit /\ [][SemaphoreNext]_semVars

=============================================================================
