------------------------------- MODULE Mutex --------------------------------
(***************************************************************************)
(* sched::mutex (src/kernel/source/scheduler/semaphore.cpp) on top of the  *)
(* scheduler: Lock() without a timeout and Release().  Neither turns       *)
(* interrupts off, so a tick can fall between any two steps of a call, and *)
(* a contended Lock returns to its caller at once: the caller is suspended *)
(* by the next tick that switches, not by the call.                        *)
(***************************************************************************)
EXTENDS Scheduler

VARIABLES
    m_Flag,       \* TRUE: the mutex is free
    m_Waiters,    \* mutex::m_SuspendedThreads, the ids of waiting threads
    due           \* history: whom the Release in progress has still to wake

mutexVars == <<m_Flag, m_Waiters, due>>
allVars == <<vars, mutexVars>>

MutexInit ==
    /\ Init
    /\ m_Flag = TRUE
    /\ m_Waiters = EmptyVector(0, Cap)
    /\ due = {}

(* Lock(): a free mutex is taken in two steps, the test and the store.     *)
Lock ==
    /\ MayCall("lock")
    /\ cpu' = [cpu EXCEPT !.pc = IF m_Flag THEN "take" ELSE "enlist"]
    /\ UNCHANGED <<m_Enabled, queueVars, m_Quantum, threadVars, sleepVars, isr, halted, mutexVars>>

LockTake ==
    /\ At("take")
    /\ m_Flag' = FALSE
    /\ cpu' = Running(cpu.of)
    /\ UNCHANGED <<m_Enabled, queueVars, m_Quantum, threadVars, sleepVars, isr, halted, m_Waiters, due>>

LockEnlistIndex ==          \* mutant: GetCurrentThreadId() for GetId()
    /\ At("enlist")
    /\ m_Waiters.len < Cap
    /\ m_Waiters' = PushBack(m_Waiters, m_Index)
    /\ due' = {}
    /\ cpu' = [cpu EXCEPT !.pc = "mark", !.n = m_Index]
    /\ UNCHANGED <<m_Enabled, queueVars, m_Quantum, threadVars, sleepVars, isr, halted, m_Flag>>

(* Lock() of a held mutex.  t is a reference to the slot m_Index names     *)
(* here (cpu.n), not to the thread that is in it.                          *)
LockEnlist ==
    /\ At("enlist")
    /\ m_Waiters.len < Cap
    /\ m_Waiters' = PushBack(m_Waiters, m_Id[CurrentThread])
    /\ due' = {}
    /\ cpu' = [cpu EXCEPT !.pc = "mark", !.n = m_Index]
    /\ UNCHANGED <<m_Enabled, queueVars, m_Quantum, threadVars, sleepVars, isr, halted, m_Flag>>

(* SetSuspended, then AddSuspendedThread(t, 0), which goes on as in Sleep. *)
LockMark ==
    /\ At("mark")
    /\ LET t == m_Threads.mem[cpu.n]
       IN  /\ m_SuspendReason' = [m_SuspendReason EXCEPT ![t] = "Waiting"]
           /\ cpu' = [cpu EXCEPT !.pc = "erase", !.t = t, !.n = 0]
    /\ UNCHANGED <<m_Enabled, queueVars, m_Quantum, m_Id, saved, sleepVars, isr, halted, mutexVars>>

(* Release() does nothing to a free mutex.  It frees a held one, then      *)
(* walks the list it erases from, up to the end() it took at the start, so *)
(* that an entry can be passed over and stale slots are read.              *)
Release ==
    /\ MayCall("release")
    /\ ~m_Flag
    /\ cpu' = [cpu EXCEPT !.pc = "open"]
    /\ UNCHANGED <<m_Enabled, queueVars, m_Quantum, threadVars, sleepVars, isr, halted, mutexVars>>

(* The threads that are enlisted, and suspended already, when Release takes *)
(* begin() and end().  Another Release whose walk is not over, or a Lock   *)
(* that enlists before this one's is, moves the list under it; then, and   *)
(* when it finds more than two entries, nobody is counted on.              *)
Expected ==
    IF m_Waiters.len > 2 \/ \E t \in Threads : saved[t].pc \in {"wake", "delist"}
      THEN {}
      ELSE {t \in Threads : m_Id[t] \in Elements(m_Waiters)
                             /\ \E j \in SleepingInfos : info[j].t = t}

ReleaseOpen ==
    /\ At("open")
    /\ m_Flag' = TRUE
    /\ due' = Expected
    /\ cpu' = IF m_Waiters.len = 0 THEN Running(cpu.of)
               ELSE [cpu EXCEPT !.pc = "wake", !.n = 0, !.end = m_Waiters.len]
    /\ UNCHANGED <<m_Enabled, queueVars, m_Quantum, threadVars, sleepVars, isr, halted, m_Waiters>>

ReleaseWake ==
    /\ At("wake")
    /\ RemoveSuspendedThread(m_Waiters.mem[cpu.n])
    /\ due' = due \ Elements(m_Threads')
    /\ cpu' = [cpu EXCEPT !.pc = "delist"]
    /\ UNCHANGED <<m_Enabled, m_ThreadCount, m_Index, m_Quantum, threadVars, info, isr, halted,
                   m_Flag, m_Waiters>>

ReleaseDelistTooFar ==      \* mutant: the walk goes one slot too far
    /\ At("delist")
    /\ m_Waiters' = Erase(m_Waiters, m_Waiters.mem[cpu.n])
    /\ cpu' = IF cpu.n = cpu.end THEN Running(cpu.of)
               ELSE [cpu EXCEPT !.pc = "wake", !.n = @ + 1]
    /\ UNCHANGED <<m_Enabled, queueVars, m_Quantum, threadVars, sleepVars, isr, halted, m_Flag, due>>

ReleaseDelistShort ==       \* mutant: end() is taken again after the erase
    /\ At("delist")
    /\ m_Waiters' = Erase(m_Waiters, m_Waiters.mem[cpu.n])
    /\ cpu' = IF cpu.n + 1 >= m_Waiters'.len THEN Running(cpu.of)
               ELSE [cpu EXCEPT !.pc = "wake", !.n = @ + 1]
    /\ UNCHANGED <<m_Enabled, queueVars, m_Quantum, threadVars, sleepVars, isr, halted, m_Flag, due>>

ReleaseDelist ==
    /\ At("delist")
    /\ m_Waiters' = Erase(m_Waiters, m_Waiters.mem[cpu.n])
    /\ cpu' = IF cpu.n + 1 = cpu.end THEN Running(cpu.of)
               ELSE [cpu EXCEPT !.pc = "wake", !.n = @ + 1]
    /\ UNCHANGED <<m_Enabled, queueVars, m_Quantum, threadVars, sleepVars, isr, halted, m_Flag, due>>

MutexStep ==
    \/ Lock \/ LockTake \/ LockEnlist \/ LockMark
    \/ Release \/ ReleaseOpen \/ ReleaseWake \/ ReleaseDelist

MutexNext == (Next /\ UNCHANGED mutexVars) \/ MutexStep

MutexSpec == MutexInit /\ [][MutexNext]_allVars
=============================================================================
