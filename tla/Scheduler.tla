----------------------------- MODULE Scheduler ------------------------------
(***************************************************************************)
(* The round-robin scheduler of the kernel (src/kernel/source/scheduler):  *)
(* one CPU, kernel threads that call sched::Sleep, AddThread and           *)
(* _ThreadFinish with interrupts enabled, and the timer interrupt that     *)
(* counts down the sleepers and switches threads.                          *)
(*                                                                         *)
(* What runs is a CONTEXT: the registers of some thread, reduced to whose  *)
(* code it executes and which scheduler call it is in the middle of.  cpu  *)
(* is the context on the processor and saved[t] the one CThread::m_RegState*)
(* of t holds.  The two are kept apart from the identity of the thread     *)
(* because the code keeps them apart: SaveState writes the interrupted     *)
(* context into m_Threads[m_Index], whoever that is by then.               *)
(*                                                                         *)
(* The calls are split where another thread can run between two of their   *)
(* steps (EnterCriticalZone is an empty macro).  The interrupt handler     *)
(* runs with interrupts off, so no thread runs between the steps of a      *)
(* tick; they are separate actions because the handler is a loop.          *)
(***************************************************************************)
EXTENDS Vector, Integers

CONSTANTS
    Workers,      \* the threads that drivers, ACPI and timers may create
    Idle,         \* the thread of the constructor, a hlt loop
    LateInit,     \* the thread KeStartThunk creates
    Boot,         \* the context KeStartThunk runs in; it is no thread
    NoThread,     \* what a vector slot holds before its first use
    Quantum,      \* ticks a thread keeps the CPU (10 in the code)
    SleepTimes,   \* the arguments of Sleep
    MaxLeft,      \* bound: no argument of Sleep exceeds it
    Cap,          \* bound: queue entries plus suspended entries
    Calls,        \* the calls the loaded threads make
    BootSleeps    \* whether AML that runs before SetEnabled calls AcpiOsSleep

Threads == Workers \cup {Idle, LateInit}

(* RemainingTicks is unsigned 64 bits wide: below zero it wraps to a value *)
(* no run of the machine counts down.                                      *)
Forever == MaxLeft + 1

ASSUME ThreadsDistinct ==
    /\ Idle # LateInit
    /\ {Idle, LateInit} \cap Workers = {}
    /\ Boot \notin Threads
    /\ NoThread \notin Threads
    /\ Boot # NoThread

ASSUME BoundsAssumption ==
    /\ Quantum \in Nat
    /\ MaxLeft \in Nat
    /\ SleepTimes \subseteq 0 .. MaxLeft
    /\ Cap \in Nat \ {0, 1}
    /\ Calls \subseteq {"sleep", "add", "return", "stop", "lock", "release", "wait", "trywait", "notify"}
    /\ BootSleeps \in BOOLEAN

VARIABLES
    m_Enabled, m_Threads, m_SuspendedThreads, m_ThreadCount, m_Quantum,
    m_Index,          \* the fields of CScheduler
    m_Id, m_SuspendReason,   \* fields of each CThread, 0 before AddThread
    saved,            \* *m_RegState of each CThread
    info,             \* the thread_sleep_info objects
    cpu,              \* the context on the processor
    isr,              \* where the timer interrupt handler is
    halted            \* "cli; hlt": no interrupt will ever come

queueVars == <<m_Threads, m_ThreadCount, m_Index>>
threadVars == <<m_Id, m_SuspendReason, saved>>
sleepVars == <<m_SuspendedThreads, info>>
vars == <<m_Enabled, queueVars, m_Quantum, threadVars, sleepVars, cpu, isr, halted>>

-----------------------------------------------------------------------------
Infos == 0 .. Cap - 1

(* The steps a call can be stopped between; the last two rows are those of *)
(* the kernel mutex and semaphore (modules Mutex and Semaphore).           *)
Pcs == {"run", "halt", "add", "erase", "suspend", "yield", "retire", "leave",
        "take", "enlist", "mark", "open", "wake", "delist",
        "decrement", "tested", "flag", "append", "increment", "wakes", "index", "unflag"}

(* of: whose code; pc: "run" outside any scheduler call, "halt" in a hlt   *)
(* loop, else the next step of the call; t, n, end: the call's locals.     *)
Contexts == [of : Threads \cup {Boot}, pc : Pcs,
             t : Threads \cup {NoThread}, n : Nat, end : Int]

Running(c) == [of |-> c, pc |-> "run", t |-> NoThread, n |-> 0, end |-> 0]
Halted(c) == [Running(c) EXCEPT !.pc = "halt"]

NoInfo == [t |-> NoThread, left |-> 0]

(* No tick is being handled.                                               *)
NoTick == [pc |-> "none", i |-> 0, end |-> 0, before |-> [j \in Infos |-> 0]]

(* GetCurrentThread(): m_Threads[m_Index], which no one bounds-checks.     *)
CurrentThread == m_Threads.mem[m_Index]

SleepingInfos == Elements(m_SuspendedThreads)

AllContexts == {cpu} \cup {saved[t] : t \in Threads}

(* The threads no AddThread has been called for.                           *)
Unborn == {t \in Workers : /\ m_Id[t] = 0
                           /\ \A c \in AllContexts : c.pc = "add" => c.t # t}

(* The bound Cap is not reached.                                           *)
Room == m_Threads.len + m_SuspendedThreads.len < Cap

(* The context may take its next step: no interrupt handler is running.    *)
At(pc) == isr.pc = "none" /\ ~halted /\ cpu.pc = pc

(* cpu.of is free to call the scheduler.  KeStartThunk only adds threads,  *)
(* apart from an AML Sleep; afterwards it halts.                           *)
MayCall(call) ==
    /\ At("run")
    /\ IF cpu.of = Boot THEN call = "add" \/ (call = "sleep" /\ BootSleeps)
                        ELSE call \in Calls

Init ==
    /\ m_Enabled = FALSE
    /\ m_Threads = PushBack(PushBack(EmptyVector(NoThread, Cap), Idle), LateInit)
    /\ m_SuspendedThreads = EmptyVector(0, Cap)
    /\ m_ThreadCount = 2
    /\ m_Quantum = 0
    /\ m_Index = 0
    /\ m_Id = [t \in Threads |-> CASE t = Idle -> 1 [] t = LateInit -> 2 [] OTHER -> 0]
    /\ m_SuspendReason = [t \in Threads |-> "NotSuspended"]
    /\ saved = [t \in Threads |-> IF t = Idle THEN Halted(t) ELSE Running(t)]
    /\ info = [j \in Infos |-> NoInfo]
    /\ cpu = Running(Boot)
    /\ isr = NoTick
    /\ halted = FALSE

-----------------------------------------------------------------------------
(* AddThread, from AsyncTimer and AcpiOsExecute: ++m_ThreadCount is a load  *)
(* and a store, and the thread enters the queue at the end.                *)
AddThread ==
    /\ MayCall("add")
    /\ Room
    /\ \E t \in Unborn : cpu' = [cpu EXCEPT !.pc = "add", !.t = t, !.n = m_ThreadCount]
    /\ UNCHANGED <<m_Enabled, queueVars, m_Quantum, threadVars, sleepVars, isr, halted>>

AddThreadNotQueued ==       \* mutant: the thread gets an id but no slot
    /\ At("add")
    /\ Room
    /\ m_ThreadCount' = cpu.n + 1
    /\ m_Id' = [m_Id EXCEPT ![cpu.t] = cpu.n + 1]
    /\ cpu' = Running(cpu.of)
    /\ UNCHANGED <<m_Enabled, m_Threads, m_Index, m_Quantum, m_SuspendReason, saved,
                   sleepVars, isr, halted>>

AddThreadPush ==
    /\ At("add")
    /\ Room
    /\ m_ThreadCount' = cpu.n + 1
    /\ m_Id' = [m_Id EXCEPT ![cpu.t] = cpu.n + 1]
    /\ m_Threads' = PushBack(m_Threads, cpu.t)
    /\ cpu' = Running(cpu.of)
    /\ UNCHANGED <<m_Enabled, m_Index, m_Quantum, m_SuspendReason, saved, sleepVars, isr, halted>>

(* SetEnabled(true), then KeStartThunk halts with interrupts on.           *)
SetEnabled ==
    /\ At("run")
    /\ cpu.of = Boot
    /\ m_Enabled' = TRUE
    /\ cpu' = Halted(Boot)
    /\ UNCHANGED <<queueVars, m_Quantum, threadVars, sleepVars, isr, halted>>

-----------------------------------------------------------------------------
(* sched::Sleep: mark the current thread, erase it from the queue, append  *)
(* it to the suspended list, end the quantum.  The caller keeps running    *)
(* until the next tick.                                                    *)
Sleep ==
    /\ MayCall("sleep")
    /\ m_SuspendReason' = [m_SuspendReason EXCEPT ![CurrentThread] = "Sleeping"]
    /\ cpu' = [cpu EXCEPT !.pc = "erase", !.t = CurrentThread, !.n = 1]
    /\ UNCHANGED <<m_Enabled, queueVars, m_Quantum, m_Id, saved, sleepVars, isr, halted>>

(* AddSuspendedThread(cpu.t, ticks).  The argument of Sleep is chosen here, *)
(* where it is first used; a contended mutex::Lock passes 0 (cpu.n = 0).   *)
SuspendErase ==
    /\ At("erase")
    /\ m_Threads' = Erase(m_Threads, cpu.t)
    /\ cpu' = [cpu EXCEPT !.pc = "suspend"]
    /\ UNCHANGED <<m_Enabled, m_ThreadCount, m_Index, m_Quantum, threadVars, sleepVars, isr, halted>>

SuspendPush ==
    /\ At("suspend")
    /\ Room
    /\ \E ticks \in IF cpu.n = 0 THEN {0} ELSE SleepTimes :
          LET j == First(Infos \ SleepingInfos)   \* a fresh thread_sleep_info
          IN  /\ info' = [info EXCEPT ![j] = [t |-> cpu.t, left |-> ticks]]
              /\ m_SuspendedThreads' = PushBack(m_SuspendedThreads, j)
    /\ cpu' = [cpu EXCEPT !.pc = "yield", !.t = NoThread, !.n = 0]
    /\ UNCHANGED <<m_Enabled, queueVars, m_Quantum, threadVars, isr, halted>>

YieldThreadTime ==
    /\ At("yield")
    /\ m_Quantum' = 0
    /\ cpu' = Running(cpu.of)
    /\ UNCHANGED <<m_Enabled, queueVars, threadVars, sleepVars, isr, halted>>

(* The start routine returns into _ThreadFinish: erase the current thread, *)
(* end the quantum, halt.  LateInit never returns.                         *)
ThreadFinish ==
    /\ MayCall("return")
    /\ cpu.of \in Workers
    /\ cpu' = [cpu EXCEPT !.pc = "retire", !.t = CurrentThread]
    /\ UNCHANGED <<m_Enabled, queueVars, m_Quantum, threadVars, sleepVars, isr, halted>>

ThreadFinishErase ==
    /\ At("retire")
    /\ m_Threads' = Erase(m_Threads, cpu.t)
    /\ cpu' = [cpu EXCEPT !.pc = "leave", !.t = NoThread]
    /\ UNCHANGED <<m_Enabled, m_ThreadCount, m_Index, m_Quantum, threadVars, sleepVars, isr, halted>>

ThreadFinishYield ==
    /\ At("leave")
    /\ m_Quantum' = 0
    /\ cpu' = Halted(cpu.of)
    /\ UNCHANGED <<m_Enabled, queueVars, threadVars, sleepVars, isr, halted>>

(* The end of LateInit: cli; hlt.  The only CPU stops for good.            *)
LateInitStop ==
    /\ MayCall("stop")
    /\ cpu.of = LateInit
    /\ halted' = TRUE
    /\ UNCHANGED <<m_Enabled, queueVars, m_Quantum, threadVars, sleepVars, cpu, isr>>

-----------------------------------------------------------------------------
(* The timer interrupt: Interrupt32, Think, ThinkDeep.  While m_Enabled is *)
(* false it changes nothing.  isr.before is history: what every entry had  *)
(* left when the tick came.                                                *)
Tick ==
    /\ m_Enabled
    /\ ~halted
    /\ isr.pc = "none"
    /\ isr' = [pc |-> "scan", i |-> 0, end |-> m_SuspendedThreads.len,
               before |-> [j \in Infos |-> info[j].left]]
    /\ UNCHANGED <<m_Enabled, queueVars, m_Quantum, threadVars, sleepVars, cpu, halted>>

Scanning == isr.pc = "scan" /\ isr.i < isr.end
Scanned == isr.pc = "scan" /\ isr.i = isr.end

(* ThinkSuspendedThreads reads slot i, below the end() it took at the      *)
(* start: once an entry is erased the last slots are read past the length. *)
ScannedInfo == m_SuspendedThreads.mem[isr.i]

Sleeps(t) == m_SuspendReason[t] = "Sleeping"

(* --RemainingTicks, 64 bits and unsigned.                                 *)
CountDown(left) == IF left \in {0, Forever} THEN Forever ELSE left - 1

(* What a turn of the loop leaves of RemainingTicks: threads that wait for *)
(* a mutex are passed over.                                                *)
Counted ==
    IF Sleeps(info[ScannedInfo].t) THEN CountDown(info[ScannedInfo].left)
                                   ELSE info[ScannedInfo].left

Due == Sleeps(info[ScannedInfo].t) /\ Counted = 0

ScanStayNotAdvanced ==      \* mutant: the walk is not advanced past the entry
    /\ Scanning
    /\ ~Due
    /\ info' = [info EXCEPT ![ScannedInfo].left = Counted]
    /\ UNCHANGED <<m_Enabled, queueVars, m_Quantum, threadVars, m_SuspendedThreads, cpu, isr, halted>>

ScanStay ==
    /\ Scanning
    /\ ~Due
    /\ info' = [info EXCEPT ![ScannedInfo].left = Counted]
    /\ isr' = [isr EXCEPT !.i = @ + 1]
    /\ UNCHANGED <<m_Enabled, queueVars, m_Quantum, threadVars, m_SuspendedThreads, cpu, halted>>

(* RemoveSuspendedThread(id): the first entry whose thread has that id     *)
(* leaves the suspended list, its thread goes to the end of the queue.     *)
EntriesOf(id) == {p \in Live(m_SuspendedThreads) :
                    m_Id[info[m_SuspendedThreads.mem[p]].t] = id}

RemoveNotQueued(id) ==      \* mutant: the woken thread is not put in the queue
    IF EntriesOf(id) = {}
      THEN UNCHANGED <<m_Threads, m_SuspendedThreads>>
      ELSE /\ m_SuspendedThreads' =
                 Erase(m_SuspendedThreads, m_SuspendedThreads.mem[First(EntriesOf(id))])
           /\ UNCHANGED m_Threads

RemoveSuspendedThread(id) ==
    IF EntriesOf(id) = {}
      THEN UNCHANGED <<m_Threads, m_SuspendedThreads>>
      ELSE LET j == m_SuspendedThreads.mem[First(EntriesOf(id))]
           IN  /\ m_SuspendedThreads' = Erase(m_SuspendedThreads, j)
               /\ m_Threads' = PushBack(m_Threads, info[j].t)

ScanWake ==
    /\ Scanning
    /\ Due
    /\ info' = [info EXCEPT ![ScannedInfo].left = 0]
    /\ RemoveSuspendedThread(m_Id[info[ScannedInfo].t])
    /\ isr' = [isr EXCEPT !.i = @ + 1]
    /\ UNCHANGED <<m_Enabled, m_ThreadCount, m_Index, m_Quantum, threadVars, cpu, halted>>

(* The end of a tick.  Entries that left the suspended list are leaked and *)
(* the slots behind its end are not read before they are written again:    *)
(* both are forgotten, so that states that differ in them only are one.    *)
EndTick ==
    /\ isr' = NoTick
    /\ m_SuspendedThreads' = [m_SuspendedThreads EXCEPT !.mem =
            [i \in Infos |-> IF i < m_SuspendedThreads.len THEN @[i] ELSE 0]]
    /\ info' = [j \in Infos |-> IF j \in SleepingInfos THEN info[j] ELSE NoInfo]

KeepRunningUnderflow ==     \* mutant: the quantum is counted down unchecked
    /\ Scanned
    /\ m_Quantum' = m_Quantum - 1
    /\ EndTick
    /\ UNCHANGED <<m_Enabled, queueVars, threadVars, cpu, halted>>

(* The interrupted context goes on.                                        *)
KeepRunning ==
    /\ Scanned
    /\ m_ThreadCount = 0 \/ m_Quantum > 0
    /\ m_Quantum' = IF m_ThreadCount = 0 THEN m_Quantum ELSE m_Quantum - 1
    /\ EndTick
    /\ UNCHANGED <<m_Enabled, queueVars, threadVars, cpu, halted>>

SwitchDue == Scanned /\ m_ThreadCount > 0 /\ m_Quantum = 0

WrappedEarly(i) == IF i >= m_Threads.len - 1 THEN 0 ELSE i   \* mutant: off by one

Wrapped(i) == IF i >= m_Threads.len THEN 0 ELSE i

NextThread == m_Threads.mem[Wrapped(m_Index + 1)]

SwitchIndexNotStored ==     \* mutant: m_Index + 1 is used but not stored
    /\ SwitchDue
    /\ saved' = [saved EXCEPT ![CurrentThread] = cpu]
    /\ cpu' = saved'[NextThread]
    /\ m_Quantum' = Quantum
    /\ EndTick
    /\ UNCHANGED <<m_Enabled, queueVars, m_Id, m_SuspendReason, halted>>

SwitchSavedLate ==          \* mutant: SaveState after m_Index was advanced
    /\ SwitchDue
    /\ saved' = [saved EXCEPT ![NextThread] = cpu]
    /\ cpu' = saved[NextThread]
    /\ m_Index' = Wrapped(m_Index + 1)
    /\ m_Quantum' = Quantum
    /\ EndTick
    /\ UNCHANGED <<m_Enabled, m_Threads, m_ThreadCount, m_Id, m_SuspendReason, halted>>

(* SaveState into the current slot, advance, SchSwitchTaskKernel.          *)
Switch ==
    /\ SwitchDue
    /\ Wrapped(m_Index + 1) < m_Threads.len
    /\ saved' = [saved EXCEPT ![CurrentThread] = cpu]
    /\ cpu' = saved'[NextThread]
    /\ m_Index' = Wrapped(m_Index + 1)
    /\ m_Quantum' = Quantum
    /\ EndTick
    /\ UNCHANGED <<m_Enabled, m_Threads, m_ThreadCount, m_Id, m_SuspendReason, halted>>

(* m_Threads.at(m_Index) throws when the queue is empty; nobody catches.   *)
AtThrows ==
    /\ SwitchDue
    /\ Wrapped(m_Index + 1) >= m_Threads.len
    /\ saved' = [saved EXCEPT ![CurrentThread] = cpu]
    /\ m_Index' = 0
    /\ EndTick
    /\ halted' = TRUE
    /\ UNCHANGED <<m_Enabled, m_Threads, m_ThreadCount, m_Quantum, m_Id, m_SuspendReason, cpu>>

-----------------------------------------------------------------------------
ThreadStep ==
    \/ AddThread \/ AddThreadPush \/ SetEnabled
    \/ Sleep \/ SuspendErase \/ SuspendPush \/ YieldThreadTime
    \/ ThreadFinish \/ ThreadFinishErase \/ ThreadFinishYield
    \/ LateInitStop

HandlerStep == ScanStay \/ ScanWake \/ KeepRunning \/ Switch \/ AtThrows

Next == ThreadStep \/ Tick \/ HandlerStep

Spec == Init /\ [][Next]_vars

(* KeStartThunk is straight-line code, the local APIC timer is periodic    *)
(* and the handler runs to its end.  No fairness is asked of the threads,  *)
(* which may loop and never call the scheduler again.                      *)
FairSpec ==
    /\ Spec
    /\ WF_vars(cpu.of = Boot /\ ThreadStep)
    /\ WF_vars(Tick)
    /\ WF_vars(HandlerStep)
=============================================================================
