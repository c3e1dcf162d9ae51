--------------------------- MODULE WaitingProofs -----------------------------
(***************************************************************************)
(* The mutex and the semaphore on top of the scheduler, for every number   *)
(* of threads, all initial units and every bound.                          *)
(*                                                                         *)
(* The scheduler's invariant says that the slots up to m_Index hold        *)
(* threads, but not that the slot a preempted Lock has a reference into    *)
(* still does.  It does because no step takes a thread out of a slot of    *)
(* m_Threads without putting another in (SlotsStay).  MutexInv adds this,  *)
(* and that the idle thread's id is its own: AddThread's load and store of *)
(* m_ThreadCount can give one id to two threads, but never that one.  So   *)
(* MutexTypeOK is an invariant, and so are IdleNeverWaits and              *)
(* IdleAlwaysRunnable, provided no AML sleeps before SetEnabled.           *)
(*                                                                         *)
(* ReleaseWakesAll needs the whole history of a walk, WakeInv: each thread *)
(* that is due has an id of its own and is suspended until it is woken     *)
(* (Habits, DueInv), and every context in the walk, stale copies in saved  *)
(* included, is in the same one, either before its first Erase (AtFirst)   *)
(* or after it, with the second waiter's id at the front of the list and   *)
(* in the stale slot behind it (AtSecond).                                 *)
(*                                                                         *)
(* The same goes for the semaphore, in the second half: the slots that     *)
(* Wait enlists and Notify unmarks go on holding threads.  NotifyInList    *)
(* and WaitersCalledWait are about the registers of the threads in the     *)
(* middle of a call, and are proved of threads that neither sleep nor      *)
(* return: as soon as one does, a switch saves its registers over another  *)
(* thread's (NonBlockingContextsOwned holds only that long), and a call    *)
(* that began is never ended.                                              *)
(***************************************************************************)
EXTENDS MutexProps, SemaphoreProps, SchedulerProofs

(* What a context carries from one step of a call to the next.             *)
LocalsOk(c) ==
    /\ c.pc = "add" => c.n >= 2
    /\ c.pc = "mark" => /\ c.n \in Slots /\ m_Threads.mem[c.n] \in Threads
                        /\ BootSleeps = FALSE => c.n >= 1
    /\ c.pc \in {"wake", "delist"} => c.n < c.end /\ c.end <= Cap

LocalsInv == LocalsOk(cpu) /\ \A t \in Threads : LocalsOk(saved[t])

IdsInv ==
    /\ m_ThreadCount >= 2
    /\ m_Id[Idle] = 1
    /\ \A t \in Threads \ {Idle} : m_Id[t] # 1

WaitersInv ==
    /\ m_Flag \in BOOLEAN
    /\ due \subseteq Threads
    /\ m_Waiters \in VectorOf(Nat, Cap)
    /\ BootSleeps = FALSE => \A i \in Live(m_Waiters) : m_Waiters.mem[i] # 1

IdleAwake == BootSleeps = FALSE => m_SuspendReason[Idle] = "NotSuspended"

MutexInv == IInv /\ LocalsInv /\ IdsInv /\ WaitersInv /\ IdleAwake

-----------------------------------------------------------------------------
LEMMA MutexInvImplies ==
    ASSUME MutexInv
    PROVE  MutexTypeOK /\ (BootSleeps = FALSE => IdleNeverWaits /\ IdleAlwaysRunnable)
<1>1. TypeOK /\ (BootSleeps = FALSE => IdleAlwaysRunnable)
  BY IInvImpliesTypeOK, IInvImpliesIdle DEF MutexInv
<1>2. MutexTypeOK
  BY <1>1 DEF MutexInv, WaitersInv, LocalsInv, LocalsOk, MutexTypeOK
<1>3. BootSleeps = FALSE => IdleNeverWaits
  BY DEF MutexInv, WaitersInv, IdsInv, IdleAwake, IdleNeverWaits
<1> QED
  BY <1>1, <1>2, <1>3

LEMMA InitMutexInv == MutexInit => MutexInv
<1> SUFFICES ASSUME MutexInit PROVE MutexInv
  OBVIOUS
<1> USE ThreadsDistinct, BoundsAssumption
<1>1. IInv
  BY InitIInv DEF MutexInit
<1>2. LocalsInv
  BY DEF MutexInit, Init, LocalsInv, LocalsOk, Running, Halted
<1>3. IdsInv
  BY DEF MutexInit, Init, IdsInv, Threads
<1>4. WaitersInv
  <2>1. m_Waiters \in VectorOf(Nat, Cap) /\ Live(m_Waiters) = {}
    BY DEF MutexInit, EmptyVector, VectorOf, Live
  <2> QED
    BY <2>1 DEF MutexInit, WaitersInv
<1>5. IdleAwake
  BY DEF MutexInit, Init, Threads, IdleAwake
<1> QED
  BY <1>1, <1>2, <1>3, <1>4, <1>5 DEF MutexInv

-----------------------------------------------------------------------------
(* LocalsOk says the same of a context whose registers do not change.      *)
LEMMA LocalsStay ==
    ASSUME LocalsInv, SlotsStay
    PROVE  /\ cpu' = cpu => LocalsOk(cpu)'
           /\ \A t \in Threads : saved'[t] = saved[t] => LocalsOk(saved[t])'
BY DEF LocalsInv, LocalsOk, SlotsStay, Slots

-----------------------------------------------------------------------------
(* The scheduler's own steps.                                              *)
LEMMA ThreadStepKeeps ==
    ASSUME MutexInv, ThreadStep
    PROVE  LocalsInv' /\ IdsInv' /\ IdleAwake'
<1> USE ThreadsDistinct, BoundsAssumption
<1>before. /\ IInv /\ Types /\ ContextInv /\ BootInv /\ LocalsInv /\ IdsInv
      /\ cpu \in Contexts /\ m_ThreadCount \in Nat /\ Idle \in Threads
      /\ IdleAwake /\ SlotsStay
  BY NextSlotsStay DEF MutexInv, IInv, Types, Threads, Next
<1>1. CASE AddThread
  <2>1. PICK t \in Unborn : cpu' = [cpu EXCEPT !.pc = "add", !.t = t, !.n = m_ThreadCount]
    BY <1>1 DEF AddThread
  <2>2. cpu'.pc = "add" /\ cpu'.n = m_ThreadCount
    BY <1>before, <2>1 DEF Contexts
  <2>3. saved' = saved /\ UNCHANGED <<m_ThreadCount, m_Id, m_SuspendReason>>
    BY <1>1 DEF AddThread, queueVars, threadVars
  <2>4. LocalsInv'
    BY <1>before, <2>2, <2>3, LocalsStay DEF LocalsInv, LocalsOk, IdsInv
  <2> QED
    BY <1>before, <2>3, <2>4 DEF IdsInv, IdleAwake
<1>2. CASE AddThreadPush
  <2>1. cpu.pc = "add" /\ cpu.t \in Threads \ {Idle} /\ cpu.n \in Nat /\ cpu.n >= 2
    BY <1>before, <1>2 DEF AddThreadPush, At, ContextInv, CallOk, Threads, LocalsInv, LocalsOk, Contexts
  <2>4. saved' = saved /\ cpu'.pc = "run" /\ m_SuspendReason' = m_SuspendReason
    BY <1>2 DEF AddThreadPush, Running
  <2>5. LocalsInv'
    BY <1>before, <2>4, LocalsStay DEF LocalsInv, LocalsOk
  <2>6. m_ThreadCount' = cpu.n + 1 /\ m_Id' = [m_Id EXCEPT ![cpu.t] = cpu.n + 1]
    BY <1>2 DEF AddThreadPush
  <2>7. IdsInv'
    BY <1>before, <2>1, <2>6 DEF IdsInv, Types
  <2> QED
    BY <1>before, <2>4, <2>5, <2>7 DEF IdleAwake
<1>3. CASE Sleep
  <2>1. CurrentThread \in Removable
    BY <1>before, <1>3, CallerIsRemovable DEF Sleep, MayCall, At
  <2>2. UNCHANGED <<saved, m_ThreadCount, m_Id>> /\ cpu'.pc = "erase"
    BY <1>before, <1>3 DEF Sleep, queueVars, Contexts
  <2>3. IdleAwake'
    BY <1>before, <1>3, <2>1 DEF Sleep, Types, IdleAwake, Removable
  <2>4. LocalsInv'
    BY <1>before, <2>2, LocalsStay DEF LocalsInv, LocalsOk
  <2> QED
    BY <1>before, <2>2, <2>3, <2>4 DEF IdsInv
<1>4. CASE SuspendErase \/ ThreadFinishErase
  <2>3. UNCHANGED <<threadVars, m_ThreadCount>> /\ cpu'.pc \in {"suspend", "leave"}
    BY <1>before, <1>4 DEF SuspendErase, ThreadFinishErase, Contexts
  <2>4. LocalsInv'
    BY <1>before, <2>3, LocalsStay DEF LocalsInv, LocalsOk, threadVars
  <2> QED
    BY <1>before, <2>3, <2>4 DEF IdsInv, IdleAwake, threadVars
<1>5. CASE SetEnabled \/ SuspendPush \/ YieldThreadTime \/ ThreadFinish
             \/ ThreadFinishYield \/ LateInitStop
  <2>1. UNCHANGED <<threadVars, m_ThreadCount>>
    BY <1>5 DEF SetEnabled, SuspendPush, YieldThreadTime, ThreadFinish, ThreadFinishYield,
                LateInitStop, queueVars
  <2>2. cpu' = cpu \/ cpu'.pc \in {"run", "halt", "yield", "retire"}
    <3>1. CASE SetEnabled \/ YieldThreadTime \/ ThreadFinishYield
      BY <3>1 DEF SetEnabled, YieldThreadTime, ThreadFinishYield, Running, Halted
    <3>2. CASE SuspendPush \/ ThreadFinish
      BY <1>before, <3>2 DEF SuspendPush, ThreadFinish, Contexts
    <3>3. CASE LateInitStop
      BY <3>3 DEF LateInitStop
    <3> QED
      BY <1>5, <3>1, <3>2, <3>3
  <2>3. LocalsInv'
    BY <1>before, <2>1, <2>2, LocalsStay DEF LocalsInv, LocalsOk, threadVars
  <2> QED
    BY <1>before, <2>1, <2>3 DEF IdsInv, IdleAwake, threadVars
<1> QED
  BY <1>1, <1>2, <1>3, <1>4, <1>5 DEF ThreadStep

LEMMA SwitchTarget ==
    ASSUME IInv, Switch
    PROVE  NextThread \in Threads
<1>1. m_Index \in Slots /\ m_Threads.len \in 0 .. Cap /\ Cap \in Nat
  BY BoundsAssumption DEF IInv, Types, VectorOf
<1>2. Wrapped(m_Index + 1) \in Slots /\ Wrapped(m_Index + 1) < m_Threads.len
  BY <1>1 DEF Switch, Wrapped, Slots
<1> QED
  BY <1>2 DEF IInv, QueueInv, NextThread

LEMMA HandlerStepKeeps ==
    ASSUME MutexInv, Tick \/ HandlerStep
    PROVE  LocalsInv' /\ IdsInv' /\ IdleAwake'
<1>before. /\ IInv /\ LocalsInv /\ IdsInv /\ IdleAwake /\ SlotsStay
      /\ CurrentThread \in Threads /\ saved \in [Threads -> Contexts]
  BY IInvImpliesTypeOK, NextSlotsStay DEF MutexInv, TypeOK, Next
<1>1. UNCHANGED <<m_ThreadCount, m_Id, m_SuspendReason>>
  BY DEF Tick, HandlerStep, ScanStay, ScanWake, KeepRunning, Switch, AtThrows, queueVars, threadVars
<1>3. LocalsInv'
  <2>1. CASE Switch
    <3>1. /\ saved' = [saved EXCEPT ![CurrentThread] = cpu]
          /\ cpu' = saved'[NextThread] /\ NextThread \in Threads
      BY <1>before, <2>1, SwitchTarget DEF Switch
    <3>2. \A t \in Threads : saved'[t] = cpu \/ saved'[t] = saved[t]
      BY <1>before, <3>1
    <3>3. m_Threads' = m_Threads
      BY <2>1 DEF Switch
    <3> QED
      BY <1>before, <3>1, <3>2, <3>3 DEF LocalsInv, LocalsOk
  <2>2. CASE AtThrows
    <3>1. /\ saved' = [saved EXCEPT ![CurrentThread] = cpu] /\ cpu' = cpu
          /\ m_Threads' = m_Threads
      BY <2>2 DEF AtThrows
    <3>2. \A t \in Threads : saved'[t] = cpu \/ saved'[t] = saved[t]
      BY <1>before, <3>1
    <3> QED
      BY <1>before, <3>1, <3>2 DEF LocalsInv, LocalsOk
  <2>3. CASE Tick \/ ScanStay \/ ScanWake \/ KeepRunning
    <3>1. cpu' = cpu /\ saved' = saved
      BY <2>3 DEF Tick, ScanStay, ScanWake, KeepRunning, threadVars
    <3> QED
      BY <1>before, <3>1, LocalsStay DEF LocalsInv
  <2> QED
    BY <2>1, <2>2, <2>3 DEF HandlerStep
<1> QED
  BY <1>before, <1>1, <1>3 DEF IdsInv, IdleAwake

-----------------------------------------------------------------------------
(* The mutex' own steps.                                                   *)
LEMMA MutexStepKeeps ==
    ASSUME MutexInv, MutexStep
    PROVE  MutexInv'
<1> USE ThreadsDistinct, BoundsAssumption
<1>before. /\ IInv /\ LocalsInv /\ IdsInv /\ WaitersInv /\ LocalsOk(cpu)
      /\ IdleAwake /\ Idle \in Threads
      /\ m_SuspendReason \in [Threads -> {"NotSuspended", "Sleeping", "Waiting"}]
      /\ m_Id \in [Threads -> Nat] /\ cpu \in Contexts
      /\ m_Waiters \in VectorOf(Nat, Cap) /\ m_Waiters.len \in 0 .. Cap /\ Cap \in Nat
  BY DEF MutexInv, LocalsInv, IInv, Types, Threads, WaitersInv, VectorOf
<1>calling. cpu.pc \notin {"halt", "add"} /\ (cpu.pc = "run" => cpu.of # Boot)
  BY DEF MutexStep, Lock, LockTake, LockEnlist, LockMark, Release, ReleaseOpen, ReleaseWake,
         ReleaseDelist, MayCall, At
<1>elsewhere. /\ m_Index \in Slots /\ (BootSleeps = FALSE => m_Index >= 1)
        /\ CurrentThread \in Removable /\ CurrentThread \in Threads
  BY <1>before, <1>calling, CallerIsElsewhere DEF Removable
(* Most steps leave the scheduler and its threads alone.                   *)
<1>1. ASSUME UNCHANGED <<m_Enabled, queueVars, m_Quantum, threadVars, sleepVars, isr, halted>>,
             cpu' \in Contexts, cpu'.of = cpu.of,
             cpu'.pc \notin {"add", "erase", "suspend", "retire"}, LocalsOk(cpu)', WaitersInv'
      PROVE  MutexInv'
  <2>1. IInv'
    BY <1>before, <1>calling, <1>1, CallStepIInv DEF threadVars, CallOk
  <2>2. SlotsStay /\ saved' = saved
    BY <1>1 DEF queueVars, threadVars, SlotsStay
  <2>3. LocalsInv'
    BY <1>before, <1>1, <2>2, LocalsStay DEF LocalsInv
  <2> QED
    BY <1>before, <1>1, <2>1, <2>3 DEF MutexInv, IdsInv, IdleAwake, queueVars, threadVars
<1>2. CASE Lock
  <2>1. cpu' \in Contexts /\ cpu'.of = cpu.of /\ cpu'.pc \in {"take", "enlist"}
    BY <1>before, <1>2 DEF Lock, Contexts, Pcs
  <2>2. WaitersInv'
    BY <1>before, <1>2 DEF Lock, mutexVars, WaitersInv
  <2> QED
    BY <1>1, <1>2, <2>1, <2>2 DEF Lock, LocalsOk
<1>3. CASE LockTake
  <2>1. cpu' \in Contexts /\ cpu'.of = cpu.of /\ cpu'.pc = "run"
    BY <1>before, <1>3 DEF LockTake, Running, Contexts, Pcs
  <2>2. WaitersInv'
    BY <1>before, <1>3 DEF LockTake, WaitersInv
  <2> QED
    BY <1>1, <1>3, <2>1, <2>2 DEF LockTake, LocalsOk
<1>4. CASE LockEnlist
  <2>1. /\ cpu' \in Contexts /\ cpu'.of = cpu.of /\ cpu'.pc = "mark" /\ cpu'.n = m_Index
    <3>1. m_Index \in Nat /\ cpu' = [cpu EXCEPT !.pc = "mark", !.n = m_Index]
      BY <1>elsewhere, <1>4 DEF LockEnlist, Slots
    <3> QED
      BY <1>before, <3>1 DEF Contexts, Pcs
  <2>2. LocalsOk(cpu)'
    BY <1>elsewhere, <1>4, <2>1 DEF LockEnlist, LocalsOk, queueVars, CurrentThread
  <2>3. /\ m_Waiters.len < Cap /\ m_Id[CurrentThread] \in Nat
        /\ BootSleeps = FALSE => m_Id[CurrentThread] # 1
    BY <1>before, <1>elsewhere, <1>4 DEF LockEnlist, IdsInv, Removable
  <2>4. /\ m_Waiters' \in VectorOf(Nat, Cap) /\ m_Waiters'.len = m_Waiters.len + 1
        /\ m_Waiters'.mem[m_Waiters.len] = m_Id[CurrentThread]
        /\ \A i \in 0 .. Cap - 1 : i # m_Waiters.len => m_Waiters'.mem[i] = m_Waiters.mem[i]
    BY <1>before, <1>4, <2>3, PushBackSpec DEF LockEnlist
  <2>5. BootSleeps = FALSE => \A i \in Live(m_Waiters') : m_Waiters'.mem[i] # 1
    <3>1. \A i \in Live(m_Waiters') :
             i = m_Waiters.len \/ (i \in Live(m_Waiters) /\ i \in 0 .. Cap - 1 /\ i # m_Waiters.len)
      BY <1>before, <2>3, <2>4 DEF Live
    <3> QED
      BY <1>before, <2>3, <2>4, <3>1 DEF WaitersInv
  <2>6. WaitersInv'
    BY <1>before, <1>4, <2>4, <2>5 DEF LockEnlist, WaitersInv
  <2> QED
    BY <1>1, <1>4, <2>1, <2>2, <2>6 DEF LockEnlist
<1>5. CASE LockMark
  <2> DEFINE t == m_Threads.mem[cpu.n]
  <2>1. t \in Removable /\ t \in Threads
    BY <1>before, <1>5 DEF LockMark, At, LocalsOk, IInv, QueueInv, Removable
  <2>2. /\ m_SuspendReason' = [m_SuspendReason EXCEPT ![t] = "Waiting"]
        /\ cpu' = [cpu EXCEPT !.pc = "erase", !.t = t, !.n = 0]
    BY <1>5 DEF LockMark
  <2> HIDE DEF t
  <2>3. cpu' \in Contexts /\ cpu'.of = cpu.of /\ cpu'.pc = "erase" /\ cpu'.t = t
    BY <1>before, <2>1, <2>2 DEF Contexts, Pcs
  <2>4. /\ m_SuspendReason' \in [Threads -> {"NotSuspended", "Sleeping", "Waiting"}]
        /\ IdleAwake'
    BY <1>before, <2>1, <2>2 DEF IdleAwake, Removable
  <2>5. IInv'
    BY <1>before, <1>calling, <1>5, <2>1, <2>3, <2>4, CallStepIInv DEF LockMark, CallOk
  <2>6. SlotsStay /\ saved' = saved
    BY <1>5 DEF LockMark, queueVars, SlotsStay
  <2>7. LocalsInv'
    BY <1>before, <2>3, <2>6, LocalsStay DEF LocalsInv, LocalsOk
  <2> QED
    BY <1>before, <1>5, <2>4, <2>5, <2>7 DEF LockMark, MutexInv, IdsInv, WaitersInv, queueVars, mutexVars
<1>6. CASE Release
  <2>1. cpu' \in Contexts /\ cpu'.of = cpu.of /\ cpu'.pc = "open"
    BY <1>before, <1>6 DEF Release, Contexts, Pcs
  <2>2. WaitersInv'
    BY <1>before, <1>6 DEF Release, mutexVars, WaitersInv
  <2> QED
    BY <1>1, <1>6, <2>1, <2>2 DEF Release, LocalsOk
<1>7. CASE ReleaseOpen
  <2>1. WaitersInv'
    BY <1>before, <1>7 DEF ReleaseOpen, WaitersInv, Expected
  <2>2. CASE m_Waiters.len = 0
    <3>1. cpu' \in Contexts /\ cpu'.of = cpu.of /\ cpu'.pc = "run"
      BY <1>before, <1>7, <2>2 DEF ReleaseOpen, Running, Contexts, Pcs
    <3> QED
      BY <1>1, <1>7, <2>1, <3>1 DEF ReleaseOpen, LocalsOk
  <2>3. CASE m_Waiters.len # 0
    <3>1. cpu' = [cpu EXCEPT !.pc = "wake", !.n = 0, !.end = m_Waiters.len]
      BY <1>7, <2>3 DEF ReleaseOpen
    <3>2. /\ cpu' \in Contexts /\ cpu'.of = cpu.of /\ cpu'.pc = "wake"
          /\ cpu'.n = 0 /\ cpu'.end = m_Waiters.len
      <4>1. m_Waiters.len \in Int /\ 0 \in Nat
        BY <1>before
      <4> QED
        BY <1>before, <3>1, <4>1 DEF Contexts, Pcs
    <3>3. LocalsOk(cpu)'
      BY <1>before, <2>3, <3>2 DEF LocalsOk
    <3> QED
      BY <1>1, <1>7, <2>1, <3>2, <3>3 DEF ReleaseOpen
  <2> QED
    BY <2>2, <2>3
<1>8. CASE ReleaseWake
  <2>1. /\ cpu' \in Contexts /\ cpu'.of = cpu.of /\ cpu'.pc = "delist"
        /\ cpu'.n = cpu.n /\ cpu'.end = cpu.end /\ cpu.pc = "wake"
    BY <1>before, <1>8 DEF ReleaseWake, At, Contexts, Pcs
  <2>2. /\ QueueInv' /\ SuspendedInv'
        /\ m_Threads' \in VectorOf(Threads \cup {NoThread}, Cap)
        /\ m_SuspendedThreads' \in VectorOf(Infos, Cap)
    BY <1>before, <1>8, RemoveSuspendedKeeps DEF ReleaseWake, IInv, Types
  <2>3. Types'
    BY <1>before, <1>8, <2>1, <2>2 DEF ReleaseWake, IInv, Types, threadVars, Infos
  <2>4. ContextInv'
    BY <1>before, <1>8, <2>1 DEF ReleaseWake, IInv, ContextInv, CallOk, threadVars
  <2>5. BootInv'
    BY <1>before, <1>elsewhere, <1>8, <2>1 DEF ReleaseWake, IInv, BootInv, threadVars, Slots
  <2>6. SlotsStay
    BY <1>before, <1>8, RemoveSuspendedSlotsStay DEF ReleaseWake
  <2>7. LocalsInv'
    BY <1>before, <1>8, <2>1, <2>6, LocalsStay DEF ReleaseWake, LocalsInv, LocalsOk, threadVars
  <2>8. WaitersInv' /\ IdsInv' /\ IdleAwake'
    BY <1>before, <1>8 DEF ReleaseWake, WaitersInv, IdsInv, IdleAwake, threadVars
  <2> QED
    BY <2>2, <2>3, <2>4, <2>5, <2>7, <2>8 DEF MutexInv, IInv
<1>9. CASE ReleaseDelist
  <2>1. /\ m_Waiters' \in VectorOf(Nat, Cap)
        /\ \A i \in Live(m_Waiters') : \E k \in Live(m_Waiters) :
              m_Waiters'.mem[i] = m_Waiters.mem[k]
    BY <1>before, <1>9, EraseSpec DEF ReleaseDelist, Kept
  <2>2. WaitersInv'
    BY <1>before, <1>9, <2>1 DEF ReleaseDelist, WaitersInv
  <2>3. /\ cpu.pc = "delist" /\ cpu.n \in Nat /\ cpu.end \in Int /\ cpu.n < cpu.end /\ cpu.end <= Cap
    BY <1>before, <1>9 DEF ReleaseDelist, At, LocalsOk, Contexts
  <2>4. CASE cpu.n + 1 = cpu.end
    <3>1. cpu' \in Contexts /\ cpu'.of = cpu.of /\ cpu'.pc = "run"
      BY <1>before, <1>9, <2>4 DEF ReleaseDelist, Running, Contexts, Pcs
    <3> QED
      BY <1>1, <1>9, <2>2, <3>1 DEF ReleaseDelist, LocalsOk
  <2>5. CASE cpu.n + 1 # cpu.end
    <3>1. cpu' = [cpu EXCEPT !.pc = "wake", !.n = cpu.n + 1]
      BY <1>9, <2>5 DEF ReleaseDelist
    <3>2. /\ cpu' \in Contexts /\ cpu'.of = cpu.of /\ cpu'.pc = "wake"
          /\ cpu'.n = cpu.n + 1 /\ cpu'.end = cpu.end
      <4>1. cpu.n + 1 \in Nat
        BY <2>3
      <4> QED
        BY <1>before, <3>1, <4>1 DEF Contexts, Pcs
    <3>3. LocalsOk(cpu)'
      BY <2>3, <2>5, <3>2 DEF LocalsOk
    <3> QED
      BY <1>1, <1>9, <2>2, <3>2, <3>3 DEF ReleaseDelist
  <2> QED
    BY <2>4, <2>5
<1> QED
  BY <1>2, <1>3, <1>4, <1>5, <1>6, <1>7, <1>8, <1>9 DEF MutexStep

LEMMA MutexInductive ==
    ASSUME MutexInv, [MutexNext]_allVars
    PROVE  MutexInv'
<1>1. CASE MutexStep
  BY <1>1, MutexStepKeeps
<1>2. CASE Next /\ UNCHANGED mutexVars
  <2>1. IInv'
    BY <1>2, Inductive DEF MutexInv
  <2>2. LocalsInv' /\ IdsInv' /\ IdleAwake'
    BY <1>2, ThreadStepKeeps, HandlerStepKeeps DEF Next
  <2>3. WaitersInv'
    BY <1>2 DEF MutexInv, WaitersInv, mutexVars
  <2> QED
    BY <2>1, <2>2, <2>3 DEF MutexInv
<1>3. CASE UNCHANGED allVars
  <2>1. IInv'
    BY <1>3, Inductive DEF MutexInv, allVars
  <2>2. UNCHANGED <<m_Threads, m_ThreadCount, m_Id, m_SuspendReason, saved, cpu, mutexVars>>
    BY <1>3 DEF allVars, vars, queueVars, threadVars
  <2> QED
    BY <2>1, <2>2 DEF MutexInv, LocalsInv, LocalsOk, IdsInv, WaitersInv, IdleAwake, mutexVars
<1> QED
  BY <1>1, <1>2, <1>3 DEF MutexNext

-----------------------------------------------------------------------------
(* Type correctness of the mutex and of the scheduler below it: the        *)
(* reference that Lock takes into m_Threads (semaphore.cpp:116) and keeps  *)
(* over a preemption is to a thread, and Release's walk stays in the       *)
(* storage of its list.                                                    *)
THEOREM MutexTypeCorrect == MutexSpec => []MutexTypeOK
<1>1. MutexInit => MutexInv
  BY InitMutexInv
<1>2. MutexInv /\ [MutexNext]_allVars => MutexInv'
  BY MutexInductive
<1>3. MutexInv => MutexTypeOK
  BY MutexInvImplies
<1> QED
  BY <1>1, <1>2, <1>3, PTL DEF MutexSpec

(* However late the tick comes between the steps of Lock, the idle thread  *)
(* is neither enlisted nor suspended by it.                                *)
THEOREM IdleNotWaiting ==
    ASSUME BootSleeps = FALSE
    PROVE  MutexSpec => []IdleNeverWaits
<1>1. MutexInit => MutexInv
  BY InitMutexInv
<1>2. MutexInv /\ [MutexNext]_allVars => MutexInv'
  BY MutexInductive
<1>3. MutexInv /\ BootSleeps = FALSE => IdleNeverWaits
  BY MutexInvImplies
<1> QED
  BY <1>1, <1>2, <1>3, PTL DEF MutexSpec

(* The scheduler's own guarantee survives the mutex, whose calls erase     *)
(* from its queue and push to it from threads: the switch always has a     *)
(* thread to go to.                                                        *)
THEOREM IdleRunnableWithMutex ==
    ASSUME BootSleeps = FALSE
    PROVE  MutexSpec => []IdleAlwaysRunnable
<1>1. MutexInit => MutexInv
  BY InitMutexInv
<1>2. MutexInv /\ [MutexNext]_allVars => MutexInv'
  BY MutexInductive
<1>3. MutexInv /\ BootSleeps = FALSE => IdleAlwaysRunnable
  BY MutexInvImplies
<1> QED
  BY <1>1, <1>2, <1>3, PTL DEF MutexSpec

-----------------------------------------------------------------------------
(* Release wakes whom it finds waiting.  It goes by ids, which are the     *)
(* threads' own as long as only the boot code adds threads: then no two    *)
(* calls of AddThread are in progress at once.                             *)
Added(t) == m_Id[t] # 0

IdsOwn ==
    /\ \A t \in Threads : m_Id[t] <= m_ThreadCount
    /\ \A t, u \in Threads : Added(t) /\ m_Id[t] = m_Id[u] => t = u
    /\ \A t \in Threads : saved[t].pc # "add"
    /\ cpu.pc = "add" => ~m_Enabled /\ cpu.n = m_ThreadCount

(* A tick wakes nobody.                                                    *)
NobodySleeps ==
    /\ \A t \in Threads : ~Sleeps(t)
    /\ isr.pc = "scan" => isr.end <= m_SuspendedThreads.len

(* Whoever is, was or may come to be in the queue has an id.               *)
CallAdded(c) == c.pc \in {"erase", "suspend"} => Added(c.t)

AddedInv ==
    /\ \A i \in Slots : m_Threads.mem[i] \in Threads => Added(m_Threads.mem[i])
    /\ \A j \in SleepingInfos : Added(info[j].t)
    /\ CallAdded(cpu)
    /\ \A t \in Threads : CallAdded(saved[t])

Habits == IdsOwn /\ NobodySleeps /\ AddedInv

(* While the walk has somebody to wake, every context in it, stale copies  *)
(* in saved included, is in the same walk, over a list of one or two.      *)
Walks(c) == c.pc \in {"wake", "delist"}

(* Nothing has been erased yet.                                            *)
AtFirst(end) ==
    /\ m_Waiters.len = end
    /\ \A t \in due : m_Id[t] \in {m_Waiters.mem[0], m_Waiters.mem[end - 1]}
    /\ \A c \in AllContexts : Walks(c) => c.n = 0
    /\ \A c \in AllContexts : c.pc = "delist" => \A t \in due : m_Id[t] # m_Waiters.mem[0]

(* The second of two has moved to the front.  Its stale slot is still      *)
(* there for the walk to find.                                             *)
AtSecond(end) ==
    /\ end = 2
    /\ m_Waiters.len <= 1
    /\ m_Waiters.mem[0] = m_Waiters.mem[1]
    /\ \A t \in due : m_Id[t] = m_Waiters.mem[1]
    /\ \A c \in AllContexts : c.pc = "delist" => c.n = 0

WalkInv ==
    due # {} => \E end \in {1, 2} :
        /\ \A c \in AllContexts : Walks(c) => c.end = end
        /\ AtFirst(end) \/ AtSecond(end)

(* Whoever is to be woken is still suspended.                              *)
DueInv ==
    /\ \A t \in due : Added(t) /\ \E j \in SleepingInfos : info[j].t = t
    /\ ~m_Enabled => due = {}

WakeInv == MutexInv /\ Habits /\ DueInv /\ WalkInv

-----------------------------------------------------------------------------
LEMMA InitWakeInv == MutexInit => WakeInv
<1> SUFFICES ASSUME MutexInit PROVE WakeInv
  OBVIOUS
<1> USE ThreadsDistinct, BoundsAssumption
<1>1. MutexInv
  BY InitMutexInv
<1>2. IdsOwn
  BY DEF MutexInit, Init, IdsOwn, Added, Running, Halted, Threads
<1>3. SleepingInfos = {} /\ Live(m_SuspendedThreads) = {}
  BY DEF MutexInit, Init, SleepingInfos, Elements, EmptyVector, Live
<1>4. NobodySleeps
  BY DEF MutexInit, Init, NobodySleeps, Sleeps, NoTick
<1>5. \A i \in Slots : m_Threads.mem[i] \in Threads => Added(m_Threads.mem[i])
  <2>1. \A i \in Slots : m_Threads.mem[i] \in {Idle, LateInit, NoThread}
    BY DEF MutexInit, Init, PushBack, EmptyVector, Slots
  <2>2. Added(Idle) /\ Added(LateInit)
    BY DEF MutexInit, Init, Added, Threads
  <2> QED
    BY <2>1, <2>2
<1>6. AddedInv
  BY <1>3, <1>5 DEF MutexInit, Init, AddedInv, CallAdded, Running, Halted
<1>7. due = {}
  BY DEF MutexInit
<1> QED
  BY <1>1, <1>2, <1>4, <1>6, <1>7 DEF WakeInv, Habits, DueInv, WalkInv

-----------------------------------------------------------------------------
(* The suspended entries.                                                  *)
LEMMA SuspendedParts ==
    ASSUME IInv
    PROVE  /\ m_SuspendedThreads \in VectorOf(Infos, Cap) /\ Cap \in Nat
           /\ m_SuspendedThreads.len \in Nat /\ m_SuspendedThreads.len <= Cap
           /\ SleepingInfos \subseteq Infos
           /\ \A p \in Live(m_SuspendedThreads) : m_SuspendedThreads.mem[p] \in SleepingInfos
           /\ \A j \in SleepingInfos : info[j].t \in Threads
<1>1. m_SuspendedThreads \in VectorOf(Infos, Cap) /\ Cap \in Nat
  BY BoundsAssumption DEF IInv, Types
<1>2. \A j \in SleepingInfos : info[j].t \in Threads
  BY DEF IInv, SuspendedInv, Removable
<1> QED
  BY <1>1, <1>2, VectorParts DEF SleepingInfos

LEMMA SuspendPushEntries ==
    ASSUME IInv, SuspendPush
    PROVE  \E j \in Infos \ SleepingInfos :
              /\ SleepingInfos' = SleepingInfos \cup {j}
              /\ info'[j].t = cpu.t
              /\ \A k \in SleepingInfos : info'[k] = info[k]
<1> DEFINE j == First(Infos \ SleepingInfos)
<1>1. m_SuspendedThreads.len < Cap
  BY SuspendedParts DEF SuspendPush, Room, IInv, Types, VectorOf
<1>2. j \in Infos \ SleepingInfos
  <2>1. IsFiniteSet(Infos) /\ Cardinality(Infos) = Cap
    BY SuspendedParts, CountFromZero DEF Infos
  <2>2. Infos \ SleepingInfos # {}
    BY <1>1, <2>1, SuspendedParts, SomethingIsLeft DEF SleepingInfos
  <2>3. Infos \ SleepingInfos \in SUBSET (0 .. Cap - 1)
    BY DEF Infos
  <2> QED
    BY <2>2, <2>3, SuspendedParts, FirstIsFirst
<1>3. PICK ticks : /\ info' = [info EXCEPT ![j] = [t |-> cpu.t, left |-> ticks]]
                   /\ m_SuspendedThreads' = PushBack(m_SuspendedThreads, j)
  BY DEF SuspendPush
<1> HIDE DEF j
<1>4. SleepingInfos' = SleepingInfos \cup {j}
  BY <1>1, <1>2, <1>3, SuspendedParts, PushBackElements DEF SleepingInfos
<1>5. info'[j].t = cpu.t /\ \A k \in SleepingInfos : info'[k] = info[k]
  BY <1>2, <1>3, SuspendedParts DEF IInv, Types
<1> QED
  BY <1>2, <1>4, <1>5

(* The walk of a tick finds nobody to wake.                                *)
LEMMA NobodyDue ==
    ASSUME IInv, NobodySleeps, Scanning
    PROVE  ~Due
<1>1. isr.i \in Nat /\ isr.end \in Nat
  BY BoundsAssumption DEF IInv, Types
<1>2. isr.i \in Live(m_SuspendedThreads)
  BY <1>1, SuspendedParts DEF NobodySleeps, Scanning, Live
<1>3. info[ScannedInfo].t \in Threads
  BY <1>2, SuspendedParts DEF ScannedInfo
<1> QED
  BY <1>3 DEF NobodySleeps, Due

(* No step of the scheduler itself takes an entry away.                    *)
LEMMA NextEntriesStay ==
    ASSUME IInv, NobodySleeps, Next
    PROVE  \A j \in SleepingInfos : j \in SleepingInfos' /\ info'[j].t = info[j].t
<1>1. CASE SuspendPush
  BY <1>1, SuspendPushEntries
<1>2. CASE ScanStay
  <2>1. SleepingInfos' = SleepingInfos
    BY <1>2 DEF ScanStay, SleepingInfos
  <2>2. \A j \in Infos : info'[j].t = info[j].t
    BY <1>2 DEF ScanStay, IInv, Types
  <2> QED
    BY <2>1, <2>2, SuspendedParts
<1>3. CASE KeepRunning \/ Switch \/ AtThrows
  <2>1. EndTick /\ UNCHANGED m_Threads
    BY <1>3 DEF KeepRunning, Switch, AtThrows, queueVars
  <2> QED
    BY <2>1, EndTickKeeps
<1>4. ~ScanWake
  BY NobodyDue DEF ScanWake
<1>5. CASE AddThread \/ AddThreadPush \/ SetEnabled \/ Sleep \/ SuspendErase \/ YieldThreadTime
             \/ ThreadFinish \/ ThreadFinishErase \/ ThreadFinishYield \/ LateInitStop \/ Tick
  <2>1. UNCHANGED <<m_SuspendedThreads, info>>
    BY <1>5, Zenon DEF AddThread, AddThreadPush, SetEnabled, Sleep, SuspendErase, YieldThreadTime,
                ThreadFinish, ThreadFinishErase, ThreadFinishYield, LateInitStop, Tick, sleepVars
  <2> QED
    BY <2>1 DEF SleepingInfos
<1> QED
  BY <1>1, <1>2, <1>3, <1>4, <1>5 DEF Next, ThreadStep, HandlerStep

(* A context in the middle of a walk does not come from nowhere.           *)
LEMMA NextWalksStay ==
    ASSUME IInv, Next
    PROVE  \A c \in AllContexts' : Walks(c) => c \in AllContexts
<1>1. cpu \in Contexts /\ saved \in [Threads -> Contexts] /\ CurrentThread \in Threads
  BY IInvImpliesTypeOK DEF TypeOK
<1>2. CASE Switch
  <2>1. saved' = [saved EXCEPT ![CurrentThread] = cpu] /\ cpu' = saved'[NextThread]
    BY <1>2 DEF Switch
  <2>2. \A t \in Threads : saved'[t] \in AllContexts
    BY <1>1, <2>1 DEF AllContexts
  <2>3. cpu' \in AllContexts
    <3>1. NextThread \in Threads
      BY <1>2, SwitchTarget
    <3> QED
      BY <2>1, <2>2, <3>1
  <2> QED
    BY <2>2, <2>3 DEF AllContexts
<1>3. CASE AtThrows
  <2>1. saved' = [saved EXCEPT ![CurrentThread] = cpu] /\ cpu' = cpu
    BY <1>3 DEF AtThrows
  <2> QED
    BY <1>1, <2>1 DEF AllContexts
<1>4. CASE ThreadStep
  <2>1. saved' = saved
    BY <1>4, Zenon DEF ThreadStep, AddThread, AddThreadPush, SetEnabled, Sleep, SuspendErase,
                SuspendPush, YieldThreadTime, ThreadFinish, ThreadFinishErase, ThreadFinishYield,
                LateInitStop, threadVars
  <2>2. cpu' = cpu \/ ~Walks(cpu')
    <3>0. CASE AddThread
      <4>1. PICK t \in Unborn : cpu' = [cpu EXCEPT !.pc = "add", !.t = t, !.n = m_ThreadCount]
        BY <3>0, Zenon DEF AddThread
      <4> QED
        BY <1>1, <4>1 DEF Contexts, Walks
    <3>1. CASE Sleep \/ SuspendErase \/ SuspendPush \/ ThreadFinish \/ ThreadFinishErase
      BY <1>1, <3>1 DEF Sleep, SuspendErase, SuspendPush, ThreadFinish, ThreadFinishErase,
                        Contexts, Walks
    <3>2. CASE AddThreadPush \/ SetEnabled \/ YieldThreadTime \/ ThreadFinishYield \/ LateInitStop
      BY <3>2 DEF AddThreadPush, SetEnabled, YieldThreadTime, ThreadFinishYield, LateInitStop,
                  Running, Halted, Walks
    <3> QED
      BY <1>4, <3>0, <3>1, <3>2 DEF ThreadStep
  <2> QED
    BY <2>1, <2>2 DEF AllContexts
<1>5. CASE Tick \/ ScanStay \/ ScanWake \/ KeepRunning
  BY <1>5 DEF Tick, ScanStay, ScanWake, KeepRunning, threadVars, AllContexts
<1> QED
  BY <1>2, <1>3, <1>4, <1>5 DEF Next, HandlerStep

-----------------------------------------------------------------------------
(* The scheduler's own steps.                                              *)

(* Erasing and pushing put nobody in a slot who was not there, or pushed.  *)
LEMMA EraseFrom ==
    ASSUME IInv, NEW t, m_Threads' = Erase(m_Threads, t)
    PROVE  \A i \in Slots : \E k \in Slots : m_Threads'.mem[i] = m_Threads.mem[k]
<1>1. m_Threads \in VectorOf(Threads \cup {NoThread}, Cap) /\ Cap \in Nat
  BY BoundsAssumption DEF IInv, Types
<1>2. /\ m_Threads' \in VectorOf(Threads \cup {NoThread}, Cap)
      /\ \A i \in Live(m_Threads') : \E k \in Kept(m_Threads, t) : m_Threads'.mem[i] = m_Threads.mem[k]
      /\ \A i \in Slots : i >= m_Threads'.len => m_Threads'.mem[i] = m_Threads.mem[i]
  BY <1>1, EraseSpec DEF Slots
<1>3. m_Threads'.len \in Nat /\ Kept(m_Threads, t) \subseteq Slots
  BY <1>1, <1>2 DEF VectorOf, Kept, Live, Slots
<1>4. \A i \in Slots : i \in Live(m_Threads') \/ i >= m_Threads'.len
  BY <1>3 DEF Slots, Live
<1> QED
  BY <1>2, <1>3, <1>4

LEMMA ThreadStepHabits ==
    ASSUME IInv, Habits, ThreadStep,
           BootSleeps = FALSE, "sleep" \notin Calls, "add" \notin Calls
    PROVE  Habits'
<1> USE ThreadsDistinct, BoundsAssumption
<1>before. /\ Types /\ BootInv /\ ContextInv /\ IdsOwn /\ NobodySleeps /\ AddedInv
           /\ cpu \in Contexts /\ m_Id \in [Threads -> Nat] /\ m_ThreadCount \in Nat
           /\ Workers \subseteq Threads /\ isr.pc = "none"
  <2>1. isr.pc = "none"
    BY Zenon DEF ThreadStep, AddThread, AddThreadPush, SetEnabled, Sleep, SuspendErase, SuspendPush,
           YieldThreadTime, ThreadFinish, ThreadFinishErase, ThreadFinishYield, LateInitStop,
           MayCall, At
  <2> QED
    BY <2>1 DEF IInv, Types, Habits, Threads
<1>1. CASE AddThread
  <2>1. PICK t \in Unborn : cpu' = [cpu EXCEPT !.pc = "add", !.t = t, !.n = m_ThreadCount]
    BY <1>1, Zenon DEF AddThread
  <2>2. cpu'.pc = "add" /\ cpu'.n = m_ThreadCount
    BY <1>before, <2>1 DEF Contexts
  <2>3. UNCHANGED <<m_Enabled, m_Threads, m_ThreadCount, m_Id, m_SuspendReason, saved,
                    m_SuspendedThreads, info, isr>>
    BY <1>1 DEF AddThread, queueVars, threadVars, sleepVars
  <2>4. ~m_Enabled
    <3>1. cpu.pc = "run" /\ cpu.of = Boot
      BY <1>1 DEF AddThread, MayCall, At
    <3> QED
      BY <1>before, <3>1 DEF BootInv
  <2>5. IdsOwn'
    BY <1>before, <2>2, <2>3, <2>4 DEF IdsOwn, Added
  <2>6. NobodySleeps' /\ AddedInv'
    BY <1>before, <2>2, <2>3 DEF NobodySleeps, Sleeps, AddedInv, CallAdded, Added, SleepingInfos
  <2> QED
    BY <2>5, <2>6 DEF Habits
<1>2. CASE AddThreadPush
  <2>1. /\ cpu.t \in Threads /\ cpu.n = m_ThreadCount /\ cpu'.pc = "run"
        /\ m_ThreadCount' = cpu.n + 1 /\ m_Id' = [m_Id EXCEPT ![cpu.t] = cpu.n + 1]
        /\ m_Threads' = PushBack(m_Threads, cpu.t) /\ m_Threads.len < Cap
        /\ UNCHANGED <<m_Enabled, m_SuspendReason, saved, m_SuspendedThreads, info, isr>>
    <3>1. m_Threads.len < Cap
      BY <1>before, <1>2 DEF AddThreadPush, Room, Types, VectorOf
    <3> QED
      BY <1>before, <1>2, <3>1 DEF AddThreadPush, At, ContextInv, CallOk, IdsOwn, Running, sleepVars
  <2>2. /\ m_Id' \in [Threads -> Nat] /\ m_Id'[cpu.t] = m_ThreadCount + 1
        /\ \A u \in Threads : u # cpu.t => m_Id'[u] = m_Id[u]
    BY <1>before, <2>1
  <2>3. \A u \in Threads : Added(u) => Added(u)'
    BY <1>before, <2>1, <2>2 DEF Added
  <2>4. IdsOwn'
    <3>1. \A u \in Threads : m_Id'[u] <= m_ThreadCount'
      BY <1>before, <2>1, <2>2 DEF IdsOwn
    <3>2. ASSUME NEW u \in Threads, NEW x \in Threads, m_Id'[u] # 0, m_Id'[u] = m_Id'[x]
          PROVE  u = x
      BY <1>before, <2>1, <2>2, <3>2 DEF IdsOwn, Added
    <3> QED
      BY <1>before, <2>1, <3>1, <3>2 DEF IdsOwn, Added
  <2>5. NobodySleeps'
    BY <1>before, <2>1 DEF NobodySleeps, Sleeps
  <2>6. ASSUME NEW i \in Slots, m_Threads'.mem[i] \in Threads PROVE m_Id'[m_Threads'.mem[i]] # 0
    <3>1. m_Threads'.mem[i] = m_Threads.mem[i] \/ m_Threads'.mem[i] = cpu.t
      BY <1>before, <2>1, PushBackSpec DEF Types, Slots
    <3>2. m_Id'[cpu.t] # 0
      BY <1>before, <2>1, <2>2
    <3> QED
      BY <1>before, <2>3, <2>6, <3>1, <3>2 DEF AddedInv, Added
  <2>7. AddedInv'
    <3>1. \A j \in SleepingInfos : info[j].t \in Threads
      BY SuspendedParts
    <3>2. SleepingInfos' = SleepingInfos
      BY <2>1 DEF SleepingInfos
    <3>3. \A u \in Threads : saved[u].pc \in {"erase", "suspend"} => saved[u].t \in Threads
      BY <1>before DEF ContextInv, CallOk, Removable
    <3> QED
      BY <1>before, <2>1, <2>3, <2>6, <3>1, <3>2, <3>3 DEF AddedInv, CallAdded, Added
  <2> QED
    BY <2>4, <2>5, <2>7 DEF Habits
<1>3. CASE Sleep
  BY <1>3 DEF Sleep, MayCall
<1>4. CASE SuspendErase \/ ThreadFinishErase
  <2>1. /\ m_Threads' = Erase(m_Threads, cpu.t) /\ cpu'.pc \in {"suspend", "leave"}
        /\ cpu'.pc = "suspend" => cpu.pc = "erase" /\ cpu'.t = cpu.t
        /\ UNCHANGED <<m_Enabled, m_ThreadCount, m_Id, m_SuspendReason, saved,
                       m_SuspendedThreads, info, isr>>
    BY <1>before, <1>4 DEF SuspendErase, ThreadFinishErase, At, Contexts, threadVars, sleepVars
  <2>2. \A i \in Slots : m_Threads'.mem[i] \in Threads => Added(m_Threads'.mem[i])
    BY <1>before, <2>1, EraseFrom DEF AddedInv
  <2>3. IdsOwn' /\ NobodySleeps'
    BY <1>before, <2>1 DEF IdsOwn, NobodySleeps, Sleeps, Added
  <2>4. AddedInv'
    BY <1>before, <2>1, <2>2 DEF AddedInv, CallAdded, Added, SleepingInfos
  <2> QED
    BY <2>3, <2>4 DEF Habits
<1>5. CASE SuspendPush
  <2>1. /\ cpu'.pc = "yield" /\ cpu.pc = "suspend"
        /\ UNCHANGED <<m_Enabled, m_Threads, m_ThreadCount, m_Id, m_SuspendReason, saved, isr>>
    BY <1>before, <1>5 DEF SuspendPush, At, Contexts, queueVars, threadVars
  <2>2. IdsOwn' /\ NobodySleeps'
    BY <1>before, <2>1 DEF IdsOwn, NobodySleeps, Sleeps, Added
  <2>3. \A j \in SleepingInfos' : Added(info'[j].t)
    BY <1>before, <1>5, <2>1, SuspendPushEntries DEF AddedInv, CallAdded
  <2>4. AddedInv'
    BY <1>before, <2>1, <2>3 DEF AddedInv, CallAdded, Added
  <2> QED
    BY <2>2, <2>4 DEF Habits
<1>6. CASE SetEnabled \/ YieldThreadTime \/ ThreadFinish \/ ThreadFinishYield \/ LateInitStop
  <2>1. UNCHANGED <<m_Threads, m_ThreadCount, m_Id, m_SuspendReason, saved,
                    m_SuspendedThreads, info, isr>>
    BY <1>6 DEF SetEnabled, YieldThreadTime, ThreadFinish, ThreadFinishYield, LateInitStop,
                queueVars, threadVars, sleepVars
  <2>2. \/ cpu' = cpu /\ m_Enabled' = m_Enabled
        \/ cpu'.pc \notin {"add", "erase", "suspend"}
    <3>1. CASE ThreadFinish
      BY <1>before, <3>1 DEF ThreadFinish, Contexts
    <3>2. CASE SetEnabled \/ YieldThreadTime \/ ThreadFinishYield \/ LateInitStop
      BY <3>2 DEF SetEnabled, YieldThreadTime, ThreadFinishYield, LateInitStop, Running, Halted
    <3> QED
      BY <1>6, <3>1, <3>2
  <2>3. IdsOwn' /\ NobodySleeps'
    BY <1>before, <2>1, <2>2 DEF IdsOwn, NobodySleeps, Sleeps, Added
  <2>4. AddedInv'
    BY <1>before, <2>1, <2>2 DEF AddedInv, CallAdded, Added, SleepingInfos
  <2> QED
    BY <2>3, <2>4 DEF Habits
<1> QED
  BY <1>1, <1>2, <1>3, <1>4, <1>5, <1>6 DEF ThreadStep

LEMMA HandlerStepHabits ==
    ASSUME IInv, Habits, Tick \/ HandlerStep, BootSleeps = FALSE
    PROVE  Habits'
<1>before. /\ BootInv /\ IdsOwn /\ NobodySleeps /\ AddedInv /\ CurrentThread \in Threads
           /\ saved \in [Threads -> Contexts]
           /\ \A j \in SleepingInfos : j \in SleepingInfos' /\ info'[j].t = info[j].t
  BY IInvImpliesTypeOK, NextEntriesStay DEF IInv, Habits, TypeOK, Next
<1>1. ~ScanWake /\ UNCHANGED <<m_Enabled, m_Threads, m_ThreadCount, m_Id, m_SuspendReason>>
  <2>1. ~ScanWake
    BY <1>before, NobodyDue DEF ScanWake
  <2> QED
    BY <2>1 DEF HandlerStep, Tick, ScanStay, KeepRunning, Switch, AtThrows, queueVars, threadVars
<1>2. SleepingInfos' = SleepingInfos
  <2>1. CASE Tick \/ ScanStay
    BY <2>1 DEF Tick, ScanStay, sleepVars, SleepingInfos
  <2>2. CASE KeepRunning \/ Switch \/ AtThrows
    <3>1. EndTick /\ UNCHANGED m_Threads
      BY <2>2 DEF KeepRunning, Switch, AtThrows, queueVars
    <3> QED
      BY <3>1, EndTickKeeps
  <2> QED
    BY <1>1, <2>1, <2>2 DEF HandlerStep
<1>3. NobodySleeps'
  <2>1. CASE Tick
    BY <1>before, <1>1, <2>1, SuspendedParts DEF Tick, NobodySleeps, Sleeps, sleepVars
  <2>2. CASE ScanStay
    <3>1. isr'.end = isr.end /\ isr.pc = "scan"
      BY <2>2 DEF ScanStay, Scanning, IInv, Types
    <3> QED
      BY <1>before, <1>1, <2>2, <3>1 DEF ScanStay, NobodySleeps, Sleeps
  <2>3. CASE KeepRunning \/ Switch \/ AtThrows
    <3>1. isr' = NoTick
      BY <2>3 DEF KeepRunning, Switch, AtThrows, EndTick
    <3> QED
      BY <1>before, <1>1, <3>1 DEF NobodySleeps, Sleeps, NoTick
  <2> QED
    BY <1>1, <2>1, <2>2, <2>3 DEF HandlerStep
<1>4. /\ cpu' = cpu \/ (m_Enabled /\ \E t \in Threads : cpu' = saved[t] \/ cpu' = cpu)
      /\ \A t \in Threads : saved'[t] = saved[t] \/ (m_Enabled /\ saved'[t] = cpu)
  <2>1. CASE Tick \/ ScanStay \/ KeepRunning
    BY <2>1 DEF Tick, ScanStay, KeepRunning, threadVars
  <2>2. CASE Switch \/ AtThrows
    <3>1. m_Enabled
      BY <1>before, <2>2 DEF Switch, AtThrows, SwitchDue, Scanned, BootInv
    <3>2. saved' = [saved EXCEPT ![CurrentThread] = cpu]
      BY <2>2 DEF Switch, AtThrows
    <3>3. CASE Switch
      <4>1. NextThread \in Threads
        BY <3>3, SwitchTarget
      <4>2. cpu' = saved'[NextThread]
        BY <3>3 DEF Switch
      <4> QED
        BY <1>before, <3>1, <3>2, <4>1, <4>2
    <3>4. CASE AtThrows
      BY <1>before, <3>1, <3>2, <3>4 DEF AtThrows
    <3> QED
      BY <2>2, <3>3, <3>4
  <2> QED
    BY <1>1, <2>1, <2>2 DEF HandlerStep
<1>5. IdsOwn'
  BY <1>before, <1>1, <1>4 DEF IdsOwn, Added
<1>6. AddedInv'
  <2>1. CallAdded(cpu)' /\ \A t \in Threads : CallAdded(saved[t])'
    BY <1>before, <1>1, <1>4 DEF AddedInv, CallAdded, Added
  <2> QED
    BY <1>before, <1>1, <1>2, <2>1 DEF AddedInv, Added
<1> QED
  BY <1>3, <1>5, <1>6 DEF Habits

(* AllContexts' only has walks AllContexts had, so the scheduler leaves    *)
(* the walk and its list alone.                                            *)
LEMMA NextWake ==
    ASSUME WakeInv, Next, UNCHANGED mutexVars
    PROVE  DueInv' /\ WalkInv'
<1>before. IInv /\ Habits /\ NobodySleeps /\ DueInv /\ WalkInv /\ BootInv
  BY DEF WakeInv, MutexInv, IInv, Habits
<1>1. UNCHANGED <<m_Flag, m_Waiters, due>>
  BY DEF mutexVars
<1>2. due # {} => m_Id' = m_Id
  <2>1. CASE AddThreadPush
    BY <1>before, <2>1 DEF AddThreadPush, At, DueInv, Habits, IdsOwn
  <2>2. CASE ~AddThreadPush
    BY <2>2, Zenon DEF Next, ThreadStep, HandlerStep, AddThread, SetEnabled, Sleep, SuspendErase,
         SuspendPush, YieldThreadTime, ThreadFinish, ThreadFinishErase, ThreadFinishYield,
         LateInitStop, Tick, ScanStay, ScanWake, KeepRunning, Switch, AtThrows, threadVars
  <2> QED
    BY <2>1, <2>2
<1>3. m_Enabled => m_Enabled'
  BY Zenon DEF Next, ThreadStep, HandlerStep, AddThread, AddThreadPush, SetEnabled, Sleep,
       SuspendErase, SuspendPush, YieldThreadTime, ThreadFinish, ThreadFinishErase,
       ThreadFinishYield, LateInitStop, Tick, ScanStay, ScanWake, KeepRunning, Switch, AtThrows
<1>4. DueInv'
  <2>1. ASSUME NEW t \in due PROVE m_Id'[t] # 0 /\ \E j \in SleepingInfos' : info'[j].t = t
    <3>1. Added(t) /\ \E j \in SleepingInfos : info[j].t = t
      BY <1>before DEF DueInv
    <3> QED
      BY <1>before, <1>2, <3>1, NextEntriesStay DEF Added
  <2> QED
    BY <1>before, <1>1, <1>3, <2>1 DEF DueInv, Added
<1>5. ASSUME due # {} PROVE WalkInv'
  <2>1. PICK end \in {1, 2} : /\ \A c \in AllContexts : Walks(c) => c.end = end
                              /\ AtFirst(end) \/ AtSecond(end)
    BY <1>before, <1>5 DEF WalkInv
  <2>2. \A c \in AllContexts' : Walks(c) => c \in AllContexts
    BY <1>before, NextWalksStay
  <2>3. \A c : c.pc = "delist" => Walks(c)
    BY DEF Walks
  <2>4. AtFirst(end) => AtFirst(end)'
    BY <1>1, <1>2, <1>5, <2>2, <2>3 DEF AtFirst
  <2>5. AtSecond(end) => AtSecond(end)'
    BY <1>1, <1>2, <1>5, <2>2, <2>3 DEF AtSecond
  <2> QED
    BY <2>1, <2>2, <2>4, <2>5 DEF WalkInv
<1> QED
  BY <1>1, <1>4, <1>5 DEF WalkInv

-----------------------------------------------------------------------------
(* RemoveSuspendedThread takes one entry of the thread with that id away,  *)
(* if there is one, and puts the thread in the queue.                      *)
LEMMA RemoveSuspendedWakes ==
    ASSUME IInv, Habits, NEW id, RemoveSuspendedThread(id)
    PROVE  /\ SleepingInfos' \subseteq SleepingInfos
           /\ \A i \in Slots : m_Threads'.mem[i] \in Threads => Added(m_Threads'.mem[i])
           /\ \A j \in SleepingInfos :
                 IF m_Id[info[j].t] = id THEN info[j].t \in Elements(m_Threads')
                                         ELSE j \in SleepingInfos'
<1>before. AddedInv /\ \A i \in Slots : m_Threads.mem[i] \in Threads => Added(m_Threads.mem[i])
  BY DEF Habits, AddedInv
<1>1. CASE EntriesOf(id) = {}
  <2>1. \A j \in SleepingInfos : m_Id[info[j].t] # id
    BY <1>1 DEF EntriesOf, SleepingInfos, Elements
  <2>2. UNCHANGED <<m_Threads, m_SuspendedThreads>>
    BY <1>1 DEF RemoveSuspendedThread
  <2> QED
    BY <1>before, <2>1, <2>2 DEF SleepingInfos
<1>2. CASE EntriesOf(id) # {}
  <2> DEFINE p == First(EntriesOf(id))
             k == m_SuspendedThreads.mem[p]
             t == info[k].t
  <2>1. p \in EntriesOf(id)
    <3>1. EntriesOf(id) \in SUBSET (0 .. m_SuspendedThreads.len - 1)
      BY DEF EntriesOf, Live
    <3> QED
      BY <1>2, <3>1, SuspendedParts, FirstIsFirst, Zenon
  <2>2. /\ m_SuspendedThreads' = Erase(m_SuspendedThreads, k)
        /\ m_Threads' = PushBack(m_Threads, t)
    BY <1>2 DEF RemoveSuspendedThread
  <2>3. p \in Live(m_SuspendedThreads) /\ m_Id[t] = id
    BY <2>1, Zenon DEF EntriesOf
  <2> HIDE DEF p
  <2>4. k \in SleepingInfos /\ t \in Threads /\ Added(t)
    BY <1>before, <2>3, SuspendedParts DEF AddedInv
  <2> HIDE DEF k, t
  <2>5. SleepingInfos' = SleepingInfos \ {k}
    BY <2>2, SuspendedParts, EraseElements DEF SleepingInfos
  <2>6. /\ m_Threads \in VectorOf(Threads \cup {NoThread}, Cap) /\ Cap \in Nat
        /\ m_Threads.len < Cap
    <3>1. m_SuspendedThreads.len >= 1
      BY <2>3, SuspendedParts DEF Live
    <3> QED
      BY <3>1, SuspendedParts DEF IInv, Types, SuspendedInv, VectorOf
  <2>7. Elements(m_Threads') = Elements(m_Threads) \cup {t}
    BY <2>2, <2>4, <2>6, PushBackElements
  <2>8. \A i \in Slots : m_Threads'.mem[i] \in Threads => Added(m_Threads'.mem[i])
    <3>1. \A i \in Slots : m_Threads'.mem[i] = m_Threads.mem[i] \/ m_Threads'.mem[i] = t
      BY <2>2, <2>4, <2>6, PushBackSpec DEF Slots
    <3> QED
      BY <1>before, <2>4, <3>1
  <2>9. ASSUME NEW j \in SleepingInfos, m_Id[info[j].t] = id PROVE info[j].t = t
    BY <2>3, <2>4, <2>9, SuspendedParts DEF Habits, IdsOwn
  <2>10. ASSUME NEW j \in SleepingInfos, m_Id[info[j].t] # id PROVE j # k
    BY <2>3, <2>10 DEF t
  <2> QED
    BY <2>5, <2>7, <2>8, <2>9, <2>10
<1> QED
  BY <1>1, <1>2

LEMMA MutexStepHabits ==
    ASSUME MutexInv, Habits, MutexStep
    PROVE  Habits'
<1>before. /\ IdsOwn /\ NobodySleeps /\ AddedInv /\ cpu \in Contexts /\ IInv
           /\ m_SuspendReason \in [Threads -> {"NotSuspended", "Sleeping", "Waiting"}]
  BY DEF Habits, MutexInv, IInv, Types
<1>1. CASE LockMark
  <2> DEFINE t == m_Threads.mem[cpu.n]
  <2>1. t \in Threads /\ Added(t)
    BY <1>before, <1>1 DEF LockMark, At, MutexInv, LocalsInv, LocalsOk, AddedInv
  <2>2. /\ m_SuspendReason' = [m_SuspendReason EXCEPT ![t] = "Waiting"]
        /\ cpu' = [cpu EXCEPT !.pc = "erase", !.t = t, !.n = 0]
        /\ UNCHANGED <<m_Enabled, m_Threads, m_ThreadCount, m_Id, saved,
                       m_SuspendedThreads, info, isr>>
    BY <1>1 DEF LockMark, queueVars, sleepVars
  <2> HIDE DEF t
  <2>3. cpu'.pc = "erase" /\ cpu'.t = t
    BY <1>before, <2>2 DEF Contexts
  <2>4. IdsOwn' /\ NobodySleeps'
    BY <1>before, <2>1, <2>2, <2>3 DEF IdsOwn, NobodySleeps, Sleeps, Added
  <2>5. AddedInv'
    BY <1>before, <2>1, <2>2, <2>3 DEF AddedInv, CallAdded, Added, SleepingInfos
  <2> QED
    BY <2>4, <2>5 DEF Habits
<1>2. CASE ReleaseWake
  <2>1. /\ cpu'.pc = "delist" /\ RemoveSuspendedThread(m_Waiters.mem[cpu.n])
        /\ UNCHANGED <<m_Enabled, m_ThreadCount, m_Id, m_SuspendReason, saved, info, isr>>
        /\ isr.pc = "none"
    BY <1>before, <1>2 DEF ReleaseWake, At, Contexts, threadVars
  <2>2. IdsOwn' /\ NobodySleeps'
    BY <1>before, <2>1 DEF IdsOwn, NobodySleeps, Sleeps, Added
  <2>3. AddedInv'
    BY <1>before, <2>1, RemoveSuspendedWakes DEF AddedInv, CallAdded, Added
  <2> QED
    BY <2>2, <2>3 DEF Habits
<1>3. CASE Lock \/ LockTake \/ LockEnlist \/ Release \/ ReleaseOpen \/ ReleaseDelist
  <2>1. UNCHANGED <<m_Enabled, m_Threads, m_ThreadCount, m_Id, m_SuspendReason, saved,
                    m_SuspendedThreads, info, isr>>
    BY <1>3 DEF Lock, LockTake, LockEnlist, Release, ReleaseOpen, ReleaseDelist,
                queueVars, threadVars, sleepVars
  <2>2. cpu'.pc \notin {"add", "erase", "suspend"}
    <3>1. CASE Lock \/ Release \/ LockTake
      BY <1>before, <3>1 DEF Lock, Release, LockTake, Running, Contexts
    <3>2. CASE LockEnlist
      BY <1>before, <3>2 DEF LockEnlist, Contexts
    <3>3. CASE ReleaseOpen
      BY <1>before, <3>3 DEF ReleaseOpen, Running, Contexts
    <3>4. CASE ReleaseDelist
      BY <1>before, <3>4 DEF ReleaseDelist, Running, Contexts
    <3> QED
      BY <1>3, <3>1, <3>2, <3>3, <3>4
  <2>3. IdsOwn' /\ NobodySleeps'
    BY <1>before, <2>1, <2>2 DEF IdsOwn, NobodySleeps, Sleeps, Added
  <2>4. AddedInv'
    BY <1>before, <2>1, <2>2 DEF AddedInv, CallAdded, Added, SleepingInfos
  <2> QED
    BY <2>3, <2>4 DEF Habits
<1> QED
  BY <1>1, <1>2, <1>3 DEF MutexStep

-----------------------------------------------------------------------------
(* The mutex' own steps.                                                   *)
LEMMA DueStays ==
    ASSUME DueInv, UNCHANGED <<m_Id, due, m_SuspendedThreads, info>>, m_Enabled' = m_Enabled
    PROVE  DueInv'
BY DEF DueInv, Added, SleepingInfos

(* A step that enters no walk and leaves the list alone.                   *)
LEMMA CallStepWake ==
    ASSUME DueInv, WalkInv, ~Walks(cpu'),
           UNCHANGED <<m_Enabled, m_Id, saved, m_SuspendedThreads, info, m_Waiters, due>>
    PROVE  DueInv' /\ WalkInv'
<1>1. DueInv'
  BY DueStays
<1>2. ASSUME due # {} PROVE WalkInv'
  <2>1. PICK end \in {1, 2} : /\ \A c \in AllContexts : Walks(c) => c.end = end
                              /\ AtFirst(end) \/ AtSecond(end)
    BY <1>2 DEF WalkInv
  <2>2. \A c \in AllContexts' : Walks(c) => c \in AllContexts
    BY DEF AllContexts
  <2>3. \A c : c.pc = "delist" => Walks(c)
    BY DEF Walks
  <2>4. AtFirst(end) => AtFirst(end)'
    BY <2>2, <2>3 DEF AtFirst
  <2>5. AtSecond(end) => AtSecond(end)'
    BY <2>2, <2>3 DEF AtSecond
  <2> QED
    BY <2>1, <2>2, <2>4, <2>5 DEF WalkInv
<1> QED
  BY <1>1, <1>2 DEF WalkInv

(* Release begins its walk.  Unless it counts on nobody, it is alone.      *)
LEMMA OpenWakes ==
    ASSUME WakeInv, ReleaseOpen, BootSleeps = FALSE
    PROVE  DueInv' /\ WalkInv'
<1>before. /\ IInv /\ Habits /\ WaitersInv /\ AddedInv /\ cpu \in Contexts
           /\ m_Waiters \in VectorOf(Nat, Cap) /\ Cap \in Nat /\ m_Waiters.len \in Nat
           /\ m_Enabled
  <2>1. m_Enabled
    BY CallerIsElsewhere DEF WakeInv, MutexInv, ReleaseOpen, At
  <2>2. IInv /\ Habits /\ WaitersInv /\ AddedInv
    BY DEF WakeInv, MutexInv, Habits
  <2>3. cpu \in Contexts
    BY <2>2 DEF IInv, Types
  <2>4. Cap \in Nat
    BY BoundsAssumption
  <2>5. m_Waiters \in VectorOf(Nat, Cap)
    BY <2>2 DEF WaitersInv
  <2>6. m_Waiters.len \in Nat
    BY <2>4, <2>5 DEF VectorOf
  <2> QED
    BY <2>1, <2>2, <2>3, <2>4, <2>5, <2>6
<1>1. /\ due' = Expected
      /\ UNCHANGED <<m_Enabled, m_Id, saved, m_SuspendedThreads, info, m_Waiters>>
  BY DEF ReleaseOpen, threadVars, sleepVars
<1>2. DueInv'
  <2>1. ASSUME NEW t \in Expected PROVE Added(t) /\ \E j \in SleepingInfos : info[j].t = t
    BY <1>before DEF Expected, AddedInv
  <2> QED
    BY <1>before, <1>1, <2>1 DEF DueInv, Added, SleepingInfos
<1>3. ASSUME Expected # {} PROVE WalkInv'
  <2>0. PICK end : end = m_Waiters.len
    OBVIOUS
  <2>1. /\ end <= 2
        /\ \A t \in Threads : ~Walks(saved[t])
        /\ \A t \in Expected : m_Id[t] \in Elements(m_Waiters)
    BY <1>before, <1>3, <2>0 DEF Expected, Walks
  <2>2. end # 0
    <3>1. PICK t \in Expected : m_Id[t] \in Elements(m_Waiters)
      BY <1>3, <2>1
    <3> QED
      BY <1>before, <2>0, <3>1 DEF Elements, Live
  <2>3. end \in {1, 2}
    <3>1. end \in Nat
      BY <1>before, <2>0
    <3> QED
      BY <2>1, <2>2, <3>1
  <2>4. cpu'.pc = "wake" /\ cpu'.n = 0 /\ cpu'.end = end
    <3>1. cpu' = [cpu EXCEPT !.pc = "wake", !.n = 0, !.end = m_Waiters.len]
      BY <2>0, <2>2 DEF ReleaseOpen
    <3> QED
      BY <1>before, <2>0, <3>1 DEF Contexts
  <2>5. \A c \in AllContexts' : Walks(c) => c = cpu'
    BY <1>1, <2>1 DEF AllContexts
  <2>6. \A t \in Expected : m_Id[t] \in {m_Waiters.mem[0], m_Waiters.mem[end - 1]}
    <3>1. \A i \in Live(m_Waiters) : i = 0 \/ i = end - 1
      BY <2>0, <2>3 DEF Live
    <3> QED
      BY <2>1, <3>1 DEF Elements
  <2>7. \A c \in AllContexts' : c.pc = "delist" => Walks(c)
    BY DEF Walks
  <2>8. AtFirst(end)'
    BY <1>1, <2>0, <2>4, <2>5, <2>6, <2>7 DEF AtFirst, Walks
  <2> QED
    BY <2>3, <2>4, <2>5, <2>8 DEF WalkInv
<1> QED
  BY <1>1, <1>2, <1>3 DEF WalkInv

(* A turn of the walk wakes the thread whose id it reads.                  *)
LEMMA WakeWakes ==
    ASSUME WakeInv, ReleaseWake
    PROVE  DueInv' /\ WalkInv'
<1> DEFINE id == m_Waiters.mem[cpu.n]
<1>before. IInv /\ Habits /\ DueInv /\ WalkInv /\ due \subseteq Threads /\ cpu \in Contexts
  BY DEF WakeInv, MutexInv, IInv, Types, WaitersInv
<1>1. /\ RemoveSuspendedThread(id) /\ due' = due \ Elements(m_Threads')
      /\ UNCHANGED <<m_Enabled, m_Id, saved, info, m_Waiters>>
      /\ cpu.pc = "wake" /\ cpu'.pc = "delist" /\ cpu'.n = cpu.n /\ cpu'.end = cpu.end
  BY <1>before DEF ReleaseWake, At, Contexts, threadVars
<1>2. ASSUME NEW t \in due'
      PROVE  /\ t \in due /\ m_Id[t] # id /\ Added(t)
             /\ \E j \in SleepingInfos' : info'[j].t = t
  <2>1. t \in due /\ t \notin Elements(m_Threads')
    BY <1>1
  <2>2. PICK j \in SleepingInfos : info[j].t = t
    BY <1>before, <2>1 DEF DueInv
  <2>3. m_Id[t] # id /\ j \in SleepingInfos'
    BY <1>before, <1>1, <2>1, <2>2, RemoveSuspendedWakes
  <2> QED
    BY <1>before, <1>1, <2>1, <2>2, <2>3 DEF DueInv
<1>3. DueInv'
  BY <1>before, <1>1, <1>2 DEF DueInv, Added
<1>4. ASSUME due' # {} PROVE WalkInv'
  <2>1. due # {}
    BY <1>1, <1>4
  <2>2. PICK end \in {1, 2} : /\ \A c \in AllContexts : Walks(c) => c.end = end
                              /\ AtFirst(end) \/ AtSecond(end)
    BY <1>before, <2>1 DEF WalkInv
  <2>3. \A c \in AllContexts' : c = cpu' \/ c \in AllContexts
    BY <1>1 DEF AllContexts
  <2>4. cpu \in AllContexts /\ Walks(cpu)
    BY <1>1 DEF AllContexts, Walks
  <2>5. \A c \in AllContexts' : Walks(c) => c.end = end
    BY <1>1, <2>2, <2>3, <2>4
  <2>6. CASE AtFirst(end)
    <3>1. cpu.n = 0
      BY <2>4, <2>6 DEF AtFirst
    <3>2. \A t \in due' : m_Id[t] # m_Waiters.mem[0]
      BY <1>2, <3>1
    <3>3. AtFirst(end)'
      BY <1>1, <1>2, <2>3, <2>6, <3>1, <3>2 DEF AtFirst
    <3> QED
      BY <2>2, <2>5, <3>3 DEF WalkInv
  <2>7. CASE AtSecond(end)
    <3>1. cpu.n \in {0, 1}
      <4>1. cpu.n \in Nat /\ cpu.n < cpu.end
        BY <1>before, <1>1 DEF WakeInv, MutexInv, LocalsInv, LocalsOk, Contexts
      <4> QED
        BY <2>2, <2>4, <2>7, <4>1 DEF AtSecond
    <3>2. id = m_Waiters.mem[1]
      BY <2>7, <3>1 DEF AtSecond
    <3>3. \A t \in due' : m_Id[t] = id
      BY <1>1, <2>7, <3>2 DEF AtSecond
    <3> QED
      BY <1>2, <1>4, <3>3
  <2> QED
    BY <2>2, <2>6, <2>7
<1> QED
  BY <1>3, <1>4 DEF WalkInv

(* The last turn of the walk finds nobody left to wake; before it, the     *)
(* stale slot behind the shrunk list has the id that slipped to the front. *)
LEMMA DelistWakes ==
    ASSUME WakeInv, ReleaseDelist
    PROVE  DueInv' /\ WalkInv' /\ (cpu'.pc = "run" => due = {})
<1> DEFINE id == m_Waiters.mem[cpu.n]
<1>before. /\ DueInv /\ WalkInv /\ cpu \in Contexts /\ cpu.n \in Nat
           /\ m_Waiters \in VectorOf(Nat, Cap) /\ Cap \in Nat /\ 0 \in 0 .. Cap - 1
           /\ 1 \in 0 .. Cap - 1 /\ m_Waiters.len \in Nat
  BY BoundsAssumption DEF WakeInv, MutexInv, IInv, Types, WaitersInv, Contexts, VectorOf
<1>1. /\ UNCHANGED <<m_Enabled, m_Id, saved, m_SuspendedThreads, info, due>>
      /\ m_Waiters' = Erase(m_Waiters, id) /\ cpu.pc = "delist"
  BY DEF ReleaseDelist, At, threadVars, sleepVars
<1>2. DueInv'
  BY <1>before, <1>1, DueStays
<1>3. ASSUME due # {} PROVE WalkInv' /\ cpu'.pc # "run"
  <2>1. PICK end \in {1, 2} : /\ \A c \in AllContexts : Walks(c) => c.end = end
                              /\ AtFirst(end) \/ AtSecond(end)
    BY <1>before, <1>3 DEF WalkInv
  <2>2. cpu \in AllContexts /\ Walks(cpu) /\ \A c \in AllContexts' : c = cpu' \/ c \in AllContexts
    BY <1>1 DEF AllContexts, Walks
  <2>3. cpu.n = 0
    BY <1>1, <2>1, <2>2 DEF AtFirst, AtSecond
  <2>4. end = 2
    <3>1. CASE AtFirst(end)
      <4>1. \A t \in due : /\ m_Id[t] # m_Waiters.mem[0]
                           /\ m_Id[t] \in {m_Waiters.mem[0], m_Waiters.mem[end - 1]}
        BY <1>1, <2>2, <3>1 DEF AtFirst
      <4>2. end = 1 => m_Waiters.mem[end - 1] = m_Waiters.mem[0]
        OBVIOUS
      <4> QED
        BY <1>3, <2>1, <4>1, <4>2
    <3> QED
      BY <2>1, <3>1 DEF AtSecond
  <2>5. cpu'.pc = "wake" /\ cpu'.n = 1 /\ cpu'.end = 2
    <3>1. cpu.end = 2
      BY <2>1, <2>2, <2>4
    <3>2. cpu' = [cpu EXCEPT !.pc = "wake", !.n = cpu.n + 1]
      BY <2>3, <3>1 DEF ReleaseDelist
    <3> QED
      BY <1>before, <2>3, <3>1, <3>2 DEF Contexts
  <2>6. \A c \in AllContexts' : Walks(c) => c.end = 2
    BY <2>1, <2>2, <2>4, <2>5
  <2>7. /\ m_Waiters' \in VectorOf(Nat, Cap)
        /\ m_Waiters'.len <= m_Waiters.len
        /\ \A i \in 0 .. Cap - 1 : i >= m_Waiters'.len => m_Waiters'.mem[i] = m_Waiters.mem[i]
        /\ Elements(m_Waiters') = Elements(m_Waiters) \ {id}
        /\ (\E i \in Live(m_Waiters) : m_Waiters.mem[i] = id) => m_Waiters'.len < m_Waiters.len
    BY <1>before, <1>1, EraseSpec, EraseElements
  <2>8. m_Waiters'.len \in Nat
    BY <2>7 DEF VectorOf
  <2>9. \A c \in AllContexts' : c.pc = "delist" => c.n = 0
    <3>1. \A c \in AllContexts : c.pc = "delist" => c.n = 0
      BY <2>1 DEF AtFirst, AtSecond, Walks
    <3> QED
      BY <2>2, <2>5, <3>1
  <2>10. CASE AtFirst(end)
    <3>1. \A t \in due : m_Id[t] = m_Waiters.mem[1] /\ m_Id[t] # id
      BY <1>1, <2>2, <2>3, <2>4, <2>10 DEF AtFirst
    <3>2. m_Waiters.mem[1] # id /\ m_Waiters.len = 2
      BY <1>3, <2>4, <2>10, <3>1 DEF AtFirst
    <3>3. m_Waiters'.len < 2
      <4>1. 0 \in Live(m_Waiters)
        BY <3>2 DEF Live
      <4> QED
        BY <2>3, <2>7, <3>2, <4>1
    <3>4. m_Waiters.mem[1] \in Elements(m_Waiters')
      <4>1. 1 \in Live(m_Waiters)
        BY <3>2 DEF Live
      <4> QED
        BY <2>7, <3>2, <4>1 DEF Elements
    <3>5. m_Waiters'.len = 1 /\ m_Waiters'.mem[0] = m_Waiters.mem[1]
      <4>1. PICK i \in Live(m_Waiters') : m_Waiters'.mem[i] = m_Waiters.mem[1]
        BY <3>4 DEF Elements
      <4>2. i = 0 /\ m_Waiters'.len = 1
        BY <2>8, <3>3, <4>1 DEF Live
      <4> QED
        BY <4>1, <4>2
    <3>6. m_Waiters'.mem[1] = m_Waiters.mem[1]
      BY <1>before, <2>7, <3>5
    <3>7. AtSecond(2)'
      BY <1>1, <2>9, <3>1, <3>5, <3>6 DEF AtSecond
    <3> QED
      BY <2>5, <2>6, <3>7 DEF WalkInv
  <2>11. CASE AtSecond(end)
    <3>1. m_Waiters.len <= 1 /\ m_Waiters.mem[0] = id /\ m_Waiters.mem[1] = id
      BY <2>3, <2>11 DEF AtSecond
    <3>2. m_Waiters'.len = 0
      <4>1. CASE m_Waiters.len = 1
        <5>1. 0 \in Live(m_Waiters)
          BY <4>1 DEF Live
        <5> QED
          BY <2>7, <2>8, <3>1, <4>1, <5>1
      <4>2. CASE m_Waiters.len = 0
        BY <2>7, <2>8, <4>2
      <4> QED
        BY <1>before, <3>1, <4>1, <4>2
    <3>3. m_Waiters'.mem[0] = id /\ m_Waiters'.mem[1] = id
      BY <1>before, <2>7, <3>1, <3>2
    <3>4. \A t \in due : m_Id[t] = id
      BY <2>11, <3>1 DEF AtSecond
    <3>5. AtSecond(2)'
      BY <1>1, <2>9, <3>2, <3>3, <3>4 DEF AtSecond
    <3> QED
      BY <2>5, <2>6, <3>5 DEF WalkInv
  <2> QED
    BY <2>1, <2>10, <2>11
<1> QED
  BY <1>1, <1>2, <1>3 DEF WalkInv

LEMMA WakeInductive ==
    ASSUME WakeInv, [MutexNext]_allVars,
           BootSleeps = FALSE, "sleep" \notin Calls, "add" \notin Calls
    PROVE  WakeInv'
<1>before. MutexInv /\ IInv /\ Habits /\ DueInv /\ WalkInv /\ cpu \in Contexts
  BY DEF WakeInv, MutexInv, IInv, Types
<1>1. MutexInv'
  BY <1>before, MutexInductive
<1>2. CASE Next /\ UNCHANGED mutexVars
  <2>1. Habits'
    BY <1>before, <1>2, ThreadStepHabits, HandlerStepHabits DEF Next
  <2> QED
    BY <1>1, <1>2, <2>1, NextWake DEF WakeInv
<1>3. CASE MutexStep
  <2>1. Habits'
    BY <1>before, <1>3, MutexStepHabits
  <2>2. CASE Lock \/ LockTake \/ LockMark \/ Release
    <3>1. UNCHANGED <<m_Enabled, m_Id, saved, m_SuspendedThreads, info, m_Waiters, due>>
      BY <2>2 DEF Lock, LockTake, LockMark, Release, threadVars, sleepVars, mutexVars
    <3>2. ~Walks(cpu')
      <4>1. CASE Lock
        BY <1>before, <4>1 DEF Lock, Contexts, Walks
      <4>2. CASE LockTake
        BY <4>2 DEF LockTake, Running, Walks
      <4>3. CASE LockMark
        BY <1>before, <4>3 DEF LockMark, Contexts, Walks
      <4>4. CASE Release
        BY <1>before, <4>4 DEF Release, Contexts, Walks
      <4> QED
        BY <2>2, <4>1, <4>2, <4>3, <4>4
    <3> QED
      BY <1>1, <1>before, <2>1, <3>1, <3>2, CallStepWake DEF WakeInv
  <2>3. CASE LockEnlist
    <3>1. due' = {}
      BY <2>3 DEF LockEnlist
    <3> QED
      BY <1>1, <2>1, <3>1 DEF WakeInv, DueInv, WalkInv
  <2>4. CASE ReleaseOpen
    BY <1>1, <2>1, <2>4, OpenWakes DEF WakeInv
  <2>5. CASE ReleaseWake
    BY <1>1, <2>1, <2>5, WakeWakes DEF WakeInv
  <2>6. CASE ReleaseDelist
    BY <1>1, <2>1, <2>6, DelistWakes DEF WakeInv
  <2> QED
    BY <1>3, <2>2, <2>3, <2>4, <2>5, <2>6 DEF MutexStep
<1>4. CASE UNCHANGED allVars
  <2>1. UNCHANGED <<m_Enabled, m_Threads, m_SuspendedThreads, m_ThreadCount, m_Id,
                    m_SuspendReason, saved, info, cpu, isr, m_Waiters, due>>
    BY <1>4 DEF allVars, vars, queueVars, threadVars, sleepVars, mutexVars
  <2>2. Habits' /\ DueInv'
    BY <1>before, <2>1 DEF Habits, IdsOwn, NobodySleeps, AddedInv, CallAdded, Added, Sleeps,
                           SleepingInfos, DueInv
  <2>3. WalkInv'
    BY <1>before, <2>1 DEF WalkInv, AtFirst, AtSecond, AllContexts
  <2> QED
    BY <1>1, <2>2, <2>3 DEF WakeInv
<1> QED
  BY <1>2, <1>3, <1>4 DEF MutexNext

(* By the end of its walk Release (semaphore.cpp:91) has put every thread *)
(* it found waiting back in the queue, one or two of them, however many    *)
(* threads lock, release and are preempted, and although the walk erases   *)
(* from the list and stale copies of its registers may be resumed: for     *)
(* threads that do not sleep and that the boot code has added.             *)
THEOREM ReleaseWakesThemAll ==
    ASSUME BootSleeps = FALSE, "sleep" \notin Calls, "add" \notin Calls
    PROVE  MutexSpec => ReleaseWakesAll
<1>1. MutexInit => WakeInv
  BY InitWakeInv
<1>2. WakeInv /\ [MutexNext]_allVars => WakeInv'
  BY WakeInductive
<1>3. WakeInv /\ [MutexNext]_allVars => [At("delist") /\ cpu'.pc = "run" => due = {}]_allVars
  <2> SUFFICES ASSUME WakeInv, MutexNext, At("delist"), cpu'.pc = "run" PROVE due = {}
    OBVIOUS
  <2>1. cpu.pc = "delist" /\ isr.pc = "none" /\ cpu \in Contexts
    BY DEF At, WakeInv, MutexInv, IInv, Types
  <2>2. ReleaseDelist \/ cpu' = cpu
    <3>1. CASE MutexStep
      BY <2>1, <3>1, Zenon DEF MutexStep, Lock, LockTake, LockEnlist, LockMark, Release, ReleaseOpen,
             ReleaseWake, MayCall, At
    <3>2. CASE ThreadStep
      BY <2>1, <3>2, Zenon DEF ThreadStep, AddThread, AddThreadPush, SetEnabled, Sleep, SuspendErase,
             SuspendPush, YieldThreadTime, ThreadFinish, ThreadFinishErase, ThreadFinishYield,
             LateInitStop, MayCall, At
    <3>3. CASE Tick \/ HandlerStep
      BY <2>1, <3>3, Zenon DEF Tick, HandlerStep, ScanStay, ScanWake, KeepRunning, Switch, AtThrows,
             Scanning, Scanned, SwitchDue
    <3> QED
      BY <3>1, <3>2, <3>3 DEF MutexNext, Next
  <2> QED
    BY <2>1, <2>2, DelistWakes
<1> QED
  BY <1>1, <1>2, <1>3, PTL DEF MutexSpec, ReleaseWakesAll

-----------------------------------------------------------------------------
(* The semaphore.                                                          *)
WaitOk(c) ==
    c.pc = "flag" => /\ c.n \in Slots /\ m_Threads.mem[c.n] \in Threads
                     /\ BootSleeps = FALSE => c.n >= 1

WaitsInv ==
    /\ WaitOk(cpu)
    /\ \A t \in Threads : WaitOk(saved[t])
    /\ m_Counter \in Int
    /\ m_Waits \in VectorOf(Slots, MaxWaits)
    /\ \A i \in Live(m_Waits) : /\ m_Threads.mem[m_Waits.mem[i]] \in Threads
                                /\ BootSleeps = FALSE => m_Waits.mem[i] >= 1

SemaphoreInv == IInv /\ WaitsInv

LEMMA InitSemaphoreInv == SemaphoreInit => SemaphoreInv
<1> SUFFICES ASSUME SemaphoreInit PROVE SemaphoreInv
  OBVIOUS
<1> USE ThreadsDistinct, BoundsAssumption, SemaphoreBounds
<1>1. IInv
  BY InitIInv DEF SemaphoreInit
<1>2. WaitOk(cpu) /\ \A t \in Threads : WaitOk(saved[t])
  BY DEF SemaphoreInit, Init, WaitOk, Running, Halted
<1>3. m_Waits \in VectorOf(Slots, MaxWaits) /\ Live(m_Waits) = {} /\ m_Counter \in Int
  BY DEF SemaphoreInit, EmptyVector, VectorOf, Live, Slots
<1> QED
  BY <1>1, <1>2, <1>3 DEF SemaphoreInv, WaitsInv

(* What is said of slots of m_Threads survives a step that empties none.   *)
LEMMA WaitsStay ==
    ASSUME SemaphoreInv, SlotsStay
    PROVE  /\ cpu' = cpu => WaitOk(cpu)'
           /\ \A t \in Threads : saved'[t] = saved[t] => WaitOk(saved[t])'
           /\ \A t \in Threads : saved'[t] = cpu => WaitOk(saved[t])'
           /\ \A t \in Threads : cpu' = saved[t] => WaitOk(cpu)'
           /\ \A i \in Live(m_Waits) : m_Threads'.mem[m_Waits.mem[i]] \in Threads
<1>1. /\ cpu' = cpu => WaitOk(cpu)'
      /\ \A t \in Threads : saved'[t] = saved[t] => WaitOk(saved[t])'
      /\ \A t \in Threads : saved'[t] = cpu => WaitOk(saved[t])'
      /\ \A t \in Threads : cpu' = saved[t] => WaitOk(cpu)'
  BY DEF SemaphoreInv, WaitsInv, WaitOk, SlotsStay
<1>2. \A i \in Live(m_Waits) : m_Waits.mem[i] \in Slots
  BY SemaphoreBounds DEF SemaphoreInv, WaitsInv, VectorOf, Live
<1>3. \A i \in Live(m_Waits) : m_Threads'.mem[m_Waits.mem[i]] \in Threads
  BY <1>2 DEF SemaphoreInv, WaitsInv, SlotsStay
<1> QED
  BY <1>1, <1>3

(* The scheduler's own steps move registers about and start no Wait.       *)
LEMMA NextKeepsWaits ==
    ASSUME SemaphoreInv, Next, UNCHANGED semaphoreVars
    PROVE  SemaphoreInv'
<1>1. IInv /\ IInv' /\ SlotsStay /\ saved \in [Threads -> Contexts] /\ CurrentThread \in Threads
      /\ cpu \in Contexts
  BY Inductive, NextSlotsStay, IInvImpliesTypeOK DEF SemaphoreInv, TypeOK
<1>2. \A t \in Threads : saved'[t] = saved[t] \/ saved'[t] = cpu
  <2>1. CASE ThreadStep
    BY <2>1, Zenon DEF ThreadStep, AddThread, AddThreadPush, SetEnabled, Sleep, SuspendErase,
         SuspendPush, YieldThreadTime, ThreadFinish, ThreadFinishErase, ThreadFinishYield, LateInitStop, threadVars
  <2>2. CASE Tick \/ ScanStay \/ ScanWake \/ KeepRunning
    BY <2>2 DEF Tick, ScanStay, ScanWake, KeepRunning, threadVars
  <2>3. CASE Switch \/ AtThrows
    BY <1>1, <2>3 DEF Switch, AtThrows
  <2> QED
    BY <2>1, <2>2, <2>3 DEF Next, HandlerStep
<1>3. cpu' = cpu \/ cpu'.pc # "flag" \/ \E t \in Threads : cpu' = saved[t]
  <2>1. CASE AddThread \/ Sleep \/ SuspendErase \/ SuspendPush \/ ThreadFinish \/ ThreadFinishErase
    BY <1>1, <2>1, Zenon DEF AddThread, Sleep, SuspendErase, SuspendPush, ThreadFinish,
         ThreadFinishErase, Contexts
  <2>2. CASE AddThreadPush \/ SetEnabled \/ YieldThreadTime \/ ThreadFinishYield
    BY <2>2 DEF AddThreadPush, SetEnabled, YieldThreadTime, ThreadFinishYield, Running, Halted
  <2>3. CASE LateInitStop \/ Tick \/ ScanStay \/ ScanWake \/ KeepRunning \/ AtThrows
    BY <2>3 DEF LateInitStop, Tick, ScanStay, ScanWake, KeepRunning, AtThrows
  <2>4. CASE Switch
    <3>1. NextThread \in Threads
      BY <1>1, <2>4, SwitchTarget
    <3>2. cpu' = saved'[NextThread]
      BY <1>1, <2>4, <3>1 DEF Switch
    <3> QED
      BY <1>2, <3>1, <3>2
  <2> QED
    BY <2>1, <2>2, <2>3, <2>4 DEF Next, ThreadStep, HandlerStep
<1>4. WaitOk(cpu)' /\ \A t \in Threads : WaitOk(saved[t])'
  <2>1. WaitOk(cpu)'
    <3>1. CASE cpu'.pc # "flag"
      BY <3>1 DEF WaitOk
    <3> QED
      BY <1>1, <1>3, <3>1, WaitsStay
  <2> QED
    BY <1>1, <1>2, <2>1, WaitsStay
<1>5. UNCHANGED <<m_Counter, m_Waits>>
  BY DEF semaphoreVars
<1> QED
  BY <1>1, <1>4, <1>5, WaitsStay DEF SemaphoreInv, WaitsInv

(* So do the semaphore's.                                                  *)
LEMMA SemaphoreStepKeepsWaits ==
    ASSUME SemaphoreInv, SemaphoreStep
    PROVE  /\ SemaphoreInv'
           /\ UNCHANGED <<m_Threads, m_Index, m_Id, saved, m_SuspendedThreads, isr>>
           /\ cpu'.of = cpu.of
           /\ cpu'.pc \in Pcs \ {"add", "erase", "suspend", "retire", "leave", "halt"}
<1> USE ThreadsDistinct, BoundsAssumption, SemaphoreBounds
<1>0. /\ IInv /\ WaitsInv /\ WaitOk(cpu) /\ cpu \in Contexts /\ m_Counter \in Int
      /\ cpu.n \in Nat /\ cpu.end \in Int
      /\ m_SuspendReason \in [Threads -> {"NotSuspended", "Sleeping", "Waiting"}]
      /\ m_Waits \in VectorOf(Slots, MaxWaits) /\ m_Waits.len \in Nat
  <2>1. IInv /\ WaitsInv /\ Types
    BY DEF SemaphoreInv, IInv
  <2>2. /\ cpu \in Contexts
        /\ m_SuspendReason \in [Threads -> {"NotSuspended", "Sleeping", "Waiting"}]
    BY <2>1 DEF Types
  <2>3. cpu.n \in Nat /\ cpu.end \in Int
    BY <2>2 DEF Contexts
  <2>4. m_Waits.len \in Nat
    BY <2>1 DEF WaitsInv, VectorOf
  <2> QED
    BY <2>1, <2>2, <2>3, <2>4 DEF WaitsInv
<1>calling. cpu.pc \notin {"halt", "add"} /\ (cpu.pc = "run" => cpu.of # Boot)
  BY DEF SemaphoreStep, Wait, TryWait, WaitDecrement, WaitTest, WaitFlag, WaitAppend,
         Notify, NotifyIncrement, NotifyTest, NotifyIndex, NotifyUnflag, MayCall, At
<1>elsewhere. /\ m_Index \in Slots /\ (BootSleeps = FALSE => m_Index >= 1)
              /\ CurrentThread \in Threads
  BY <1>0, <1>calling, CallerIsElsewhere DEF Removable
<1>1. UNCHANGED <<m_Enabled, queueVars, m_Quantum, m_Id, saved, sleepVars, isr, halted>>
  <2>1. CASE Wait \/ TryWait \/ Notify
    BY <2>1 DEF Wait, TryWait, Notify, Begin, UnchangedBut, threadVars
  <2>2. CASE WaitDecrement \/ NotifyIncrement
    BY <2>2 DEF WaitDecrement, NotifyIncrement, Store, UnchangedBut, threadVars
  <2>3. CASE WaitTest \/ WaitFlag \/ WaitAppend
    BY <2>3 DEF WaitTest, WaitFlag, WaitAppend, UnchangedBut, threadVars
  <2>4. CASE NotifyTest \/ NotifyIndex \/ NotifyUnflag
    BY <2>4 DEF NotifyTest, NotifyIndex, NotifyUnflag, UnchangedBut, threadVars
  <2> QED
    BY <2>1, <2>2, <2>3, <2>4 DEF SemaphoreStep
<1>2. SlotsStay
  BY <1>1 DEF queueVars, SlotsStay
(* What a step has to show.                                                *)
<1>3. ASSUME cpu' \in Contexts, cpu'.of = cpu.of,
             cpu'.pc \in Pcs \ {"add", "erase", "suspend", "retire", "leave", "halt"},
             WaitOk(cpu)', m_Counter' \in Int,
             m_SuspendReason' \in [Threads -> {"NotSuspended", "Sleeping", "Waiting"}],
             m_Waits' \in VectorOf(Slots, MaxWaits),
             \A i \in Live(m_Waits') : \/ i \in Live(m_Waits) /\ m_Waits'.mem[i] = m_Waits.mem[i]
                                      \/ m_Waits'.mem[i] = m_Index
      PROVE  /\ SemaphoreInv'
             /\ cpu'.of = cpu.of
             /\ cpu'.pc \in Pcs \ {"add", "erase", "suspend", "retire", "leave", "halt"}
  <2>1. IInv'
    BY <1>0, <1>calling, <1>1, <1>3, CallStepIInv DEF CallOk
  <2>2. \A t \in Threads : WaitOk(saved[t])'
    BY <1>1, <1>2, WaitsStay
  <2>3. \A i \in Live(m_Waits') : m_Threads'.mem[m_Waits'.mem[i]] \in Threads
    BY <1>1, <1>2, <1>3, <1>elsewhere, WaitsStay DEF queueVars, CurrentThread
  <2>4. BootSleeps = FALSE => \A i \in Live(m_Waits') : m_Waits'.mem[i] >= 1
    BY <1>0, <1>3, <1>elsewhere DEF WaitsInv
  <2> QED
    BY <1>3, <2>1, <2>2, <2>3, <2>4 DEF SemaphoreInv, WaitsInv
<1>4. ASSUME m_Waits' = m_Waits
      PROVE  /\ m_Waits' \in VectorOf(Slots, MaxWaits)
             /\ \A i \in Live(m_Waits') : i \in Live(m_Waits) /\ m_Waits'.mem[i] = m_Waits.mem[i]
  BY <1>0, <1>4
<1>5. CASE Wait \/ TryWait \/ Notify
  <2>1. PICK pc \in {"decrement", "increment"} : Begin(pc)
    BY <1>5 DEF Wait, TryWait, Notify
  <2>2. cpu' \in Contexts /\ cpu'.of = cpu.of /\ cpu'.pc = pc
    BY <1>0, <2>1 DEF Begin, Contexts, Pcs
  <2>3. UNCHANGED <<m_SuspendReason, m_Counter, m_Waits>>
    BY <2>1 DEF Begin, threadVars
  <2>4. WaitOk(cpu)' /\ pc \in Pcs
    BY <2>2 DEF WaitOk, Pcs
  <2> QED
    BY <1>0, <1>1, <1>3, <1>4, <2>2, <2>3, <2>4 DEF queueVars, sleepVars
<1>6. CASE WaitDecrement \/ NotifyIncrement
  <2>1. PICK pc \in {"tested", "wakes"}, value \in Int : Store(value, pc)
    BY <1>0, <1>6 DEF WaitDecrement, NotifyIncrement
  <2>2. cpu' \in Contexts /\ cpu'.of = cpu.of /\ cpu'.pc = pc
    BY <1>0, <2>1 DEF Store, Contexts, Pcs
  <2>3. UNCHANGED <<m_SuspendReason, m_Waits>> /\ m_Counter' \in Int
    BY <2>1 DEF Store, threadVars
  <2>4. WaitOk(cpu)' /\ pc \in Pcs
    BY <2>2 DEF WaitOk, Pcs
  <2> QED
    BY <1>0, <1>1, <1>3, <1>4, <2>2, <2>3, <2>4 DEF queueVars, sleepVars
<1>7. CASE WaitTest
  <2>1. UNCHANGED <<m_SuspendReason, m_Counter, m_Waits>>
    BY <1>7 DEF WaitTest, threadVars, semaphoreVars
  <2>2. CASE m_Counter < 0
    <3>1. m_Index \in Nat /\ cpu' = [cpu EXCEPT !.pc = "flag", !.n = m_Index, !.end = 0]
      BY <1>7, <1>elsewhere, <2>2 DEF WaitTest, Slots
    <3>2. cpu' \in Contexts /\ cpu'.of = cpu.of /\ cpu'.pc = "flag" /\ cpu'.n = m_Index
      <4>1. cpu \in Contexts /\ m_Index \in Nat /\ 0 \in Int /\ "flag" \in Pcs
        BY <1>0, <3>1 DEF Pcs
      <4> QED
        BY <3>1, <4>1 DEF Contexts
    <3>3. WaitOk(cpu)'
      BY <1>1, <1>elsewhere, <3>2 DEF WaitOk, CurrentThread, queueVars
    <3> QED
      BY <1>0, <1>1, <1>3, <1>4, <2>1, <3>2, <3>3 DEF queueVars, sleepVars, Pcs
  <2>3. CASE ~(m_Counter < 0)
    <3>1. cpu' \in Contexts /\ cpu'.of = cpu.of /\ cpu'.pc = "run"
      <4>1. cpu' = Running(cpu.of)
        BY <1>0, <1>7, <2>3, Zenon DEF WaitTest
      <4> QED
        BY <1>0, <4>1 DEF Running, Contexts, Pcs
    <3> QED
      BY <1>0, <1>1, <1>3, <1>4, <2>1, <3>1 DEF queueVars, sleepVars, Pcs, WaitOk
  <2> QED
    BY <2>2, <2>3
<1>8. CASE WaitFlag
  <2>1. cpu' \in Contexts /\ cpu'.of = cpu.of /\ cpu'.pc = "append"
    BY <1>0, <1>8 DEF WaitFlag, Contexts, Pcs
  <2>2. /\ m_SuspendReason' \in [Threads -> {"NotSuspended", "Sleeping", "Waiting"}]
        /\ UNCHANGED <<m_Counter, m_Waits>>
    BY <1>0, <1>8 DEF WaitFlag, semaphoreVars
  <2> QED
    BY <1>0, <1>1, <1>3, <1>4, <2>1, <2>2 DEF queueVars, sleepVars, Pcs, WaitOk
<1>9. CASE WaitAppend
  <2>1. cpu' \in Contexts /\ cpu'.of = cpu.of /\ cpu'.pc = "yield"
    BY <1>0, <1>9 DEF WaitAppend, Contexts, Pcs
  <2>2. UNCHANGED <<m_SuspendReason, m_Counter>>
    BY <1>9 DEF WaitAppend, threadVars
  <2>3. /\ m_Waits' \in VectorOf(Slots, MaxWaits) /\ m_Waits'.len = m_Waits.len + 1
        /\ m_Waits'.mem[m_Waits.len] = m_Index
        /\ \A i \in 0 .. MaxWaits - 1 : i # m_Waits.len => m_Waits'.mem[i] = m_Waits.mem[i]
    BY <1>0, <1>9, <1>elsewhere, PushBackSpec DEF WaitAppend
  <2>4. \A i \in Live(m_Waits') : i = m_Waits.len
                                  \/ (i \in Live(m_Waits) /\ i \in 0 .. MaxWaits - 1 /\ i # m_Waits.len)
    BY <1>0, <1>9, <2>3 DEF Live, WaitAppend, VectorOf
  <2>5. \A i \in Live(m_Waits') : \/ i \in Live(m_Waits) /\ m_Waits'.mem[i] = m_Waits.mem[i]
                                 \/ m_Waits'.mem[i] = m_Index
    BY <2>3, <2>4
  <2> QED
    BY <1>0, <1>1, <1>3, <2>1, <2>2, <2>3, <2>5 DEF queueVars, sleepVars, Pcs, WaitOk
<1>10. CASE NotifyTest
  <2>1. cpu' \in Contexts /\ cpu'.of = cpu.of /\ cpu'.pc \in {"index", "run"}
    <3>1. CASE m_Counter < 0
      <4>1. cpu' = [cpu EXCEPT !.pc = "index", !.end = 0]
        BY <1>10, <3>1, Zenon DEF NotifyTest
      <4> QED
        <5>1. cpu \in Contexts /\ 0 \in Int /\ "index" \in Pcs
          BY <1>0 DEF Pcs
        <5> QED
          BY <4>1, <5>1 DEF Contexts
    <3>2. CASE ~(m_Counter < 0)
      <4>1. cpu' = Running(cpu.of)
        BY <1>10, <3>2, Zenon DEF NotifyTest
      <4> QED
        BY <1>0, <4>1 DEF Running, Contexts, Pcs
    <3> QED
      BY <3>1, <3>2
  <2>2. UNCHANGED <<m_SuspendReason, m_Counter, m_Waits>>
    BY <1>10 DEF NotifyTest, threadVars, semaphoreVars
  <2> QED
    BY <1>0, <1>1, <1>3, <1>4, <2>1, <2>2 DEF queueVars, sleepVars, Pcs, WaitOk
<1>11. CASE NotifyIndex
  <2>1. Abs(m_Counter) \in Nat
    BY <1>0 DEF Abs
  <2>2. cpu' \in Contexts /\ cpu'.of = cpu.of /\ cpu'.pc = "unflag"
    BY <1>0, <1>11, <2>1 DEF NotifyIndex, Contexts, Pcs
  <2>3. UNCHANGED <<m_SuspendReason, m_Counter, m_Waits>>
    BY <1>11 DEF NotifyIndex, threadVars, semaphoreVars
  <2> QED
    BY <1>0, <1>1, <1>3, <1>4, <2>2, <2>3 DEF queueVars, sleepVars, Pcs, WaitOk
<1>12. CASE NotifyUnflag
  <2>1. cpu' \in Contexts /\ cpu'.of = cpu.of /\ cpu'.pc = "run"
    BY <1>0, <1>12 DEF NotifyUnflag, Running, Contexts, Pcs
  <2>2. /\ m_SuspendReason' \in [Threads -> {"NotSuspended", "Sleeping", "Waiting"}]
        /\ UNCHANGED <<m_Counter, m_Waits>>
    BY <1>0, <1>12 DEF NotifyUnflag, semaphoreVars
  <2> QED
    BY <1>0, <1>1, <1>3, <1>4, <2>1, <2>2 DEF queueVars, sleepVars, Pcs, WaitOk
<1> QED
  BY <1>5, <1>6, <1>7, <1>8, <1>9, <1>10, <1>11, <1>12, <1>1 DEF SemaphoreStep, queueVars, sleepVars

LEMMA SemaphoreInductive ==
    ASSUME SemaphoreInv, [SemaphoreNext]_semVars
    PROVE  SemaphoreInv'
<1>1. CASE UNCHANGED semVars
  <2>1. IInv'
    BY <1>1, Inductive DEF SemaphoreInv, semVars
  <2>2. UNCHANGED <<m_Threads, saved, cpu, m_Counter, m_Waits>>
    BY <1>1 DEF semVars, semaphoreVars, vars, queueVars, threadVars
  <2> QED
    BY <2>1, <2>2 DEF SemaphoreInv, WaitsInv, WaitOk
<1> QED
  BY <1>1, NextKeepsWaits, SemaphoreStepKeepsWaits DEF SemaphoreNext

-----------------------------------------------------------------------------
(* Threads that neither sleep nor return keep their own registers (Steady),*)
(* and with them what a call has read: the slot WaitTest took from m_Index *)
(* still holds the caller's thread, and while no two calls have overlapped *)
(* the counter is behind the list by what the one call has yet to do.      *)
ReaderOfIndex(t) ==
    Registers(t).pc = "flag" =>
        /\ Registers(t).n < m_Threads.len
        /\ OwnContext(m_Threads.mem[Registers(t).n], Registers(t))

Calling(t) == InCall(Registers(t))

CallerIsOwner(t) == Calling(t) => Registers(t).of = t

Enlisting(t) == Registers(t).pc \in {"tested", "flag", "append"}

CountOk(t) ==
    /\ Registers(t).pc \in {"decrement", "increment"} => Registers(t).end = m_Counter
    /\ Enlisting(t) => -m_Counter <= m_Waits.len + 1
    /\ Registers(t).pc \in {"wakes", "index"} => -m_Counter <= m_Waits.len - 1
    /\ Registers(t).pc = "index" => m_Counter < 0
    /\ Registers(t).pc = "unflag" => Registers(t).n < m_Waits.len

OneCall == \A t, u \in Threads : Calling(t) /\ Calling(u) => t = u

CallsInv ==
    /\ \A t \in Threads : ReaderOfIndex(t) /\ CallerIsOwner(t)
    /\ ~overlapped =>
          /\ OneCall
          /\ \A t \in Threads : CountOk(t)
          /\ (\A t \in Threads : ~Enlisting(t)) => -m_Counter <= m_Waits.len

SteadyInv == SemaphoreInv /\ Steady /\ CallsInv

LEMMA InitSteadyInv == SemaphoreInit => SteadyInv
<1> SUFFICES ASSUME SemaphoreInit PROVE SteadyInv
  OBVIOUS
<1> USE ThreadsDistinct, BoundsAssumption, SemaphoreBounds
<1>1. SemaphoreInv /\ Steady /\ m_Waits.len = 0 /\ m_Counter \in Nat
  BY InitSemaphoreInv, InitSteady DEF SemaphoreInit, EmptyVector
<1>2. \A t \in Threads : Registers(t).pc \in {"run", "halt"}
  BY DEF SemaphoreInit, Init, Registers, Running, Halted
<1>3. \A t \in Threads : ~Calling(t) /\ ~Enlisting(t) /\ CountOk(t) /\ ReaderOfIndex(t)
  BY <1>2 DEF Calling, InCall, Enlisting, CountOk, ReaderOfIndex
<1> QED
  BY <1>1, <1>3 DEF SteadyInv, CallsInv, CallerIsOwner, OneCall

(* No step of the scheduler disturbs a call: a switch moves its registers  *)
(* and a thread that is added comes behind the slots in use.               *)
LEMMA NextKeepsCalls ==
    ASSUME SteadyInv, Next, ~Sleep, ~ThreadFinish, UNCHANGED semaphoreVars
    PROVE  Steady' /\ CallsInv'
<1> USE ThreadsDistinct, BoundsAssumption, SemaphoreBounds
<1>0. /\ IInv /\ Steady /\ CallsInv /\ QueuedOnce /\ CurrentThread \in Threads /\ m_Index \in Slots
      /\ m_Threads \in VectorOf(Threads \cup {NoThread}, Cap) /\ m_Threads.len \in 0 .. Cap
      /\ cpu \in Contexts /\ saved \in [Threads -> Contexts]
      /\ UNCHANGED <<m_Counter, m_Waits, overlapped>>
  BY IInvImpliesTypeOK DEF SteadyInv, SemaphoreInv, IInv, Types, TypeOK, Steady, VectorOf, semaphoreVars
<1>1. Steady'
  BY <1>0, ThreadStepSteady, HandlerStepSteady DEF Next
<1>2. /\ \A t \in Threads : Registers(t)' = Registers(t)
                            \/ (~Calling(t) /\ ~Calling(t)')
      /\ m_Threads'.len >= m_Threads.len /\ m_Threads'.len \in Int
      /\ \A i \in Slots : i < m_Threads.len => m_Threads'.mem[i] = m_Threads.mem[i]
  <2>1. CASE Tick \/ HandlerStep
    BY <1>0, <2>1, HandlerStepSteady
  <2>2. CASE AddThread
    <3>1. UNCHANGED <<m_Threads, m_Index, saved>> /\ cpu.pc = "run"
      BY <2>2 DEF AddThread, MayCall, At, queueVars, threadVars
    <3>2. cpu'.pc = "add"
      BY <1>0, <2>2 DEF AddThread, Contexts
    <3>3. \A t \in Threads : Registers(t)' = Registers(t) \/ (~Calling(t) /\ ~Calling(t)')
      BY <3>1, <3>2 DEF Registers, CurrentThread, Calling, InCall
    <3> QED
      BY <1>0, <3>1, <3>3
  <2>3. CASE AddThreadPush
    <3>1. /\ cpu.pc = "add" /\ cpu'.pc = "run" /\ m_Threads' = PushBack(m_Threads, cpu.t)
          /\ cpu.t \in Threads \cup {NoThread} /\ m_Threads.len < Cap
          /\ UNCHANGED <<m_Index, saved>>
      BY <1>0, <2>3 DEF AddThreadPush, At, Room, Running, Contexts, IInv, Types, VectorOf
    <3>2. /\ m_Threads'.len = m_Threads.len + 1
          /\ \A i \in Slots : i # m_Threads.len => m_Threads'.mem[i] = m_Threads.mem[i]
      BY <1>0, <3>1, PushBackSpec DEF Slots
    <3>3. CurrentThread' = CurrentThread
      BY <1>0, <3>1, <3>2 DEF CurrentThread, QueuedOnce, Slots
    <3>4. \A t \in Threads : Registers(t)' = Registers(t) \/ (~Calling(t) /\ ~Calling(t)')
      BY <3>1, <3>3 DEF Registers, Calling, InCall
    <3> QED
      BY <1>0, <3>2, <3>4 DEF Slots
  <2>4. CASE SetEnabled \/ YieldThreadTime \/ LateInitStop
    <3>1. /\ UNCHANGED <<m_Threads, m_Index, saved>>
          /\ cpu.pc \in {"run", "yield"} /\ cpu'.pc \in {"run", "halt"}
      BY <2>4 DEF SetEnabled, YieldThreadTime, LateInitStop, MayCall, At, Running, Halted,
                  queueVars, threadVars
    <3>2. \A t \in Threads : Registers(t)' = Registers(t) \/ (~Calling(t) /\ ~Calling(t)')
      BY <3>1 DEF Registers, CurrentThread, Calling, InCall
    <3> QED
      BY <1>0, <3>1, <3>2
  <2>5. ~SuspendErase /\ ~SuspendPush /\ ~ThreadFinishErase /\ ~ThreadFinishYield
    BY <1>0 DEF SuspendErase, SuspendPush, ThreadFinishErase, ThreadFinishYield, At, Steady,
                NobodyLeaves, AllContexts
  <2> QED
    BY <2>1, <2>2, <2>3, <2>4, <2>5 DEF Next, ThreadStep
<1>3. \A t \in Threads : Registers(t) \in Contexts
  BY <1>0 DEF Registers
<1>4. ASSUME NEW t \in Threads
      PROVE  /\ ReaderOfIndex(t)' /\ CallerIsOwner(t)'
             /\ Calling(t)' => Calling(t)
             /\ Enlisting(t)' <=> Enlisting(t)
             /\ CountOk(t) => CountOk(t)'
  <2>1. CASE Registers(t)' = Registers(t)
    <3>1. ReaderOfIndex(t)'
      <4>1. ASSUME Registers(t)'.pc = "flag"
            PROVE  /\ Registers(t)'.n < m_Threads'.len
                   /\ m_Threads'.mem[Registers(t).n] = m_Threads.mem[Registers(t).n]
                   /\ OwnContext(m_Threads.mem[Registers(t).n], Registers(t))
        <5>1. /\ Registers(t).n < m_Threads.len /\ Registers(t).n \in Nat
              /\ OwnContext(m_Threads.mem[Registers(t).n], Registers(t))
          BY <1>0, <1>3, <2>1, <4>1 DEF CallsInv, ReaderOfIndex, Contexts
        <5>2. Registers(t).n \in Slots
          BY <1>0, <5>1 DEF Slots
        <5> QED
          BY <1>0, <1>2, <2>1, <5>1, <5>2
      <4> QED
        BY <2>1, <4>1 DEF ReaderOfIndex, OwnContext
    <3> QED
      BY <1>0, <2>1, <3>1 DEF CallsInv, CallerIsOwner, Calling, InCall, Enlisting, CountOk
  <2>2. CASE ~Calling(t) /\ ~Calling(t)'
    BY <2>2 DEF ReaderOfIndex, CallerIsOwner, Calling, InCall, Enlisting, CountOk
  <2> QED
    BY <1>2, <2>1, <2>2
<1>5. CallsInv'
  <2>1. \A t \in Threads : ReaderOfIndex(t)' /\ CallerIsOwner(t)'
    BY <1>4
  <2>2. ASSUME ~overlapped
        PROVE  /\ OneCall'
               /\ \A t \in Threads : CountOk(t)'
               /\ (\A t \in Threads : ~Enlisting(t)') => -m_Counter <= m_Waits.len
    BY <1>0, <1>4, <2>2 DEF CallsInv, OneCall
  <2> QED
    BY <1>0, <2>1, <2>2 DEF CallsInv
<1> QED
  BY <1>1, <1>5

(* The steps of a call are its caller's, and while calls do not overlap    *)
(* the other threads are in none.                                          *)
LEMMA SemaphoreStepKeepsCalls ==
    ASSUME SteadyInv, SemaphoreStep
    PROVE  Steady' /\ CallsInv'
<1> USE ThreadsDistinct, BoundsAssumption, SemaphoreBounds
<1>me. PICK me \in Threads : me = CurrentThread
  BY IInvImpliesTypeOK DEF SteadyInv, SemaphoreInv, TypeOK
<1>0. /\ IInv /\ Steady /\ CallsInv /\ SemaphoreInv /\ m_Index \in Slots
      /\ cpu \in Contexts /\ ContextsOwned /\ m_Index < m_Threads.len
      /\ m_SuspendedThreads.len = 0 /\ isr.end = 0
      /\ m_Counter \in Int /\ m_Waits \in VectorOf(Slots, MaxWaits) /\ m_Waits.len \in Nat
      /\ cpu.n \in Nat
  <2>1. IInv /\ Types /\ SemaphoreInv /\ Steady /\ CallsInv
    BY DEF SteadyInv, SemaphoreInv, IInv
  <2>3. m_Index \in Slots /\ cpu \in Contexts
    BY <2>1 DEF Types
  <2>4. /\ ContextsOwned /\ m_Index < m_Threads.len
        /\ m_SuspendedThreads.len = 0 /\ isr.end = 0
    BY <2>1 DEF Steady, QueuedOnce, NobodyLeaves
  <2>5. m_Counter \in Int /\ m_Waits \in VectorOf(Slots, MaxWaits)
    BY <2>1 DEF SemaphoreInv, WaitsInv
  <2>6. m_Waits.len \in Nat
    BY <2>5 DEF VectorOf
  <2>7. cpu.n \in Nat
    BY <2>3 DEF Contexts
  <2> QED
    BY <2>1, <2>3, <2>4, <2>5, <2>6, <2>7
<1>1. /\ UNCHANGED <<m_Threads, m_Index, m_Id, saved, m_SuspendedThreads, isr>>
      /\ cpu'.of = cpu.of
      /\ cpu'.pc \in Pcs \ {"add", "erase", "suspend", "retire", "leave", "halt"}
  BY <1>0, SemaphoreStepKeepsWaits
<1>2. Steady'
  BY <1>0, <1>1, QuietStepSteady
<1>3. /\ Registers(me) = cpu /\ Registers(me)' = cpu'
      /\ \A t \in Threads : t # me => Registers(t)' = Registers(t) /\ Registers(t) = saved[t]
  BY <1>1, <1>me DEF Registers, CurrentThread
(* The caller is the current thread.                                       *)
<1>4. cpu.of = me
  <2>1. InCall(cpu) \/ cpu.of # Boot
    BY DEF SemaphoreStep, Wait, TryWait, WaitDecrement, WaitTest, WaitFlag, WaitAppend, InCall,
         Notify, NotifyIncrement, NotifyTest, NotifyIndex, NotifyUnflag, MayCall, At
  <2>2. CASE InCall(cpu)
    BY <1>0, <1>3, <2>2 DEF CallsInv, CallerIsOwner, Calling
  <2>3. CASE cpu.of # Boot
    BY <1>0, <1>me, <2>3 DEF ContextsOwned, OwnContext
  <2> QED
    BY <2>1, <2>2, <2>3
(* What a step has to show of the registers it leaves.                     *)
<1> DEFINE
      CountLeft ==
        /\ cpu'.pc \in {"decrement", "increment"} => cpu'.end = m_Counter'
        /\ cpu'.pc \in {"tested", "flag", "append"} => -m_Counter' <= m_Waits'.len + 1
        /\ cpu'.pc \in {"wakes", "index"} => -m_Counter' <= m_Waits'.len - 1
        /\ cpu'.pc = "index" => m_Counter' < 0
        /\ cpu'.pc = "unflag" => cpu'.n < m_Waits'.len
        /\ cpu'.pc \notin {"tested", "flag", "append"} => -m_Counter' <= m_Waits'.len
<1>5. ASSUME cpu'.pc = "flag" => cpu'.n = m_Index,
             ~overlapped' => ~overlapped /\ \A t \in Threads : t # me => ~Calling(t),
             ~overlapped' => CountLeft
      PROVE  Steady' /\ CallsInv'
  <2>1. \A t \in Threads : ReaderOfIndex(t)' /\ CallerIsOwner(t)'
    <3> TAKE t \in Threads
    <3>1. CASE t # me
      BY <1>0, <1>1, <1>3, <3>1 DEF CallsInv, ReaderOfIndex, CallerIsOwner, Calling, InCall, OwnContext
    <3>2. CASE t = me
      <4>1. CallerIsOwner(t)'
        BY <1>1, <1>3, <1>4, <3>2 DEF CallerIsOwner
      <4>2. m_Threads.mem[m_Index] = me
        BY <1>me DEF CurrentThread
      <4>3. ReaderOfIndex(t)'
        BY <1>0, <1>1, <1>3, <1>4, <1>5, <3>2, <4>2 DEF ReaderOfIndex, OwnContext
      <4> QED
        BY <4>1, <4>3
    <3> QED
      BY <3>1, <3>2
  <2>2. ASSUME ~overlapped'
        PROVE  /\ OneCall'
               /\ \A t \in Threads : CountOk(t)'
               /\ (\A t \in Threads : ~Enlisting(t)') => -m_Counter' <= m_Waits'.len
    <3>1. \A t \in Threads : t # me => ~Calling(t)'
      BY <1>3, <1>5, <2>2 DEF Calling, InCall
    <3>2. \A t \in Threads : ~Calling(t)' => CountOk(t)'
      BY DEF Calling, InCall, CountOk, Enlisting
    <3>3. CountOk(me)'
      BY <1>3, <1>5, <2>2 DEF CountOk, Enlisting
    <3>4. ~Enlisting(me)' => -m_Counter' <= m_Waits'.len
      BY <1>3, <1>5, <2>2 DEF Enlisting
    <3> QED
      BY <1>0, <3>1, <3>2, <3>3, <3>4 DEF OneCall
  <2> QED
    BY <1>2, <2>1, <2>2 DEF CallsInv
(* What the invariant says of the registers it finds.                      *)
<1> HIDE DEF CountLeft
<1>6. ASSUME ~overlapped
      PROVE  /\ InCall(cpu) => \A t \in Threads : t # me => ~Calling(t)
             /\ cpu.pc \in {"decrement", "increment"} => cpu.end = m_Counter
             /\ cpu.pc \in {"tested", "flag", "append"} => -m_Counter <= m_Waits.len + 1
             /\ cpu.pc \in {"wakes", "index"} => -m_Counter <= m_Waits.len - 1
             /\ cpu.pc = "index" => m_Counter < 0
             /\ (\A t \in Threads : t # me => ~Calling(t)) =>
                    (cpu.pc \notin {"tested", "flag", "append"} => -m_Counter <= m_Waits.len)
  <2>1. InCall(cpu) => \A t \in Threads : t # me => ~Calling(t)
    BY <1>0, <1>3, <1>6 DEF CallsInv, OneCall, Calling
  <2>2. CountOk(me)
    BY <1>0, <1>6 DEF CallsInv
  <2>3. ASSUME \A t \in Threads : t # me => ~Calling(t),
               cpu.pc \notin {"tested", "flag", "append"}
        PROVE  -m_Counter <= m_Waits.len
    <3>1. \A t \in Threads : ~Enlisting(t)
      BY <1>3, <2>3 DEF Enlisting, Calling, InCall
    <3> QED
      BY <1>0, <1>6, <3>1 DEF CallsInv
  <2> QED
    BY <1>3, <2>1, <2>2, <2>3 DEF CountOk, Enlisting
<1>7. CASE Wait \/ TryWait \/ Notify
  <2>1. PICK pc \in {"decrement", "increment"} : Begin(pc)
    BY <1>7 DEF Wait, TryWait, Notify
  <2>2. cpu'.pc = pc /\ cpu'.end = m_Counter
    BY <1>0, <2>1 DEF Begin, Contexts
  <2>3. /\ UNCHANGED <<m_Counter, m_Waits>> /\ cpu.pc = "run"
        /\ overlapped' = (overlapped \/ \E t \in Threads : saved[t].of # cpu.of /\ InCall(saved[t]))
    BY <1>7, <2>1 DEF Begin, Wait, TryWait, Notify, MayCall, At
  <2>4. ASSUME ~overlapped'
        PROVE  ~overlapped /\ \A t \in Threads : t # me => ~Calling(t)
    <3>1. ASSUME NEW t \in Threads, t # me, Calling(t)
          PROVE  FALSE
      <4>1. saved[t].of = t /\ InCall(saved[t])
        BY <1>0, <1>3, <3>1 DEF CallsInv, CallerIsOwner, Calling
      <4> QED
        BY <1>4, <2>3, <2>4, <3>1, <4>1
    <3> QED
      BY <2>3, <2>4, <3>1
  <2>5. ~overlapped' => -m_Counter <= m_Waits.len
    BY <1>6, <2>3, <2>4
  <2>left. (cpu'.pc = "flag" => cpu'.n = m_Index) /\ (~overlapped' => CountLeft)
    BY <2>2, <2>3, <2>4, <2>5 DEF CountLeft
  <2> QED
    BY <1>5, <2>4, <2>left
<1>8. CASE ~(Wait \/ TryWait \/ Notify)
  <2>1. InCall(cpu) /\ overlapped' = overlapped
    <3>1. InCall(cpu)
      BY <1>8 DEF SemaphoreStep, WaitDecrement, WaitTest, WaitFlag, WaitAppend, InCall,
                  NotifyIncrement, NotifyTest, NotifyIndex, NotifyUnflag, At
    <3>2. overlapped' = overlapped
      BY <1>8 DEF SemaphoreStep, WaitDecrement, WaitTest, WaitFlag, WaitAppend, Store,
                  NotifyIncrement, NotifyTest, NotifyIndex, NotifyUnflag, semaphoreVars
    <3> QED
      BY <3>1, <3>2
  <2>2. ~overlapped' => ~overlapped /\ \A t \in Threads : t # me => ~Calling(t)
    BY <1>6, <2>1
  <2>3. CASE WaitDecrement
    <3>1. /\ cpu.pc = "decrement" /\ m_Counter' = cpu.end - 1 /\ m_Waits' = m_Waits
          /\ cpu' = [cpu EXCEPT !.pc = "tested"]
      BY <2>3 DEF WaitDecrement, Store, At
    <3>2. cpu'.pc = "tested"
      BY <1>0, <3>1 DEF Contexts
    <3>3. ~overlapped' => -m_Counter' <= m_Waits'.len + 1
      BY <1>0, <1>6, <2>1, <2>2, <3>1
    <3>left. (cpu'.pc = "flag" => cpu'.n = m_Index) /\ (~overlapped' => CountLeft)
      BY <2>2, <3>2, <3>3 DEF CountLeft
    <3> QED
      BY <1>5, <2>2, <3>left
  <2>4. CASE NotifyIncrement
    <3>1. /\ cpu.pc = "increment" /\ m_Counter' = cpu.end + 1 /\ m_Waits' = m_Waits
          /\ cpu' = [cpu EXCEPT !.pc = "wakes"]
      BY <2>4 DEF NotifyIncrement, Store, At
    <3>2. cpu'.pc = "wakes"
      BY <1>0, <3>1 DEF Contexts
    <3>3. ~overlapped' => -m_Counter' <= m_Waits'.len - 1 /\ -m_Counter' <= m_Waits'.len
      BY <1>0, <1>6, <2>1, <2>2, <3>1
    <3>left. (cpu'.pc = "flag" => cpu'.n = m_Index) /\ (~overlapped' => CountLeft)
      BY <2>2, <3>2, <3>3 DEF CountLeft
    <3> QED
      BY <1>5, <2>2, <3>left
  <2>5. CASE WaitTest
    <3>1. cpu.pc = "tested" /\ UNCHANGED <<m_Counter, m_Waits>>
      BY <2>5 DEF WaitTest, At, semaphoreVars
    <3>2. CASE m_Counter < 0
      <4>1. cpu' = [cpu EXCEPT !.pc = "flag", !.n = m_Index, !.end = 0]
        BY <2>5, <3>2, Zenon DEF WaitTest
      <4>2. cpu'.pc = "flag" /\ cpu'.n = m_Index
        BY <1>0, <4>1 DEF Contexts
      <4>left. (cpu'.pc = "flag" => cpu'.n = m_Index) /\ (~overlapped' => CountLeft)
        BY <1>6, <2>1, <2>2, <3>1, <4>2 DEF CountLeft
      <4> QED
        BY <1>5, <2>2, <4>left
    <3>3. CASE ~(m_Counter < 0)
      <4>1. cpu' = Running(cpu.of)
        BY <2>5, <3>3, Zenon DEF WaitTest
      <4>2. cpu'.pc = "run" /\ -m_Counter <= m_Waits.len
        BY <1>0, <3>3, <4>1 DEF Running
      <4>left. (cpu'.pc = "flag" => cpu'.n = m_Index) /\ (~overlapped' => CountLeft)
        BY <2>2, <3>1, <4>2 DEF CountLeft
      <4> QED
        BY <1>5, <2>2, <4>left
    <3> QED
      BY <3>2, <3>3
  <2>6. CASE WaitFlag
    <3>1. cpu.pc = "flag" /\ UNCHANGED <<m_Counter, m_Waits>>
      BY <2>6 DEF WaitFlag, At, semaphoreVars
    <3>2. cpu'.pc = "append"
      BY <1>0, <2>6 DEF WaitFlag, Contexts
    <3>left. (cpu'.pc = "flag" => cpu'.n = m_Index) /\ (~overlapped' => CountLeft)
      BY <1>6, <2>1, <2>2, <3>1, <3>2 DEF CountLeft
    <3> QED
      BY <1>5, <2>2, <3>left
  <2>7. CASE WaitAppend
    <3>1. cpu.pc = "append" /\ m_Counter' = m_Counter /\ m_Waits' = PushBack(m_Waits, m_Index)
          /\ m_Waits.len < MaxWaits
      BY <2>7 DEF WaitAppend, At
    <3>2. m_Waits'.len = m_Waits.len + 1
      BY <1>0, <3>1, PushBackSpec
    <3>3. cpu'.pc = "yield"
      BY <1>0, <2>7 DEF WaitAppend, Contexts
    <3>4. ~overlapped' => -m_Counter' <= m_Waits'.len
      BY <1>6, <2>1, <3>1, <3>2
    <3>left. (cpu'.pc = "flag" => cpu'.n = m_Index) /\ (~overlapped' => CountLeft)
      BY <2>2, <3>3, <3>4 DEF CountLeft
    <3> QED
      BY <1>5, <2>2, <3>left
  <2>8. CASE NotifyTest
    <3>1. cpu.pc = "wakes" /\ UNCHANGED <<m_Counter, m_Waits>>
      BY <2>8 DEF NotifyTest, At, semaphoreVars
    <3>2. ~overlapped' => -m_Counter <= m_Waits.len - 1 /\ -m_Counter <= m_Waits.len
      BY <1>0, <1>6, <2>1, <3>1
    <3>3. CASE m_Counter < 0
      <4>1. cpu' = [cpu EXCEPT !.pc = "index", !.end = 0]
        BY <2>8, <3>3, Zenon DEF NotifyTest
      <4>2. cpu'.pc = "index"
        BY <1>0, <4>1 DEF Contexts
      <4>left. (cpu'.pc = "flag" => cpu'.n = m_Index) /\ (~overlapped' => CountLeft)
        BY <2>2, <3>1, <3>2, <3>3, <4>2 DEF CountLeft
      <4> QED
        BY <1>5, <2>2, <4>left
    <3>4. CASE ~(m_Counter < 0)
      <4>1. cpu' = Running(cpu.of)
        BY <2>8, <3>4, Zenon DEF NotifyTest
      <4>2. cpu'.pc = "run"
        BY <4>1 DEF Running
      <4>left. (cpu'.pc = "flag" => cpu'.n = m_Index) /\ (~overlapped' => CountLeft)
        BY <2>2, <3>1, <3>2, <4>2 DEF CountLeft
      <4> QED
        BY <1>5, <2>2, <4>left
    <3> QED
      BY <3>3, <3>4
  <2>9. CASE NotifyIndex
    <3>1. cpu.pc = "index" /\ UNCHANGED <<m_Counter, m_Waits>>
      BY <2>9 DEF NotifyIndex, At, semaphoreVars
    <3>2. cpu'.pc = "unflag" /\ cpu'.n = Abs(m_Counter)
      BY <1>0, <2>9 DEF NotifyIndex, Contexts
    <3>3. ~overlapped' => /\ m_Counter < 0 /\ -m_Counter <= m_Waits.len - 1
                          /\ -m_Counter <= m_Waits.len /\ -m_Counter < m_Waits.len
      BY <1>0, <1>6, <2>1, <3>1
    <3>4. ~overlapped' => cpu'.n < m_Waits.len
      BY <3>2, <3>3 DEF Abs
    <3>left. (cpu'.pc = "flag" => cpu'.n = m_Index) /\ (~overlapped' => CountLeft)
      BY <2>2, <3>1, <3>2, <3>3, <3>4 DEF CountLeft
    <3> QED
      BY <1>5, <2>2, <3>left
  <2>10. CASE NotifyUnflag
    <3>1. cpu.pc = "unflag" /\ UNCHANGED <<m_Counter, m_Waits>>
      BY <2>10 DEF NotifyUnflag, At, semaphoreVars
    <3>2. cpu'.pc = "run"
      BY <2>10 DEF NotifyUnflag, Running
    <3>left. (cpu'.pc = "flag" => cpu'.n = m_Index) /\ (~overlapped' => CountLeft)
      BY <1>6, <2>1, <2>2, <3>1, <3>2 DEF CountLeft
    <3> QED
      BY <1>5, <2>2, <3>left
  <2> QED
    BY <1>8, <2>3, <2>4, <2>5, <2>6, <2>7, <2>8, <2>9, <2>10 DEF SemaphoreStep
<1> QED
  BY <1>7, <1>8

LEMMA SteadyInductive ==
    ASSUME SteadyInv, [SemaphoreNext]_semVars,
           BootSleeps = FALSE, "sleep" \notin Calls, "return" \notin Calls
    PROVE  SteadyInv'
<1>1. SemaphoreInv'
  BY SemaphoreInductive DEF SteadyInv
<1>2. CASE UNCHANGED semVars
  <2>1. UNCHANGED <<m_Threads, m_Index, m_Id, saved, cpu, m_SuspendedThreads, isr,
                    m_Counter, m_Waits, overlapped>>
    BY <1>2 DEF semVars, vars, semaphoreVars, queueVars, threadVars, sleepVars
  <2>2. Steady'
    BY <2>1, QuietStepSteady DEF SteadyInv, SemaphoreInv, Steady, NobodyLeaves
  <2>3. \A t \in Threads : Registers(t)' = Registers(t)
    BY <2>1 DEF Registers, CurrentThread
  <2>4. CallsInv'
    BY <2>1, <2>3 DEF SteadyInv, CallsInv, ReaderOfIndex, CallerIsOwner, Calling, InCall, Enlisting,
                      CountOk, OneCall, OwnContext
  <2> QED
    BY <1>1, <2>2, <2>4 DEF SteadyInv
<1>3. CASE Next /\ UNCHANGED semaphoreVars
  <2>1. ~Sleep /\ ~ThreadFinish
    BY ThreadsDistinct DEF Sleep, ThreadFinish, MayCall, Threads
  <2> QED
    BY <1>1, <1>3, <2>1, NextKeepsCalls DEF SteadyInv
<1>4. CASE SemaphoreStep
  BY <1>1, <1>4, SemaphoreStepKeepsCalls DEF SteadyInv
<1> QED
  BY <1>2, <1>3, <1>4 DEF SemaphoreNext

(* Type correctness of the scheduler under the semaphore's calls.          *)
THEOREM SemaphoreTypeCorrect == SemaphoreSpec => []TypeOK
<1>1. SemaphoreInit => SemaphoreInv
  BY InitSemaphoreInv
<1>2. SemaphoreInv /\ [SemaphoreNext]_semVars => SemaphoreInv'
  BY SemaphoreInductive
<1>3. SemaphoreInv => TypeOK
  BY IInvImpliesTypeOK DEF SemaphoreInv
<1> QED
  BY <1>1, <1>2, <1>3, PTL DEF SemaphoreSpec

(* The idle thread stays at the front of the queue while threads wait for  *)
(* a semaphore and notify it: there is always a thread to switch to.       *)
THEOREM IdleRunnableWithSemaphore ==
    ASSUME BootSleeps = FALSE
    PROVE  SemaphoreSpec => []IdleAlwaysRunnable
<1>1. SemaphoreInit => SemaphoreInv
  BY InitSemaphoreInv
<1>2. SemaphoreInv /\ [SemaphoreNext]_semVars => SemaphoreInv'
  BY SemaphoreInductive
<1>3. SemaphoreInv /\ BootSleeps = FALSE => IdleAlwaysRunnable
  BY IInvImpliesIdle DEF SemaphoreInv
<1> QED
  BY <1>1, <1>2, <1>3, PTL DEF SemaphoreSpec

(* As long as calls do not overlap, the entry Notify reads is in the list: *)
(* the counter, decremented before a thread is enlisted and incremented    *)
(* before one is looked up, never runs ahead of it.                        *)
THEOREM NotifyStaysInList ==
    ASSUME BootSleeps = FALSE, "sleep" \notin Calls, "return" \notin Calls
    PROVE  SemaphoreSpec => []NotifyInList
<1>1. SemaphoreInit => SteadyInv
  BY InitSteadyInv
<1>2. SteadyInv /\ [SemaphoreNext]_semVars => SteadyInv'
  BY SteadyInductive
<1>3. SteadyInv => NotifyInList
  <2> SUFFICES ASSUME SteadyInv, cpu.pc = "unflag", ~overlapped PROVE cpu.n < m_Waits.len
    BY DEF NotifyInList
  <2>1. CurrentThread \in Threads /\ Registers(CurrentThread) = cpu
    BY IInvImpliesTypeOK DEF SteadyInv, SemaphoreInv, TypeOK, Registers
  <2>2. CountOk(CurrentThread)
    BY <2>1 DEF SteadyInv, CallsInv
  <2> QED
    BY <2>1, <2>2 DEF CountOk
<1> QED
  BY <1>1, <1>2, <1>3, PTL DEF SemaphoreSpec

(* However calls overlap, a thread is marked Waiting and enlisted for a    *)
(* Wait of its own: m_Index, read twice with interrupts on, is the         *)
(* caller's slot both times.                                               *)
THEOREM WaitersAreCallers ==
    ASSUME BootSleeps = FALSE, "sleep" \notin Calls, "return" \notin Calls
    PROVE  SemaphoreSpec => WaitersCalledWait
<1> DEFINE Marks == At("flag") => \A t \in Threads :
                        m_SuspendReason'[t] # m_SuspendReason[t] => OwnContext(t, cpu)
           Enlists == m_Waits'.len > m_Waits.len
                        => OwnContext(m_Threads.mem[m_Waits'.mem[m_Waits.len]], cpu)
<1>1. SemaphoreInit => SteadyInv
  BY InitSteadyInv
<1>2. SteadyInv /\ [SemaphoreNext]_semVars => SteadyInv'
  BY SteadyInductive
<1>3. SteadyInv /\ [SemaphoreNext]_semVars => [Marks /\ Enlists]_semVars
  <2> SUFFICES ASSUME SteadyInv, SemaphoreNext PROVE Marks /\ Enlists
    OBVIOUS
  <2>0. /\ CurrentThread \in Threads /\ Registers(CurrentThread) = cpu
        /\ m_SuspendReason \in [Threads -> {"NotSuspended", "Sleeping", "Waiting"}]
        /\ m_Waits \in VectorOf(Slots, MaxWaits) /\ m_Waits.len \in Nat /\ m_Index \in Slots
    BY IInvImpliesTypeOK DEF SteadyInv, SemaphoreInv, WaitsInv, IInv, Types, TypeOK, Registers, VectorOf
  <2>1. Marks
    <3> SUFFICES ASSUME At("flag"), NEW t \in Threads, m_SuspendReason'[t] # m_SuspendReason[t]
                 PROVE  OwnContext(t, cpu)
      OBVIOUS
    <3>1. cpu.pc = "flag" /\ isr.pc = "none"
      BY DEF At
    <3>2. ~Next
      <4>1. ~ThreadStep
        BY <3>1 DEF ThreadStep, AddThread, AddThreadPush, SetEnabled, Sleep, SuspendErase,
             SuspendPush, YieldThreadTime, ThreadFinish, ThreadFinishErase, ThreadFinishYield,
             LateInitStop, MayCall, At
      <4>2. ~HandlerStep
        BY <3>1 DEF HandlerStep, ScanStay, ScanWake, KeepRunning, Switch, AtThrows, Scanning,
             Scanned, SwitchDue
      <4>3. ~Tick
        BY DEF Tick, threadVars
      <4> QED
        BY <4>1, <4>2, <4>3 DEF Next
    <3>3. WaitFlag
      BY <3>1, <3>2 DEF SemaphoreNext, SemaphoreStep, Wait, TryWait, WaitDecrement, WaitTest,
           WaitAppend, Notify, NotifyIncrement, NotifyTest, NotifyIndex, NotifyUnflag, MayCall, At
    <3>4. t = m_Threads.mem[cpu.n]
      BY <2>0, <3>3 DEF WaitFlag
    <3>5. ReaderOfIndex(CurrentThread)
      BY <2>0 DEF SteadyInv, CallsInv
    <3> QED
      BY <2>0, <3>1, <3>4, <3>5 DEF ReaderOfIndex
  <2>2. Enlists
    <3> SUFFICES ASSUME m_Waits'.len > m_Waits.len
                 PROVE  OwnContext(m_Threads.mem[m_Waits'.mem[m_Waits.len]], cpu)
      OBVIOUS
    <3>1. m_Waits' # m_Waits
      BY <2>0
    <3>2. WaitAppend
      BY <3>1 DEF SemaphoreNext, SemaphoreStep, Wait, TryWait, WaitDecrement, WaitTest, WaitFlag,
           Notify, NotifyIncrement, NotifyTest, NotifyIndex, NotifyUnflag, Begin, Store, semaphoreVars
    <3>3. m_Waits'.mem[m_Waits.len] = m_Index
      BY <2>0, <3>2, PushBackSpec, SemaphoreBounds DEF WaitAppend
    <3>4. OwnContext(CurrentThread, cpu)
      BY DEF SteadyInv, Steady, ContextsOwned
    <3> QED
      BY <3>3, <3>4 DEF CurrentThread
  <2> QED
    BY <2>1, <2>2
<1> QED
  BY <1>1, <1>2, <1>3, PTL DEF SemaphoreSpec, WaitersCalledWait
=============================================================================
