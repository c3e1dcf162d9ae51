-------------------------- MODULE SchedulerProofs ---------------------------
(***************************************************************************)
(* TypeOK is an invariant of the scheduler for every number of threads,    *)
(* every quantum, every set of sleep times and every bound, and so is      *)
(* IdleAlwaysRunnable, provided no AML sleeps before SetEnabled.           *)
(*                                                                         *)
(* IdleAlwaysRunnable is not inductive: nothing in it says that a call in  *)
(* progress does not hold Idle in a local variable, or that what runs      *)
(* while m_Index is 0 makes no calls.  IInv adds that: every context that  *)
(* can run while m_Index is 0 is halted once the scheduler is enabled, so  *)
(* GetCurrentThread never returns Idle to a caller, so Idle never reaches  *)
(* a local variable, the suspended list or an erase.  What it says of Idle *)
(* it says for BootSleeps = FALSE only; the rest holds without.            *)
(***************************************************************************)
EXTENDS SchedulerProps, VectorTheorems

Slots == 0 .. Cap - 1

Types ==
    /\ m_Enabled \in BOOLEAN
    /\ m_Threads \in VectorOf(Threads \cup {NoThread}, Cap)
    /\ m_SuspendedThreads \in VectorOf(Infos, Cap)
    /\ m_ThreadCount \in Nat
    /\ m_Quantum \in 0 .. Quantum
    /\ m_Index \in Slots
    /\ m_Id \in [Threads -> Nat]
    /\ m_SuspendReason \in [Threads -> {"NotSuspended", "Sleeping", "Waiting"}]
    /\ saved \in [Threads -> Contexts]
    /\ info \in [Infos -> [t : Threads \cup {NoThread}, left : 0 .. Forever]]
    /\ cpu \in Contexts
    /\ isr \in [pc : {"none", "scan"}, i : 0 .. Cap, end : 0 .. Cap,
                before : [Infos -> 0 .. Forever]]
    /\ isr.i <= isr.end
    /\ halted \in BOOLEAN

(* The threads that may be taken out of the queue.                         *)
Removable == {t \in Threads : BootSleeps = FALSE => t # Idle}

(* Every slot in the queue, and every slot up to m_Index, holds a thread;  *)
(* Idle is in slot 0 and in no other.                                      *)
QueueInv ==
    /\ \A i \in Slots : i < m_Threads.len \/ i <= m_Index => m_Threads.mem[i] \in Threads
    /\ BootSleeps = FALSE => /\ m_Threads.len >= 1
                             /\ m_Threads.mem[0] = Idle
                             /\ \A i \in Slots : i >= 1 => m_Threads.mem[i] # Idle

(* The suspended entries are of removable threads, and there is room in    *)
(* the queue for all of them.                                              *)
SuspendedInv ==
    /\ m_Threads.len + m_SuspendedThreads.len <= Cap
    /\ \A j \in SleepingInfos : info[j].t \in Removable

(* A call in progress holds a removable thread.                            *)
CallOk(c) ==
    /\ c.pc = "add" => c.t \in Workers
    /\ c.pc \in {"erase", "suspend", "retire"} => c.t \in Removable

ContextInv ==
    /\ CallOk(cpu)
    /\ \A t \in Threads : CallOk(saved[t])

(* Before SetEnabled the boot context runs, and adds threads only; after   *)
(* it, whatever runs in the place of Idle is halted.                       *)
BootInv == BootSleeps = FALSE =>
    /\ saved[Idle].pc = "halt"
    /\ \A t \in Threads : saved[t].of = Boot => saved[t].pc = "halt"
    /\ ~m_Enabled => /\ m_Index = 0
                     /\ isr.pc = "none"
                     /\ cpu.of = Boot
                     /\ cpu.pc \in {"run", "add"}
    /\ m_Enabled => /\ m_Index = 0 => cpu.pc = "halt"
                    /\ cpu.of = Boot => cpu.pc = "halt"

IInv == Types /\ QueueInv /\ SuspendedInv /\ ContextInv /\ BootInv

-----------------------------------------------------------------------------
LEMMA IInvImpliesTypeOK == IInv => TypeOK
<1> SUFFICES ASSUME IInv PROVE TypeOK
  OBVIOUS
<1>1. m_Index \in Slots /\ m_Index <= m_Index
  BY DEF IInv, Types, Slots
<1>2. CurrentThread \in Threads
  BY <1>1 DEF IInv, QueueInv, CurrentThread
<1> QED
  BY <1>2 DEF IInv, Types, TypeOK, Slots

LEMMA IInvImpliesIdle == IInv /\ BootSleeps = FALSE => IdleAlwaysRunnable
<1> SUFFICES ASSUME IInv, BootSleeps = FALSE PROVE IdleAlwaysRunnable
  OBVIOUS
<1>1. \A i \in 1 .. Cap - 1 : i \in Slots /\ i >= 1
  BY BoundsAssumption DEF Slots
<1> QED
  BY <1>1 DEF IInv, QueueInv, SuspendedInv, Removable, IdleAlwaysRunnable

(* Initially.                                                              *)
LEMMA InitIInv == Init => IInv
<1> SUFFICES ASSUME Init PROVE IInv
  OBVIOUS
<1> USE ThreadsDistinct, BoundsAssumption
<1> DEFINE v0 == EmptyVector(NoThread, Cap)
           v1 == PushBack(v0, Idle)
<1>1. v0 \in VectorOf(Threads \cup {NoThread}, Cap) /\ v0.len = 0 /\ v0.len < Cap
  BY DEF EmptyVector, VectorOf
<1>2. /\ v1 \in VectorOf(Threads \cup {NoThread}, Cap)
      /\ v1.len = 1 /\ v1.mem[0] = Idle /\ v1.len < Cap
      /\ \A i \in Slots : i # 0 => v1.mem[i] = NoThread
  BY <1>1, PushBackSpec, SMTT(20) DEF Threads, Slots, EmptyVector
<1>3. /\ m_Threads \in VectorOf(Threads \cup {NoThread}, Cap)
      /\ m_Threads.len = 2 /\ m_Threads.mem[0] = Idle /\ m_Threads.mem[1] = LateInit
      /\ \A i \in Slots : i # 0 /\ i # 1 => m_Threads.mem[i] = NoThread
  BY <1>2, PushBackSpec DEF Threads, Slots, Init
<1>4. /\ m_SuspendedThreads \in VectorOf(Infos, Cap)
      /\ m_SuspendedThreads.len = 0
  BY DEF EmptyVector, VectorOf, Infos, Init
<1>5. Types
  <2>1. \A t \in Threads : Halted(t) \in Contexts /\ Running(t) \in Contexts
    BY DEF Halted, Running, Contexts, Pcs
  <2>2. Running(Boot) \in Contexts
    BY DEF Running, Contexts, Pcs
  <2>3. NoTick \in [pc : {"none", "scan"}, i : 0 .. Cap, end : 0 .. Cap,
                    before : [Infos -> 0 .. Forever]]
    BY DEF NoTick, Forever
  <2>4. info \in [Infos -> [t : Threads \cup {NoThread}, left : 0 .. Forever]]
    BY DEF Init, NoInfo, Forever
  <2>5. /\ m_Id \in [Threads -> Nat]
        /\ m_SuspendReason \in [Threads -> {"NotSuspended", "Sleeping", "Waiting"}]
        /\ saved \in [Threads -> Contexts]
    BY <2>1 DEF Init
  <2>6. m_Index \in Slots /\ m_Quantum \in 0 .. Quantum
    BY DEF Init, Slots
  <2> QED
    <3>1. isr.i <= isr.end
      BY DEF Init, NoTick
    <3> QED
      BY <1>3, <1>4, <2>2, <2>3, <2>4, <2>5, <2>6, <3>1 DEF Init, Types
<1>6. QueueInv
  BY <1>3 DEF QueueInv, Init, Threads, Slots
<1>7. SuspendedInv
  <2>1. Live(m_SuspendedThreads) = {}
    BY <1>4 DEF Live
  <2>2. SleepingInfos = {}
    BY <2>1 DEF SleepingInfos, Elements
  <2>3. m_Threads.len + m_SuspendedThreads.len <= Cap
    BY <1>3, <1>4
  <2> QED
    BY <2>2, <2>3 DEF SuspendedInv
<1>8. ContextInv
  BY DEF ContextInv, CallOk, Init, Running, Halted
<1>9. BootInv
  BY DEF BootInv, Init, Running, Halted, NoTick, Threads
<1> QED
  BY <1>5, <1>6, <1>7, <1>8, <1>9 DEF IInv

-----------------------------------------------------------------------------
(* What the steps of the proof below share.                                *)

(* Outside the boot code, whoever calls the scheduler is not in Idle's     *)
(* place: GetCurrentThread() returns another thread.                       *)
LEMMA CallerIsRemovable ==
    ASSUME IInv, cpu.pc = "run", cpu.of = Boot => BootSleeps
    PROVE  CurrentThread \in Removable
<1>1. m_Index \in Slots /\ m_Index <= m_Index
  BY DEF IInv, Types, Slots
<1>2. ASSUME BootSleeps = FALSE PROVE m_Index >= 1
  BY <1>2 DEF IInv, Types, BootInv, Slots
<1> QED
  BY <1>1, <1>2 DEF IInv, QueueInv, CurrentThread, Removable

(* Erasing a removable thread keeps the queue in order.                    *)
LEMMA EraseKeepsQueue ==
    ASSUME IInv, NEW t \in Removable,
           m_Threads' = Erase(m_Threads, t), UNCHANGED m_Index
    PROVE  /\ QueueInv'
           /\ m_Threads' \in VectorOf(Threads \cup {NoThread}, Cap)
           /\ m_Threads'.len <= m_Threads.len
<1> USE BoundsAssumption
<1> DEFINE T == Threads \cup {NoThread}
<1>1. m_Threads \in VectorOf(T, Cap) /\ Cap \in Nat
  BY DEF IInv, Types
<1>2. /\ m_Threads' \in VectorOf(T, Cap)
      /\ m_Threads'.len <= m_Threads.len
      /\ \A i \in Live(m_Threads') :
            \E k \in Kept(m_Threads, t) : k >= i /\ m_Threads'.mem[i] = m_Threads.mem[k]
      /\ \A i \in Slots :
            i >= m_Threads'.len => m_Threads'.mem[i] = m_Threads.mem[i]
      /\ m_Threads.len >= 1 /\ m_Threads.mem[0] # t =>
            m_Threads'.len >= 1 /\ m_Threads'.mem[0] = m_Threads.mem[0]
  BY <1>1, EraseSpec DEF Slots
<1>3. m_Threads'.len \in Nat /\ m_Threads.len \in 0 .. Cap
  BY <1>1, <1>2 DEF VectorOf
<1>4. BootSleeps = FALSE => m_Threads'.len >= 1 /\ m_Threads'.mem[0] = Idle
  BY <1>2 DEF IInv, QueueInv, Removable
<1>5. ASSUME NEW i \in Slots, i < m_Threads'.len
      PROVE  /\ m_Threads'.mem[i] \in Threads
             /\ BootSleeps = FALSE /\ i >= 1 => m_Threads'.mem[i] # Idle
  <2>1. i \in Live(m_Threads')
    BY <1>3, <1>5 DEF Live, Slots
  <2>2. PICK k \in Kept(m_Threads, t) : k >= i /\ m_Threads'.mem[i] = m_Threads.mem[k]
    BY <1>2, <2>1
  <2>3. k \in Slots /\ k < m_Threads.len
    BY <1>3 DEF Kept, Live, Slots
  <2>4. i >= 1 => k >= 1
    BY <2>2, <2>3 DEF Slots
  <2> QED
    BY <2>2, <2>3, <2>4 DEF IInv, QueueInv
<1>6. ASSUME NEW i \in Slots, ~(i < m_Threads'.len)
      PROVE  m_Threads'.mem[i] = m_Threads.mem[i]
  BY <1>2, <1>3, <1>6 DEF Slots
<1>7. \A i \in Slots : i < m_Threads'.len \/ i <= m_Index' => m_Threads'.mem[i] \in Threads
  BY <1>5, <1>6 DEF IInv, QueueInv
<1>8. BootSleeps = FALSE => \A i \in Slots : i >= 1 => m_Threads'.mem[i] # Idle
  BY <1>5, <1>6 DEF IInv, QueueInv
<1> QED
  BY <1>2, <1>4, <1>7, <1>8 DEF QueueInv

(* So does appending one.                                                  *)
LEMMA PushKeepsQueue ==
    ASSUME IInv, NEW t \in Removable, m_Threads.len < Cap,
           m_Threads' = PushBack(m_Threads, t), UNCHANGED m_Index
    PROVE  /\ QueueInv'
           /\ m_Threads' \in VectorOf(Threads \cup {NoThread}, Cap)
           /\ m_Threads'.len = m_Threads.len + 1
<1> USE BoundsAssumption
<1> DEFINE T == Threads \cup {NoThread}
<1>1. m_Threads \in VectorOf(T, Cap) /\ Cap \in Nat /\ t \in T
  BY DEF IInv, Types, Removable
<1>2. /\ m_Threads' \in VectorOf(T, Cap)
      /\ m_Threads'.len = m_Threads.len + 1
      /\ m_Threads'.mem[m_Threads.len] = t
      /\ \A i \in Slots : i # m_Threads.len => m_Threads'.mem[i] = m_Threads.mem[i]
  BY <1>1, PushBackSpec DEF Slots
<1>3. m_Threads.len \in Nat /\ (BootSleeps = FALSE => m_Threads.len >= 1)
  BY <1>1 DEF VectorOf, IInv, QueueInv
<1>4. \A i \in Slots : i < m_Threads'.len => i < m_Threads.len \/ i = m_Threads.len
  BY <1>2, <1>3 DEF Slots
<1>5. 0 \in Slots /\ (BootSleeps = FALSE => 0 # m_Threads.len)
  BY <1>3 DEF Slots
<1> QED
  BY <1>2, <1>3, <1>4, <1>5 DEF IInv, QueueInv, Removable

(* A step that leaves the queue, the suspended list and m_Index alone      *)
(* leaves what is said of them true.                                       *)
LEMMA SameQueue ==
    ASSUME IInv, UNCHANGED <<m_Threads, m_Index, m_SuspendedThreads, info>>
    PROVE  QueueInv' /\ SuspendedInv'
BY DEF IInv, QueueInv, SuspendedInv, SleepingInfos

LEMMA SameSuspended ==
    ASSUME IInv, UNCHANGED <<m_SuspendedThreads, info>>,
           m_Threads'.len + m_SuspendedThreads'.len <= Cap
    PROVE  SuspendedInv'
BY DEF IInv, SuspendedInv, SleepingInfos

-----------------------------------------------------------------------------
(* No call of a thread or of the boot code breaks the invariant.           *)
LEMMA ThreadStepIInv ==
    ASSUME IInv, ThreadStep
    PROVE  IInv'
<1> USE ThreadsDistinct, BoundsAssumption
<1>0. /\ Types /\ QueueInv /\ SuspendedInv /\ ContextInv /\ BootInv
      /\ cpu \in Contexts /\ cpu.of \in Threads \cup {Boot}
      /\ m_Threads.len \in Nat /\ m_SuspendedThreads.len \in Nat
  <2>1. /\ Types /\ QueueInv /\ SuspendedInv /\ ContextInv /\ BootInv
        /\ cpu \in Contexts
    BY DEF IInv, Types
  <2>2. cpu.of \in Threads \cup {Boot}
    BY <2>1 DEF Contexts
  <2>3. m_Threads.len \in Nat /\ m_SuspendedThreads.len \in Nat
    BY <2>1 DEF Types, VectorOf
  <2> QED
    BY <2>1, <2>2, <2>3
<1>1. CASE AddThread
  <2>1. PICK t \in Unborn : cpu' = [cpu EXCEPT !.pc = "add", !.t = t, !.n = m_ThreadCount]
    BY <1>1 DEF AddThread
  <2>2. t \in Workers /\ m_ThreadCount \in Nat
    BY <1>0 DEF Unborn, Types
  <2>3. cpu' \in Contexts /\ cpu'.pc = "add" /\ cpu'.t = t /\ cpu'.of = cpu.of
    BY <1>0, <2>1, <2>2 DEF Contexts, Pcs, Threads
  <2>4. Types'
    BY <1>0, <1>1, <2>3 DEF AddThread, Types, queueVars, threadVars, sleepVars, Infos
  <2>5. QueueInv' /\ SuspendedInv'
    BY <1>1, SameQueue DEF AddThread, queueVars, sleepVars
  <2>6. ContextInv'
    BY <1>0, <1>1, <2>2, <2>3 DEF AddThread, ContextInv, CallOk, threadVars
  <2>7. cpu.pc = "run"
    BY <1>1 DEF AddThread, MayCall, At
  <2>8. BootInv'
    BY <1>0, <1>1, <2>3, <2>7 DEF AddThread, BootInv, queueVars, threadVars
  <2> QED
    BY <2>4, <2>5, <2>6, <2>8 DEF IInv
<1>2. CASE AddThreadPush
  <2>1. /\ cpu.pc = "add" /\ cpu.t \in Removable /\ cpu.n \in Nat
        /\ m_Threads.len + m_SuspendedThreads.len < Cap
    BY <1>0, <1>2 DEF AddThreadPush, At, Room, ContextInv, CallOk, Contexts, Threads, Removable
  <2>2. m_Threads.len < Cap
    BY <1>0, <2>1
  <2>3. /\ QueueInv'
        /\ m_Threads' \in VectorOf(Threads \cup {NoThread}, Cap)
        /\ m_Threads'.len = m_Threads.len + 1
    BY <1>2, <2>1, <2>2, PushKeepsQueue DEF AddThreadPush
  <2>4. cpu' \in Contexts /\ cpu'.pc = "run" /\ cpu'.of = cpu.of
    BY <1>0, <1>2 DEF AddThreadPush, Running, Contexts, Pcs
  <2>5. m_ThreadCount' \in Nat /\ m_Id' \in [Threads -> Nat]
    BY <1>0, <1>2, <2>1 DEF AddThreadPush, Types, Removable
  <2>6. Types'
    BY <1>0, <1>2, <2>3, <2>4, <2>5 DEF AddThreadPush, Types, sleepVars, Infos
  <2>7. SuspendedInv'
    <3>1. m_Threads'.len + m_SuspendedThreads'.len <= Cap
      BY <1>0, <1>2, <2>1, <2>3 DEF AddThreadPush, sleepVars
    <3> QED
      BY <1>2, <3>1, SameSuspended DEF AddThreadPush, sleepVars
  <2>8. ContextInv'
    BY <1>0, <1>2, <2>4 DEF AddThreadPush, ContextInv, CallOk
  <2>9. BootInv'
    BY <1>0, <1>2, <2>1, <2>4 DEF AddThreadPush, BootInv
  <2> QED
    BY <2>3, <2>6, <2>7, <2>8, <2>9 DEF IInv
<1>3. CASE SetEnabled
  <2>1. cpu' \in Contexts /\ cpu'.pc = "halt"
    BY <1>3 DEF SetEnabled, Halted, Running, Contexts, Pcs
  <2>2. Types'
    BY <1>0, <1>3, <2>1 DEF SetEnabled, Types, queueVars, threadVars, sleepVars, Infos
  <2>3. QueueInv' /\ SuspendedInv'
    BY <1>3, SameQueue DEF SetEnabled, queueVars, sleepVars
  <2>4. ContextInv'
    BY <1>0, <1>3, <2>1 DEF SetEnabled, ContextInv, CallOk, threadVars
  <2>5. BootInv'
    BY <1>0, <1>3, <2>1 DEF SetEnabled, BootInv, threadVars
  <2> QED
    BY <2>2, <2>3, <2>4, <2>5 DEF IInv
<1>4. CASE Sleep
  <2>1. cpu.pc = "run" /\ (cpu.of = Boot => BootSleeps)
    BY <1>4 DEF Sleep, MayCall, At
  <2>2. CurrentThread \in Removable /\ CurrentThread \in Threads
    BY <2>1, CallerIsRemovable DEF Removable
  <2>3. /\ cpu' \in Contexts /\ cpu'.pc = "erase" /\ cpu'.of = cpu.of
        /\ cpu'.t = CurrentThread
    BY <1>0, <1>4, <2>2 DEF Sleep, Contexts, Pcs
  <2>4. m_SuspendReason' \in [Threads -> {"NotSuspended", "Sleeping", "Waiting"}]
    BY <1>0, <1>4 DEF Sleep, Types
  <2>5. Types'
    BY <1>0, <1>4, <2>3, <2>4 DEF Sleep, Types, queueVars, sleepVars, Infos
  <2>6. QueueInv' /\ SuspendedInv'
    BY <1>4, SameQueue DEF Sleep, queueVars, sleepVars
  <2>7. ContextInv'
    BY <1>0, <1>4, <2>2, <2>3 DEF Sleep, ContextInv, CallOk
  <2>8. BootInv'
    BY <1>0, <1>4, <2>1, <2>3 DEF Sleep, BootInv, queueVars
  <2> QED
    BY <2>5, <2>6, <2>7, <2>8 DEF IInv
<1>5. CASE SuspendErase
  <2>1. cpu.pc = "erase" /\ cpu.t \in Removable
    BY <1>0, <1>5 DEF SuspendErase, At, ContextInv, CallOk
  <2>2. /\ QueueInv'
        /\ m_Threads' \in VectorOf(Threads \cup {NoThread}, Cap)
        /\ m_Threads'.len <= m_Threads.len
    BY <1>5, <2>1, EraseKeepsQueue DEF SuspendErase
  <2>3. cpu' \in Contexts /\ cpu'.pc = "suspend" /\ cpu'.of = cpu.of /\ cpu'.t = cpu.t
    BY <1>0, <1>5 DEF SuspendErase, Contexts, Pcs
  <2>4. Types'
    BY <1>0, <1>5, <2>2, <2>3 DEF SuspendErase, Types, threadVars, sleepVars, Infos
  <2>5. SuspendedInv'
    <3>1. m_Threads'.len + m_SuspendedThreads'.len <= Cap
      BY <1>0, <1>5, <2>2 DEF SuspendErase, sleepVars, SuspendedInv, VectorOf
    <3> QED
      BY <1>5, <3>1, SameSuspended DEF SuspendErase, sleepVars
  <2>6. ContextInv'
    BY <1>0, <1>5, <2>1, <2>3 DEF SuspendErase, ContextInv, CallOk, threadVars
  <2>7. BootInv'
    BY <1>0, <1>5, <2>1, <2>3 DEF SuspendErase, BootInv, threadVars
  <2> QED
    BY <2>2, <2>4, <2>5, <2>6, <2>7 DEF IInv
<1>6. CASE SuspendPush
  <2> DEFINE j == First(Infos \ SleepingInfos)
             T == Threads \cup {NoThread}
  <2>1. /\ cpu.pc = "suspend" /\ cpu.t \in Removable
        /\ m_Threads.len + m_SuspendedThreads.len < Cap
    BY <1>0, <1>6 DEF SuspendPush, At, Room, ContextInv, CallOk
  <2>2. PICK ticks \in 0 .. MaxLeft :
          /\ info' = [info EXCEPT ![j] = [t |-> cpu.t, left |-> ticks]]
          /\ m_SuspendedThreads' = PushBack(m_SuspendedThreads, j)
    <3>1. (IF cpu.n = 0 THEN {0} ELSE SleepTimes) \subseteq 0 .. MaxLeft
      OBVIOUS
    <3>2. \E ticks \in (IF cpu.n = 0 THEN {0} ELSE SleepTimes) :
            /\ info' = [info EXCEPT ![j] = [t |-> cpu.t, left |-> ticks]]
            /\ m_SuspendedThreads' = PushBack(m_SuspendedThreads, j)
      BY <1>6 DEF SuspendPush
    <3> QED
      BY <3>1, <3>2
  <2>3. j \in Infos \ SleepingInfos
    <3>1. IsFiniteSet(Infos) /\ Cardinality(Infos) = Cap /\ Cap \in Nat
      BY CountFromZero DEF Infos
    <3>2. m_SuspendedThreads \in VectorOf(Infos, Cap)
      BY <1>0 DEF Types
    <3>3. m_SuspendedThreads.len < Cap
      BY <1>0, <2>1
    <3>4. Infos \ SleepingInfos # {}
      BY <3>1, <3>2, <3>3, SomethingIsLeft DEF SleepingInfos
    <3>5. Infos \ SleepingInfos \in SUBSET (0 .. Cap - 1)
      BY DEF Infos
    <3> QED
      BY <3>1, <3>4, <3>5, FirstIsFirst
  <2> HIDE DEF j
  <2>4. /\ m_SuspendedThreads' \in VectorOf(Infos, Cap)
        /\ m_SuspendedThreads'.len = m_SuspendedThreads.len + 1
        /\ m_SuspendedThreads'.mem[m_SuspendedThreads.len] = j
        /\ \A i \in 0 .. Cap - 1 : i # m_SuspendedThreads.len =>
              m_SuspendedThreads'.mem[i] = m_SuspendedThreads.mem[i]
    <3>1. m_SuspendedThreads \in VectorOf(Infos, Cap) /\ j \in Infos
      BY <1>0, <2>3 DEF Types
    <3>2. m_SuspendedThreads.len < Cap /\ Cap \in Nat
      BY <1>0, <2>1
    <3> QED
      BY <2>2, <3>1, <3>2, PushBackSpec
  <2>5. info' \in [Infos -> [t : T, left : 0 .. Forever]]
    <3>1. [t |-> cpu.t, left |-> ticks] \in [t : T, left : 0 .. Forever]
      BY <2>1 DEF Forever, Removable
    <3> QED
      BY <1>0, <2>2, <2>3, <3>1 DEF Types
  <2>6. cpu' \in Contexts /\ cpu'.pc = "yield" /\ cpu'.of = cpu.of
    BY <1>0, <1>6 DEF SuspendPush, Contexts, Pcs
  <2>7. Types'
    BY <1>0, <1>6, <2>4, <2>5, <2>6 DEF SuspendPush, Types, queueVars, threadVars, Infos
  <2>8. QueueInv'
    BY <1>0, <1>6 DEF SuspendPush, QueueInv, queueVars
  <2>9. SuspendedInv'
    <3>1. m_Threads'.len + m_SuspendedThreads'.len <= Cap
      BY <1>0, <1>6, <2>1, <2>4 DEF SuspendPush, queueVars
    <3>2. ASSUME NEW i \in Live(m_SuspendedThreads')
          PROVE  info'[m_SuspendedThreads'.mem[i]].t \in Removable
      <4>1. CASE i = m_SuspendedThreads.len
        <5>1. info'[j].t = cpu.t
          BY <1>0, <2>2, <2>3 DEF Types
        <5> QED
          BY <2>1, <2>4, <4>1, <5>1
      <4>2. CASE i # m_SuspendedThreads.len
        <5>1. i \in Live(m_SuspendedThreads) /\ i \in 0 .. Cap - 1
          BY <1>0, <2>1, <2>4, <3>2, <4>2 DEF Live
        <5>2. m_SuspendedThreads.mem[i] \in SleepingInfos
          BY <5>1 DEF SleepingInfos, Elements
        <5>3. m_SuspendedThreads.mem[i] # j /\ m_SuspendedThreads.mem[i] \in Infos
          BY <1>0, <2>3, <5>1, <5>2 DEF Types, VectorOf
        <5>4. info'[m_SuspendedThreads.mem[i]] = info[m_SuspendedThreads.mem[i]]
          BY <1>0, <2>2, <5>3 DEF Types
        <5> QED
          BY <1>0, <2>4, <4>2, <5>1, <5>2, <5>4 DEF SuspendedInv
      <4> QED
        BY <4>1, <4>2
    <3> QED
      BY <3>1, <3>2 DEF SuspendedInv, SleepingInfos, Elements
  <2>10. ContextInv'
    BY <1>0, <1>6, <2>6 DEF SuspendPush, ContextInv, CallOk, threadVars
  <2>11. BootInv'
    BY <1>0, <1>6, <2>1, <2>6 DEF SuspendPush, BootInv, queueVars, threadVars
  <2> QED
    BY <2>7, <2>8, <2>9, <2>10, <2>11 DEF IInv
<1>7. CASE YieldThreadTime
  <2>1. cpu' \in Contexts /\ cpu'.pc = "run" /\ cpu'.of = cpu.of /\ cpu.pc = "yield"
    BY <1>0, <1>7 DEF YieldThreadTime, At, Running, Contexts, Pcs
  <2>2. Types'
    <3>1. m_Quantum' \in 0 .. Quantum
      BY <1>7 DEF YieldThreadTime
    <3>2. UNCHANGED <<m_Enabled, m_Threads, m_ThreadCount, m_Index, m_Id, m_SuspendReason, saved,
                      m_SuspendedThreads, info, isr, halted>>
      BY <1>7 DEF YieldThreadTime, queueVars, threadVars, sleepVars
    <3> QED
      BY <1>0, <2>1, <3>1, <3>2 DEF Types
  <2>3. QueueInv' /\ SuspendedInv'
    BY <1>7, SameQueue DEF YieldThreadTime, queueVars, sleepVars
  <2>4. ContextInv'
    BY <1>0, <1>7, <2>1 DEF YieldThreadTime, ContextInv, CallOk, threadVars
  <2>5. BootInv'
    BY <1>0, <1>7, <2>1 DEF YieldThreadTime, BootInv, queueVars, threadVars
  <2> QED
    BY <2>2, <2>3, <2>4, <2>5 DEF IInv
<1>8. CASE ThreadFinish
  <2>1. cpu.pc = "run" /\ cpu.of # Boot
    BY <1>8 DEF ThreadFinish, MayCall, At, Threads
  <2>2. CurrentThread \in Removable /\ CurrentThread \in Threads
    BY <2>1, CallerIsRemovable DEF Removable
  <2>3. /\ cpu' \in Contexts /\ cpu'.pc = "retire" /\ cpu'.of = cpu.of
        /\ cpu'.t = CurrentThread
    BY <1>0, <1>8, <2>2 DEF ThreadFinish, Contexts, Pcs
  <2>4. Types'
    BY <1>0, <1>8, <2>3 DEF ThreadFinish, Types, queueVars, threadVars, sleepVars, Infos
  <2>5. QueueInv' /\ SuspendedInv'
    BY <1>8, SameQueue DEF ThreadFinish, queueVars, sleepVars
  <2>6. ContextInv'
    BY <1>0, <1>8, <2>2, <2>3 DEF ThreadFinish, ContextInv, CallOk, threadVars
  <2>7. BootInv'
    BY <1>0, <1>8, <2>1, <2>3 DEF ThreadFinish, BootInv, queueVars, threadVars
  <2> QED
    BY <2>4, <2>5, <2>6, <2>7 DEF IInv
<1>9. CASE ThreadFinishErase
  <2>1. cpu.pc = "retire" /\ cpu.t \in Removable
    BY <1>0, <1>9 DEF ThreadFinishErase, At, ContextInv, CallOk
  <2>2. /\ QueueInv'
        /\ m_Threads' \in VectorOf(Threads \cup {NoThread}, Cap)
        /\ m_Threads'.len <= m_Threads.len
    BY <1>9, <2>1, EraseKeepsQueue DEF ThreadFinishErase
  <2>3. cpu' \in Contexts /\ cpu'.pc = "leave" /\ cpu'.of = cpu.of
    BY <1>0, <1>9 DEF ThreadFinishErase, Contexts, Pcs
  <2>4. Types'
    BY <1>0, <1>9, <2>2, <2>3 DEF ThreadFinishErase, Types, threadVars, sleepVars, Infos
  <2>5. SuspendedInv'
    <3>1. m_Threads'.len + m_SuspendedThreads'.len <= Cap
      BY <1>0, <1>9, <2>2 DEF ThreadFinishErase, sleepVars, SuspendedInv, VectorOf
    <3> QED
      BY <1>9, <3>1, SameSuspended DEF ThreadFinishErase, sleepVars
  <2>6. ContextInv'
    BY <1>0, <1>9, <2>3 DEF ThreadFinishErase, ContextInv, CallOk, threadVars
  <2>7. BootInv'
    BY <1>0, <1>9, <2>1, <2>3 DEF ThreadFinishErase, BootInv, threadVars
  <2> QED
    BY <2>2, <2>4, <2>5, <2>6, <2>7 DEF IInv
<1>10. CASE ThreadFinishYield
  <2>1. /\ cpu' \in Contexts /\ cpu'.pc = "halt" /\ cpu'.of = cpu.of /\ cpu.pc = "leave"
    BY <1>0, <1>10 DEF ThreadFinishYield, At, Halted, Running, Contexts, Pcs
  <2>2. Types'
    <3>1. m_Quantum' \in 0 .. Quantum
      BY <1>10 DEF ThreadFinishYield
    <3> QED
      BY <1>0, <1>10, <2>1, <3>1 DEF ThreadFinishYield, Types, queueVars, threadVars, sleepVars, Infos
  <2>3. QueueInv' /\ SuspendedInv'
    BY <1>10, SameQueue DEF ThreadFinishYield, queueVars, sleepVars
  <2>4. ContextInv'
    BY <1>0, <1>10, <2>1 DEF ThreadFinishYield, ContextInv, CallOk, threadVars
  <2>5. BootInv'
    BY <1>0, <1>10, <2>1 DEF ThreadFinishYield, BootInv, queueVars, threadVars
  <2> QED
    BY <2>2, <2>3, <2>4, <2>5 DEF IInv
<1>11. CASE LateInitStop
  <2>1. Types'
    BY <1>0, <1>11 DEF LateInitStop, Types, queueVars, threadVars, sleepVars, Infos
  <2>2. QueueInv' /\ SuspendedInv'
    BY <1>11, SameQueue DEF LateInitStop, queueVars, sleepVars
  <2>3. ContextInv' /\ BootInv'
    BY <1>0, <1>11 DEF LateInitStop, ContextInv, CallOk, BootInv, queueVars, threadVars
  <2> QED
    BY <2>1, <2>2, <2>3 DEF IInv
<1> QED
  BY <1>1, <1>2, <1>3, <1>4, <1>5, <1>6, <1>7, <1>8, <1>9, <1>10, <1>11 DEF ThreadStep

-----------------------------------------------------------------------------
(* CountDown keeps RemainingTicks in its range.                            *)
LEMMA CountDownType ==
    ASSUME NEW left \in 0 .. Forever
    PROVE  CountDown(left) \in 0 .. Forever
BY BoundsAssumption DEF CountDown, Forever

(* RemoveSuspendedThread moves one entry's thread to the queue, or does    *)
(* nothing.  The entry leaves, so the queue has room for the thread.       *)
LEMMA RemoveSuspendedKeeps ==
    ASSUME IInv, NEW id, RemoveSuspendedThread(id), UNCHANGED m_Index,
           info' \in [Infos -> [t : Threads \cup {NoThread}, left : 0 .. Forever]],
           \A j \in Infos : info'[j].t = info[j].t
    PROVE  /\ QueueInv' /\ SuspendedInv'
           /\ m_Threads' \in VectorOf(Threads \cup {NoThread}, Cap)
           /\ m_SuspendedThreads' \in VectorOf(Infos, Cap)
<1> USE BoundsAssumption
<1>0. /\ m_Threads \in VectorOf(Threads \cup {NoThread}, Cap)
      /\ m_SuspendedThreads \in VectorOf(Infos, Cap) /\ Cap \in Nat
      /\ m_Threads.len \in Nat /\ m_SuspendedThreads.len \in Nat
      /\ m_SuspendedThreads.len <= Cap
      /\ m_SuspendedThreads.mem \in [Infos -> Infos]
      /\ \A i \in Live(m_SuspendedThreads) :
            i \in Infos /\ m_SuspendedThreads.mem[i] \in SleepingInfos
      /\ SleepingInfos \subseteq Infos
  <2>1. /\ m_Threads \in VectorOf(Threads \cup {NoThread}, Cap)
        /\ m_SuspendedThreads \in VectorOf(Infos, Cap) /\ Cap \in Nat
    BY DEF IInv, Types
  <2>2. /\ m_Threads.len \in Nat /\ m_SuspendedThreads.len \in Nat
        /\ m_SuspendedThreads.len <= Cap
        /\ m_SuspendedThreads.mem \in [Infos -> Infos]
    BY <2>1, VectorParts DEF Infos
  <2>3. \A i \in Live(m_SuspendedThreads) :
           i \in Infos /\ m_SuspendedThreads.mem[i] \in SleepingInfos
    BY <2>1, VectorParts DEF Infos, SleepingInfos
  <2>4. SleepingInfos \subseteq Infos
    BY <2>1, VectorParts DEF SleepingInfos
  <2> QED
    BY <2>1, <2>2, <2>3, <2>4
<1>1. CASE EntriesOf(id) = {}
  <2>1. UNCHANGED <<m_Threads, m_SuspendedThreads>>
    BY <1>1 DEF RemoveSuspendedThread
  <2>2. QueueInv'
    BY <2>1 DEF IInv, QueueInv
  <2>3. SleepingInfos' = SleepingInfos /\ SleepingInfos \subseteq Infos
    BY <1>0, <2>1 DEF SleepingInfos
  <2>4. SuspendedInv'
    BY <2>1, <2>3 DEF IInv, SuspendedInv
  <2> QED
    BY <1>0, <2>1, <2>2, <2>4
<1>2. CASE EntriesOf(id) # {}
  <2> DEFINE p == First(EntriesOf(id))
             j == m_SuspendedThreads.mem[p]
  <2>1. p \in Live(m_SuspendedThreads)
    <3>1. EntriesOf(id) \in SUBSET (0 .. m_SuspendedThreads.len - 1)
      BY DEF EntriesOf, Live
    <3>2. p \in EntriesOf(id)
      BY <1>0, <1>2, <3>1, FirstIsFirst
    <3> QED
      BY <3>2 DEF EntriesOf
  <2>2. /\ m_SuspendedThreads' = Erase(m_SuspendedThreads, j)
        /\ m_Threads' = PushBack(m_Threads, info[j].t)
    BY <1>2 DEF RemoveSuspendedThread
  <2> HIDE DEF p
  <2>3. j \in SleepingInfos /\ j \in Infos
    BY <1>0, <2>1
  <2>4. info[j].t \in Removable
    BY <2>3 DEF IInv, SuspendedInv
  <2>5. /\ m_SuspendedThreads' \in VectorOf(Infos, Cap)
        /\ m_SuspendedThreads'.len < m_SuspendedThreads.len
        /\ \A i \in Live(m_SuspendedThreads') :
              \E k \in Kept(m_SuspendedThreads, j) :
                 k >= i /\ m_SuspendedThreads'.mem[i] = m_SuspendedThreads.mem[k]
    <3>1. \E i \in Live(m_SuspendedThreads) : m_SuspendedThreads.mem[i] = j
      BY <2>1
    <3> QED
      BY <1>0, <2>2, <3>1, EraseSpec
  <2>6. m_SuspendedThreads'.len \in Nat
    BY <2>5 DEF VectorOf
  <2>7. m_Threads.len < Cap /\ m_Threads.len + m_SuspendedThreads.len <= Cap
    BY <1>0, <2>5, <2>6 DEF IInv, SuspendedInv
  <2>8. /\ QueueInv'
        /\ m_Threads' \in VectorOf(Threads \cup {NoThread}, Cap)
        /\ m_Threads'.len = m_Threads.len + 1
    BY <2>2, <2>4, <2>7, PushKeepsQueue
  <2>9. m_Threads'.len + m_SuspendedThreads'.len <= Cap
    BY <1>0, <2>5, <2>6, <2>7, <2>8
  <2>10. ASSUME NEW i \in Live(m_SuspendedThreads')
         PROVE  info'[m_SuspendedThreads'.mem[i]].t \in Removable
    <3>1. PICK k \in Kept(m_SuspendedThreads, j) :
            m_SuspendedThreads'.mem[i] = m_SuspendedThreads.mem[k]
      BY <2>5
    <3>2. /\ m_SuspendedThreads.mem[k] \in SleepingInfos
          /\ m_SuspendedThreads.mem[k] \in Infos
      BY <1>0 DEF Kept
    <3> QED
      BY <3>1, <3>2 DEF IInv, SuspendedInv
  <2>11. ASSUME NEW k \in SleepingInfos'
         PROVE  info'[k].t \in Removable
    <3>1. PICK i \in Live(m_SuspendedThreads') : k = m_SuspendedThreads'.mem[i]
      BY <2>11 DEF SleepingInfos, Elements
    <3> QED
      BY <2>10, <3>1
  <2>12. SuspendedInv'
    BY <2>9, <2>11 DEF SuspendedInv, Removable
  <2>13. m_SuspendedThreads' \in VectorOf(Infos, Cap)
    BY <2>5
  <2> QED
    BY <2>8, <2>12, <2>13, ZenonT(40)
<1> QED
  BY <1>1, <1>2

(* The end of a tick forgets what is not in the suspended list.            *)
LEMMA EndTickKeeps ==
    ASSUME IInv, EndTick, UNCHANGED m_Threads
    PROVE  /\ SuspendedInv'
           /\ m_SuspendedThreads' \in VectorOf(Infos, Cap)
           /\ info' \in [Infos -> [t : Threads \cup {NoThread}, left : 0 .. Forever]]
           /\ isr' = NoTick
           /\ isr' \in [pc : {"none", "scan"}, i : 0 .. Cap, end : 0 .. Cap,
                         before : [Infos -> 0 .. Forever]]
           /\ isr'.i <= isr'.end
           /\ SleepingInfos' = SleepingInfos /\ \A j \in SleepingInfos : info'[j] = info[j]
<1> USE BoundsAssumption
<1>1. /\ m_SuspendedThreads \in VectorOf(Infos, Cap) /\ 0 \in Infos
      /\ info \in [Infos -> [t : Threads \cup {NoThread}, left : 0 .. Forever]]
  BY DEF IInv, Types, Infos
<1> DEFINE v == m_SuspendedThreads
<1>2. /\ v'.len = v.len /\ v' \in VectorOf(Infos, Cap)
      /\ \A i \in Live(v) : v'.mem[i] = v.mem[i]
  <2>1. /\ v.len \in Nat /\ v.len <= Cap /\ v.mem \in [Infos -> Infos]
        /\ \A i \in Live(v) : i \in Infos /\ i < v.len
    BY <1>1, VectorParts DEF Infos
  <2>2. v' = [v EXCEPT !.mem = [i \in Infos |-> IF i < v.len THEN v.mem[i] ELSE 0]]
    BY DEF EndTick
  <2>3. v = [mem |-> v.mem, len |-> v.len]
    BY <1>1 DEF VectorOf
  <2>4. v' = [mem |-> [i \in Infos |-> IF i < v.len THEN v.mem[i] ELSE 0], len |-> v.len]
    BY <2>2, <2>3
  <2>5. [i \in Infos |-> IF i < v.len THEN v.mem[i] ELSE 0] \in [Infos -> Infos]
    BY <1>1, <2>1
  <2>6. v' \in [mem : [Infos -> Infos], len : 0 .. Cap]
    BY <2>1, <2>4, <2>5
  <2> QED
    BY <2>1, <2>4, <2>6 DEF VectorOf, Infos
<1>3. SleepingInfos' = SleepingInfos /\ SleepingInfos \subseteq Infos
  <2>1. SleepingInfos \subseteq Infos
    BY <1>1, VectorParts DEF SleepingInfos
  <2>2. Live(v') = Live(v)
    BY <1>2 DEF Live
  <2>3. {v'.mem[i] : i \in Live(v')} = {v.mem[i] : i \in Live(v)}
    BY <1>2, <2>2
  <2> QED
    BY <2>1, <2>3 DEF SleepingInfos, Elements
<1>4. info' \in [Infos -> [t : Threads \cup {NoThread}, left : 0 .. Forever]]
  BY <1>1 DEF EndTick, NoInfo, Forever
<1>5. \A j \in SleepingInfos : info'[j] = info[j]
  BY <1>1, <1>3 DEF EndTick
<1>6. SuspendedInv'
  BY <1>2, <1>3, <1>5 DEF IInv, SuspendedInv
<1>7. /\ isr' = NoTick
      /\ isr' \in [pc : {"none", "scan"}, i : 0 .. Cap, end : 0 .. Cap,
                    before : [Infos -> 0 .. Forever]]
      /\ isr'.i <= isr'.end
  BY DEF EndTick, NoTick, Forever
<1> QED
  BY <1>2, <1>3, <1>4, <1>5, <1>6, <1>7
-----------------------------------------------------------------------------
IsrTypes == [pc : {"none", "scan"}, i : 0 .. Cap, end : 0 .. Cap,
             before : [Infos -> 0 .. Forever]]

(* The scan moves on by one slot, as long as it has not reached the end.   *)
LEMMA ScanAdvances ==
    ASSUME IInv, Scanning, isr' = [isr EXCEPT !.i = @ + 1]
    PROVE  isr' \in IsrTypes /\ isr'.i <= isr'.end /\ isr'.pc = "scan"
<1>1. /\ isr \in IsrTypes /\ isr.pc = "scan" /\ isr.i < isr.end
      /\ isr.i \in 0 .. Cap /\ isr.end \in 0 .. Cap /\ Cap \in Nat
  BY BoundsAssumption DEF IInv, Types, Scanning, IsrTypes
<1>2. isr.i + 1 \in 0 .. Cap /\ isr.i + 1 <= isr.end
  BY <1>1
<1>3. isr' \in IsrTypes /\ isr'.pc = "scan"
  BY <1>1, <1>2 DEF IsrTypes
<1>4. isr'.i = isr.i + 1 /\ isr'.end = isr.end
  BY <1>1 DEF IsrTypes
<1> QED
  BY <1>2, <1>3, <1>4

(* Setting RemainingTicks leaves the threads of the entries alone.         *)
LEMMA SetLeftKeeps ==
    ASSUME IInv, NEW j, NEW c, j \in Infos => c \in 0 .. Forever,
           info' = [info EXCEPT ![j].left = c]
    PROVE  /\ info' \in [Infos -> [t : Threads \cup {NoThread}, left : 0 .. Forever]]
           /\ \A x \in Infos : info'[x].t = info[x].t
<1> DEFINE R == [t : Threads \cup {NoThread}, left : 0 .. Forever]
<1>1. info \in [Infos -> R]
  BY DEF IInv, Types
<1>2. \A r \in R, k \in 0 .. Forever :
         [r EXCEPT !.left = k] \in R /\ [r EXCEPT !.left = k].t = r.t
  OBVIOUS
<1>3. CASE j \in Infos
  <2>1. [info[j] EXCEPT !.left = c] \in R /\ [info[j] EXCEPT !.left = c].t = info[j].t
    BY <1>1, <1>2, <1>3
  <2>2. info' = [info EXCEPT ![j] = [info[j] EXCEPT !.left = c]]
    OBVIOUS
  <2> HIDE DEF R
  <2>3. info'[j] = [info[j] EXCEPT !.left = c]
    BY <1>1, <1>3, <2>2
  <2>4. \A x \in Infos : x # j => info'[x] = info[x]
    BY <1>1, <2>2
  <2>5. info' \in [Infos -> R]
    BY <1>1, <1>3, <2>1, <2>2
  <2> QED
    BY <2>1, <2>3, <2>4, <2>5 DEF R
<1>4. CASE j \notin Infos
  <2>1. info' = info
    BY <1>1, <1>4
  <2> QED
    BY <1>1, <2>1
<1> QED
  BY <1>3, <1>4

(* No step of the interrupt handler breaks the invariant.                  *)
LEMMA HandlerStepIInv ==
    ASSUME IInv, Tick \/ HandlerStep
    PROVE  IInv'
<1> USE ThreadsDistinct, BoundsAssumption
<1>0. /\ Types /\ QueueInv /\ SuspendedInv /\ ContextInv /\ BootInv
      /\ m_Threads.len \in Nat /\ m_Threads.len <= Cap
      /\ m_SuspendedThreads.len \in 0 .. Cap
      /\ CurrentThread \in Threads
  <2>1. Types /\ QueueInv /\ SuspendedInv /\ ContextInv /\ BootInv
    BY DEF IInv
  <2>2. m_Threads.len \in Nat /\ m_Threads.len <= Cap /\ m_SuspendedThreads.len \in 0 .. Cap
    BY <2>1, VectorParts DEF Types
  <2>3. CurrentThread \in Threads
    BY IInvImpliesTypeOK DEF TypeOK
  <2> QED
    BY <2>1, <2>2, <2>3
<1>1. CASE Tick
  <2>1. /\ isr' \in IsrTypes /\ isr'.i <= isr'.end /\ m_Enabled
    <3>1. [j \in Infos |-> info[j].left] \in [Infos -> 0 .. Forever]
      BY <1>0 DEF Types
    <3>2. isr' = [pc |-> "scan", i |-> 0, end |-> m_SuspendedThreads.len,
                  before |-> [j \in Infos |-> info[j].left]] /\ m_Enabled
      BY <1>1 DEF Tick
    <3>3. isr' \in IsrTypes
      BY <1>0, <3>1, <3>2 DEF IsrTypes
    <3>4. isr'.i = 0 /\ isr'.end = m_SuspendedThreads.len
      BY <3>2
    <3> QED
      BY <1>0, <3>2, <3>3, <3>4
  <2>2. Types'
    BY <1>0, <1>1, <2>1 DEF Tick, Types, IsrTypes, queueVars, threadVars, sleepVars, Infos
  <2>3. QueueInv' /\ SuspendedInv'
    BY <1>1, SameQueue DEF Tick, queueVars, sleepVars
  <2>4. ContextInv' /\ BootInv'
    BY <1>0, <1>1, <2>1 DEF Tick, ContextInv, CallOk, BootInv, queueVars, threadVars
  <2> QED
    BY <2>2, <2>3, <2>4 DEF IInv
<1>3. CASE ScanStay
  <2>1. isr' \in IsrTypes /\ isr'.i <= isr'.end /\ isr'.pc = "scan" /\ isr.pc = "scan"
    BY <1>3, ScanAdvances DEF ScanStay, Scanning
  <2>2. /\ info' \in [Infos -> [t : Threads \cup {NoThread}, left : 0 .. Forever]]
        /\ \A j \in Infos : info'[j].t = info[j].t
    <3> DEFINE c == Counted
    <3>1. info' = [info EXCEPT ![ScannedInfo].left = c]
      BY <1>3 DEF ScanStay
    <3>2. ScannedInfo \in Infos => c \in 0 .. Forever
      BY <1>0, CountDownType DEF Types, Counted
    <3> HIDE DEF c
    <3> QED
      BY <3>1, <3>2, SetLeftKeeps
  <2>3. Types'
    BY <1>0, <1>3, <2>1, <2>2 DEF ScanStay, Types, IsrTypes, queueVars, threadVars, Infos
  <2>4. QueueInv' /\ SleepingInfos' = SleepingInfos /\ SleepingInfos \subseteq Infos
    <3>1. SleepingInfos \subseteq Infos
      BY <1>0, VectorParts DEF Types, SleepingInfos
    <3> QED
      BY <1>0, <1>3, <3>1 DEF ScanStay, QueueInv, queueVars, SleepingInfos
  <2>5. SuspendedInv'
    BY <1>0, <1>3, <2>2, <2>4 DEF ScanStay, SuspendedInv, queueVars
  <2>6. ContextInv' /\ BootInv'
    BY <1>0, <1>3, <2>1 DEF ScanStay, ContextInv, CallOk, BootInv, queueVars, threadVars
  <2> QED
    BY <2>3, <2>4, <2>5, <2>6 DEF IInv
<1>4. CASE ScanWake
  <2>1. isr' \in IsrTypes /\ isr'.i <= isr'.end /\ isr'.pc = "scan" /\ isr.pc = "scan"
    BY <1>4, ScanAdvances DEF ScanWake, Scanning
  <2>2. /\ info' \in [Infos -> [t : Threads \cup {NoThread}, left : 0 .. Forever]]
        /\ \A j \in Infos : info'[j].t = info[j].t
    <3>1. info' = [info EXCEPT ![ScannedInfo].left = 0] /\ 0 \in 0 .. Forever
      BY <1>4 DEF ScanWake, Forever
    <3> QED
      BY <3>1, SetLeftKeeps
  <2>3. /\ QueueInv' /\ SuspendedInv'
        /\ m_Threads' \in VectorOf(Threads \cup {NoThread}, Cap)
        /\ m_SuspendedThreads' \in VectorOf(Infos, Cap)
    BY <1>4, <2>2, RemoveSuspendedKeeps DEF ScanWake
  <2>4. Types'
    BY <1>0, <1>4, <2>1, <2>2, <2>3 DEF ScanWake, Types, IsrTypes, threadVars, Infos
  <2>5. ContextInv' /\ BootInv'
    BY <1>0, <1>4, <2>1 DEF ScanWake, ContextInv, CallOk, BootInv, threadVars
  <2> QED
    BY <2>3, <2>4, <2>5 DEF IInv
<1>5. CASE KeepRunning
  <2>1. /\ SuspendedInv'
        /\ m_SuspendedThreads' \in VectorOf(Infos, Cap)
        /\ info' \in [Infos -> [t : Threads \cup {NoThread}, left : 0 .. Forever]]
        /\ isr' \in IsrTypes /\ isr'.i <= isr'.end /\ isr' = NoTick
    BY <1>5, EndTickKeeps DEF KeepRunning, queueVars, IsrTypes
  <2>2. m_Quantum' \in 0 .. Quantum /\ isr.pc = "scan"
    BY <1>0, <1>5 DEF KeepRunning, Scanned, Types
  <2>3. Types'
    BY <1>0, <1>5, <2>1, <2>2 DEF KeepRunning, Types, IsrTypes, queueVars, threadVars, Infos
  <2>4. QueueInv'
    BY <1>0, <1>5 DEF KeepRunning, QueueInv, queueVars
  <2>5. ContextInv' /\ BootInv'
    BY <1>0, <1>5, <2>1, <2>2 DEF KeepRunning, ContextInv, CallOk, BootInv, queueVars, threadVars, NoTick
  <2> QED
    BY <2>1, <2>3, <2>4, <2>5 DEF IInv
<1>6. CASE Switch
  <2>1. /\ SuspendedInv'
        /\ m_SuspendedThreads' \in VectorOf(Infos, Cap)
        /\ info' \in [Infos -> [t : Threads \cup {NoThread}, left : 0 .. Forever]]
        /\ isr' \in IsrTypes /\ isr'.i <= isr'.end
    BY <1>6, EndTickKeeps DEF Switch, IsrTypes
  <2>2. /\ m_Index' \in Slots /\ m_Index' < m_Threads.len
        /\ NextThread = m_Threads.mem[m_Index'] /\ m_Index \in Slots
    BY <1>0, <1>6 DEF Switch, Wrapped, NextThread, Types, Slots
  <2>3. BootSleeps = FALSE =>
           m_Enabled /\ (m_Index = 0 => cpu.pc = "halt") /\ (cpu.of = Boot => cpu.pc = "halt")
    BY <1>0, <1>6 DEF Switch, SwitchDue, Scanned, BootInv
  <2>4. QueueInv'
    BY <1>0, <1>6, <2>2 DEF Switch, QueueInv, Slots
  <2>5. NextThread \in Threads /\ (BootSleeps = FALSE /\ m_Index' = 0 => NextThread = Idle)
    BY <1>0, <2>2 DEF QueueInv
  <2>6. /\ saved' = [saved EXCEPT ![CurrentThread] = cpu]
        /\ saved' \in [Threads -> Contexts] /\ cpu' = saved'[NextThread] /\ cpu' \in Contexts
    BY <1>0, <1>6, <2>5 DEF Switch, Types
  <2>7. \A t \in Threads : saved'[t] = cpu \/ saved'[t] = saved[t]
    BY <1>0, <2>6 DEF Types
  <2>8. ASSUME BootSleeps = FALSE PROVE saved'[Idle].pc = "halt"
    <3>1. Idle \in Threads
      BY DEF Threads
    <3>2. CASE CurrentThread = Idle
      <4>1. m_Index = 0
        BY <1>0, <2>2, <2>8, <3>2 DEF QueueInv, CurrentThread, Slots
      <4> QED
        BY <2>3, <2>7, <2>8, <3>1, <4>1, <1>0 DEF BootInv
    <3>3. CASE CurrentThread # Idle
      BY <1>0, <2>6, <2>8, <3>1, <3>3 DEF Types, BootInv
    <3> QED
      BY <3>2, <3>3
  <2>9. Types'
    <3>1. m_Quantum' \in 0 .. Quantum /\ m_Quantum' = Quantum
      BY <1>6 DEF Switch
    <3> QED
      BY <1>0, <1>6, <2>1, <2>2, <2>6, <3>1 DEF Switch, Types, IsrTypes, Infos
  <2>10. ContextInv'
    BY <1>0, <2>5, <2>6, <2>7 DEF ContextInv, CallOk
  <2>11. BootInv'
    <3> SUFFICES ASSUME BootSleeps = FALSE PROVE BootInv'
      BY DEF BootInv
    <3>1. \A t \in Threads : saved'[t].of = Boot => saved'[t].pc = "halt"
      BY <1>0, <2>3, <2>7 DEF BootInv
    <3>2. m_Enabled'
      BY <1>6, <2>3 DEF Switch
    <3>3. m_Index' = 0 => cpu'.pc = "halt"
      BY <2>5, <2>6, <2>8
    <3>4. cpu'.of = Boot => cpu'.pc = "halt"
      BY <2>5, <2>6, <3>1
    <3> QED
      BY <2>8, <3>1, <3>2, <3>3, <3>4 DEF BootInv
  <2> QED
    BY <2>1, <2>4, <2>9, <2>10, <2>11 DEF IInv
<1>7. CASE AtThrows
  <2>1. /\ SuspendedInv'
        /\ m_SuspendedThreads' \in VectorOf(Infos, Cap)
        /\ info' \in [Infos -> [t : Threads \cup {NoThread}, left : 0 .. Forever]]
        /\ isr' \in IsrTypes /\ isr'.i <= isr'.end
    BY <1>7, EndTickKeeps DEF AtThrows, IsrTypes
  <2>2. saved' \in [Threads -> Contexts] /\ \A t \in Threads : saved'[t] \in {cpu, saved[t]}
    BY <1>0, <1>7 DEF AtThrows, Types
  <2>3. m_Index' = 0 /\ 0 \in Slots /\ m_Index \in Slots
    BY <1>0, <1>7 DEF AtThrows, Types, Slots
  <2>4. Types'
    BY <1>0, <1>7, <2>1, <2>2, <2>3 DEF AtThrows, Types, IsrTypes, Infos
  <2>5. QueueInv'
    BY <1>0, <1>7, <2>3 DEF AtThrows, QueueInv, Slots
  <2>6. ContextInv'
    BY <1>0, <1>7, <2>2 DEF AtThrows, ContextInv, CallOk
(* When no AML sleeps before SetEnabled the queue is never empty, and      *)
(* at() does not throw.                                                    *)
  <2>7. ASSUME BootSleeps = FALSE PROVE FALSE
    <3>1. Wrapped(m_Index + 1) < m_Threads.len
      BY <1>0, <2>7 DEF Wrapped, QueueInv, Types, Slots
    <3>2. Wrapped(m_Index + 1) >= m_Threads.len
      BY <1>7 DEF AtThrows
    <3>3. Wrapped(m_Index + 1) \in Nat
      BY <1>0 DEF Wrapped, Types, Slots
    <3> QED
      BY <1>0, <3>1, <3>2, <3>3
  <2> QED
    BY <2>1, <2>4, <2>5, <2>6, <2>7 DEF IInv, BootInv
<1> QED
  BY <1>1, <1>3, <1>4, <1>5, <1>6, <1>7 DEF HandlerStep

-----------------------------------------------------------------------------
(* Every behaviour keeps the invariant.                                    *)
LEMMA Inductive ==
    ASSUME IInv, [Next]_vars
    PROVE  IInv'
<1>1. CASE ThreadStep
  BY <1>1, ThreadStepIInv
<1>2. CASE Tick \/ HandlerStep
  BY <1>2, HandlerStepIInv
<1>3. CASE UNCHANGED vars
  <2>1. UNCHANGED <<m_Enabled, m_Threads, m_ThreadCount, m_Index, m_Quantum>>
    BY <1>3 DEF vars, queueVars
  <2>2. UNCHANGED <<m_Id, m_SuspendReason, saved, m_SuspendedThreads, info>>
    BY <1>3 DEF vars, threadVars, sleepVars
  <2>3. UNCHANGED <<cpu, isr, halted>>
    BY <1>3 DEF vars
  <2>4. Types'
    BY <2>1, <2>2, <2>3 DEF IInv, Types, Infos
  <2>5. QueueInv' /\ SuspendedInv'
    BY <2>1, <2>2, SameQueue
  <2>6. ContextInv' /\ BootInv'
    BY <2>1, <2>2, <2>3 DEF IInv, ContextInv, CallOk, BootInv
  <2> QED
    BY <2>4, <2>5, <2>6 DEF IInv
<1> QED
  BY <1>1, <1>2, <1>3 DEF Next

-----------------------------------------------------------------------------
(* What the kernel mutex and semaphore rest on.                            *)

(* A slot of m_Threads that holds a thread goes on holding one, whatever   *)
(* is pushed or erased.                                                    *)
SlotsStay == \A i \in Slots : m_Threads.mem[i] \in Threads => m_Threads'.mem[i] \in Threads

LEMMA EraseSlotsStay ==
    ASSUME IInv, NEW t \in Threads, m_Threads' = Erase(m_Threads, t)
    PROVE  SlotsStay
<1> USE BoundsAssumption
<1>1. m_Threads \in VectorOf(Threads \cup {NoThread}, Cap) /\ Cap \in Nat
  BY DEF IInv, Types
<1>2. /\ m_Threads' \in VectorOf(Threads \cup {NoThread}, Cap)
      /\ \A i \in Live(m_Threads') :
            \E k \in Kept(m_Threads, t) : k >= i /\ m_Threads'.mem[i] = m_Threads.mem[k]
      /\ \A i \in Slots : i >= m_Threads'.len => m_Threads'.mem[i] = m_Threads.mem[i]
  BY <1>1, EraseSpec DEF Slots
<1>3. m_Threads'.len \in Nat /\ m_Threads.len \in 0 .. Cap
  BY <1>1, <1>2 DEF VectorOf
<1>4. ASSUME NEW i \in Slots, i < m_Threads'.len PROVE m_Threads'.mem[i] \in Threads
  <2>1. PICK k \in Kept(m_Threads, t) : m_Threads'.mem[i] = m_Threads.mem[k]
    BY <1>2, <1>3, <1>4 DEF Live, Slots
  <2>2. k \in Slots /\ k < m_Threads.len
    BY <1>3 DEF Kept, Live, Slots
  <2> QED
    BY <2>1, <2>2 DEF IInv, QueueInv
<1>5. \A i \in Slots : i < m_Threads'.len \/ i >= m_Threads'.len
  BY <1>3 DEF Slots
<1> QED
  BY <1>2, <1>4, <1>5 DEF SlotsStay

LEMMA PushSlotsStay ==
    ASSUME IInv, NEW t \in Threads, m_Threads.len < Cap, m_Threads' = PushBack(m_Threads, t)
    PROVE  SlotsStay
<1>1. m_Threads \in VectorOf(Threads \cup {NoThread}, Cap) /\ Cap \in Nat
  BY BoundsAssumption DEF IInv, Types
<1>2. /\ m_Threads'.mem[m_Threads.len] = t
      /\ \A i \in Slots : i # m_Threads.len => m_Threads'.mem[i] = m_Threads.mem[i]
  BY <1>1, PushBackSpec DEF Slots
<1> QED
  BY <1>2 DEF SlotsStay

LEMMA RemoveSuspendedSlotsStay ==
    ASSUME IInv, NEW id, RemoveSuspendedThread(id)
    PROVE  SlotsStay
<1> USE BoundsAssumption
<1>1. CASE EntriesOf(id) = {}
  BY <1>1 DEF RemoveSuspendedThread, SlotsStay
<1>2. CASE EntriesOf(id) # {}
  <2> DEFINE p == First(EntriesOf(id))
             j == m_SuspendedThreads.mem[p]
  <2>1. /\ m_SuspendedThreads \in VectorOf(Infos, Cap) /\ Cap \in Nat
        /\ m_Threads \in VectorOf(Threads \cup {NoThread}, Cap)
    BY DEF IInv, Types
  <2>2. m_SuspendedThreads.len \in Nat /\ m_Threads.len \in Nat
    BY <2>1 DEF VectorOf
  <2>3. EntriesOf(id) \in SUBSET (0 .. m_SuspendedThreads.len - 1)
    BY DEF EntriesOf, Live
  <2>4. p \in EntriesOf(id)
    BY <1>2, <2>2, <2>3, FirstIsFirst
  <2>5. p \in Live(m_SuspendedThreads)
    BY <2>4 DEF EntriesOf
  <2>6. m_Threads' = PushBack(m_Threads, info[j].t)
    BY <1>2 DEF RemoveSuspendedThread
  <2> HIDE DEF p
  <2>7. info[j].t \in Threads
    BY <2>5 DEF IInv, SuspendedInv, SleepingInfos, Elements, Removable
  <2>8. m_Threads.len < Cap
    <3>1. m_SuspendedThreads.len >= 1
      BY <2>2, <2>5 DEF Live
    <3> QED
      BY <2>1, <2>2, <3>1 DEF IInv, SuspendedInv
  <2> QED
    BY <2>6, <2>7, <2>8, PushSlotsStay
<1> QED
  BY <1>1, <1>2

(* No step of the scheduler itself empties a slot.                         *)
LEMMA NextSlotsStay ==
    ASSUME IInv, Next
    PROVE  SlotsStay
<1>1. CASE AddThreadPush
  <2>1. cpu.t \in Threads
    BY <1>1 DEF AddThreadPush, At, IInv, ContextInv, CallOk, Threads
  <2>2. m_Threads.len < Cap
    BY <1>1, BoundsAssumption DEF AddThreadPush, Room, IInv, Types, VectorOf
  <2> QED
    BY <1>1, <2>1, <2>2, PushSlotsStay DEF AddThreadPush
<1>2. CASE SuspendErase \/ ThreadFinishErase
  <2>1. cpu.t \in Threads /\ m_Threads' = Erase(m_Threads, cpu.t)
    BY <1>2 DEF SuspendErase, ThreadFinishErase, At, IInv, ContextInv, CallOk, Removable
  <2> QED
    BY <2>1, EraseSlotsStay
<1>3. CASE ScanWake
  BY <1>3, RemoveSuspendedSlotsStay DEF ScanWake
<1>4. CASE AddThread \/ SetEnabled \/ Sleep \/ SuspendPush \/ YieldThreadTime \/ ThreadFinish
             \/ ThreadFinishYield \/ LateInitStop
  BY <1>4 DEF AddThread, SetEnabled, Sleep, SuspendPush, YieldThreadTime, ThreadFinish,
              ThreadFinishYield, LateInitStop, queueVars, SlotsStay
<1>5. CASE Tick \/ ScanStay \/ KeepRunning \/ Switch \/ AtThrows
  BY <1>5 DEF Tick, ScanStay, KeepRunning, Switch, AtThrows, queueVars, SlotsStay
<1> QED
  BY <1>1, <1>2, <1>3, <1>4, <1>5 DEF Next, ThreadStep, HandlerStep

-----------------------------------------------------------------------------
(* Whoever is in a call of the mutex or the semaphore, or free to make     *)
(* one, is neither the boot code nor in Idle's place.                      *)
LEMMA CallerIsElsewhere ==
    ASSUME IInv, cpu.pc \notin {"halt", "add"}, cpu.pc = "run" => cpu.of # Boot
    PROVE  /\ BootSleeps = FALSE => m_Enabled /\ cpu.of # Boot /\ m_Index >= 1
           /\ m_Index \in Slots
           /\ CurrentThread \in Removable
<1>1. BootSleeps = FALSE => m_Enabled /\ cpu.of # Boot
  BY DEF IInv, BootInv
<1>2. m_Index \in Slots /\ m_Index <= m_Index
  BY DEF IInv, Types, Slots
<1>3. ASSUME BootSleeps = FALSE PROVE m_Index >= 1
  BY <1>1, <1>2, <1>3 DEF IInv, BootInv, Slots
<1> QED
  BY <1>1, <1>2, <1>3 DEF IInv, QueueInv, CurrentThread, Removable

(* A step of such a call that leaves the queues alone.                     *)
LEMMA CallStepIInv ==
    ASSUME IInv, cpu.pc \notin {"halt", "add"}, cpu.pc = "run" => cpu.of # Boot,
           UNCHANGED <<m_Enabled, queueVars, m_Quantum, m_Id, saved, sleepVars, isr, halted>>,
           m_SuspendReason' \in [Threads -> {"NotSuspended", "Sleeping", "Waiting"}],
           cpu' \in Contexts, cpu'.of = cpu.of, CallOk(cpu')
    PROVE  IInv'
<1>1. BootSleeps = FALSE => m_Enabled /\ cpu.of # Boot /\ m_Index >= 1
  BY CallerIsElsewhere
<1>2. Types'
  BY DEF IInv, Types, queueVars, sleepVars, Infos
<1>3. QueueInv' /\ SuspendedInv'
  BY SameQueue DEF queueVars, sleepVars
<1>4. ContextInv'
  BY DEF IInv, ContextInv, CallOk
<1>5. BootInv'
  <2>1. BootSleeps = FALSE => m_Index' # 0
    BY <1>1, BoundsAssumption DEF queueVars, IInv, Types, Slots
  <2> QED
    BY <1>1, <2>1 DEF IInv, BootInv
<1> QED
  BY <1>2, <1>3, <1>4, <1>5 DEF IInv

-----------------------------------------------------------------------------
(* ContextsOwned and EachThreadQueuedOnce hold as long as the queue only   *)
(* grows.  The registers of a thread are on the processor when it is the   *)
(* current one, otherwise in its m_RegState: a switch moves them and       *)
(* changes no thread's.                                                    *)
Registers(t) == IF t = CurrentThread THEN cpu ELSE saved[t]

(* Nobody is in the suspended list, nor about to leave the queue.          *)
NobodyLeaves ==
    /\ m_SuspendedThreads.len = 0
    /\ isr.end = 0
    /\ \A c \in AllContexts : c.pc \notin {"erase", "suspend", "retire", "leave"}

QueuedOnce ==
    /\ m_Index < m_Threads.len
    /\ Distinct(m_Threads)
    /\ \A t \in Threads : t \in Elements(m_Threads) <=> m_Id[t] # 0

(* A thread being added has no id yet, and no two threads add the same.    *)
AddsOk ==
    /\ \A t \in Threads : Registers(t).pc = "add" => m_Id[Registers(t).t] = 0
    /\ \A t, u \in Threads :
          Registers(t).pc = "add" /\ Registers(u).pc = "add" /\ t # u
              => Registers(t).t # Registers(u).t

Steady == NobodyLeaves /\ QueuedOnce /\ AddsOk /\ ContextsOwned

LEMMA InitSteady == Init => Steady
<1> SUFFICES ASSUME Init PROVE Steady
  OBVIOUS
<1> USE ThreadsDistinct, BoundsAssumption
<1>1. /\ m_Threads \in VectorOf(Threads \cup {NoThread}, Cap)
      /\ m_Threads.len = 2 /\ m_Threads.mem[0] = Idle /\ m_Threads.mem[1] = LateInit
  <2> DEFINE v0 == EmptyVector(NoThread, Cap)
             v1 == PushBack(v0, Idle)
             T == Threads \cup {NoThread}
  <2>1. v0 \in VectorOf(T, Cap) /\ v0.len = 0 /\ v0.len < Cap
    BY DEF EmptyVector, VectorOf
  <2>2. Idle \in T /\ LateInit \in T
    BY DEF Threads
  <2>3. v1 \in VectorOf(T, Cap) /\ v1.len = 1 /\ v1.mem[0] = Idle /\ v1.len < Cap
    BY <2>1, <2>2, PushBackSpec
  <2>4. m_Threads = PushBack(v1, LateInit)
    BY DEF Init
  <2> HIDE DEF v1, T
  <2>5. /\ PushBack(v1, LateInit) \in VectorOf(T, Cap) /\ PushBack(v1, LateInit).len = 2
        /\ PushBack(v1, LateInit).mem[0] = Idle /\ PushBack(v1, LateInit).mem[1] = LateInit
    BY <2>2, <2>3, PushBackSpec
  <2> QED
    BY <2>4, <2>5 DEF T
<1>2. Live(m_Threads) = {0, 1} /\ Elements(m_Threads) = {Idle, LateInit}
  BY <1>1 DEF Live, Elements
<1>3. \A t \in Threads : saved[t].of = t /\ saved[t].pc \in {"run", "halt"}
  BY DEF Init, Running, Halted
<1>4. cpu.of = Boot /\ cpu.pc = "run" /\ CurrentThread = Idle
  BY <1>1 DEF Init, Running, CurrentThread
<1>5. NobodyLeaves
  <2>1. m_SuspendedThreads.len = 0 /\ isr.end = 0
    BY DEF Init, NoTick, EmptyVector
  <2>2. \A c \in AllContexts : c.pc \in {"run", "halt"}
    BY <1>3, <1>4 DEF AllContexts
  <2> QED
    BY <2>1, <2>2 DEF NobodyLeaves
<1>6. QueuedOnce
  <2>1. Distinct(m_Threads)
    BY <1>1, <1>2 DEF Distinct
  <2>2. \A t \in Threads : m_Id[t] # 0 <=> t \in {Idle, LateInit}
    BY DEF Init, Threads
  <2>3. m_Index < m_Threads.len
    BY <1>1 DEF Init
  <2> QED
    BY <1>2, <2>1, <2>2, <2>3 DEF QueuedOnce
<1>7. AddsOk
  BY <1>3, <1>4 DEF AddsOk, Registers
<1>8. ContextsOwned
  BY <1>3, <1>4 DEF ContextsOwned, OwnContext
<1> QED
  BY <1>5, <1>6, <1>7, <1>8 DEF Steady

(* A step of the context on the processor that keeps the queue, the ids    *)
(* and what is saved, and is not the beginning of an AddThread.            *)
LEMMA QuietStepSteady ==
    ASSUME IInv, Steady, cpu'.of = cpu.of,
           cpu' = cpu \/ cpu'.pc \notin {"add", "erase", "suspend", "retire", "leave"},
           UNCHANGED <<m_Threads, m_Index, m_Id, saved>>,
           m_SuspendedThreads'.len = 0, isr'.end = 0
    PROVE  Steady'
<1>1. NobodyLeaves'
  BY DEF Steady, NobodyLeaves, AllContexts
<1>2. QueuedOnce'
  BY DEF Steady, QueuedOnce
<1>3. CurrentThread' = CurrentThread
  BY DEF CurrentThread
<1>4. \A t \in Threads : Registers(t)' = Registers(t) \/ Registers(t)'.pc # "add"
  BY <1>3 DEF Registers
<1>5. AddsOk'
  BY <1>4 DEF Steady, AddsOk
<1>6. ContextsOwned'
  BY <1>3 DEF Steady, ContextsOwned, OwnContext
<1> QED
  BY <1>1, <1>2, <1>5, <1>6 DEF Steady

LEMMA ThreadStepSteady ==
    ASSUME IInv, Steady, ThreadStep, ~Sleep, ~ThreadFinish
    PROVE  Steady'
<1> USE ThreadsDistinct, BoundsAssumption
<1>0. /\ Types /\ QueueInv /\ NobodyLeaves /\ QueuedOnce /\ AddsOk /\ ContextsOwned
      /\ cpu \in Contexts /\ CurrentThread \in Threads /\ m_Index \in Slots
      /\ m_Threads \in VectorOf(Threads \cup {NoThread}, Cap) /\ m_Threads.len \in Nat
      /\ m_Id \in [Threads -> Nat] /\ saved \in [Threads -> Contexts]
      /\ cpu \in AllContexts /\ m_SuspendedThreads.len = 0 /\ isr.end = 0
  <2>1. Types /\ QueueInv /\ NobodyLeaves /\ QueuedOnce /\ AddsOk /\ ContextsOwned
    BY DEF IInv, Steady
  <2>2. /\ cpu \in Contexts /\ m_Index \in Slots
        /\ m_Threads \in VectorOf(Threads \cup {NoThread}, Cap)
        /\ m_Id \in [Threads -> Nat] /\ saved \in [Threads -> Contexts]
    BY <2>1 DEF Types
  <2>3. CurrentThread \in Threads
    BY IInvImpliesTypeOK DEF TypeOK
  <2>4. m_Threads.len \in Nat
    BY <2>2 DEF VectorOf
  <2>5. cpu \in AllContexts /\ m_SuspendedThreads.len = 0 /\ isr.end = 0
    BY <2>1 DEF NobodyLeaves, AllContexts
  <2> QED
    BY <2>1, <2>2, <2>3, <2>4, <2>5
<1>1. CASE AddThread
  <2>1. PICK t \in Unborn : cpu' = [cpu EXCEPT !.pc = "add", !.t = t, !.n = m_ThreadCount]
    BY <1>1 DEF AddThread
  <2>2. cpu'.pc = "add" /\ cpu'.t = t /\ cpu'.of = cpu.of
    BY <1>0, <2>1 DEF Contexts
  <2>3. UNCHANGED <<m_Threads, m_Index, m_Id, saved, m_SuspendedThreads, isr>>
    BY <1>1 DEF AddThread, queueVars, threadVars, sleepVars
  <2>4. t \in Workers /\ m_Id[t] = 0 /\ \A c \in AllContexts : c.pc = "add" => c.t # t
    BY DEF Unborn
  <2>5. NobodyLeaves' /\ QueuedOnce'
    BY <1>0, <2>2, <2>3 DEF NobodyLeaves, AllContexts, QueuedOnce
  <2>6. CurrentThread' = CurrentThread
    BY <2>3 DEF CurrentThread
  <2>7. ContextsOwned'
    BY <1>0, <2>2, <2>3, <2>6 DEF ContextsOwned, OwnContext
  <2>8. \A u \in Threads : /\ u = CurrentThread => Registers(u)' = cpu'
                           /\ u # CurrentThread => /\ Registers(u)' = Registers(u)
                                                   /\ Registers(u) = saved[u]
                                                   /\ saved[u] \in AllContexts
    BY <2>3, <2>6 DEF Registers, AllContexts
  <2>9. \A u \in Threads : u # CurrentThread /\ Registers(u).pc = "add" => Registers(u).t # t
    BY <2>4, <2>8
  <2>10. AddsOk'
    <3>1. \A u \in Threads : Registers(u)'.pc = "add" => m_Id'[Registers(u)'.t] = 0
      BY <1>0, <2>2, <2>3, <2>4, <2>8 DEF AddsOk
    <3>2. ASSUME NEW x \in Threads, NEW y \in Threads, x # y,
                 Registers(x)'.pc = "add", Registers(y)'.pc = "add"
          PROVE  Registers(x)'.t # Registers(y)'.t
      <4>1. CASE x = CurrentThread
        BY <2>2, <2>8, <2>9, <3>2, <4>1
      <4>2. CASE y = CurrentThread
        BY <2>2, <2>8, <2>9, <3>2, <4>2
      <4>3. CASE x # CurrentThread /\ y # CurrentThread
        BY <1>0, <2>8, <3>2, <4>3 DEF AddsOk
      <4> QED
        BY <4>1, <4>2, <4>3
    <3> QED
      BY <3>1, <3>2 DEF AddsOk
  <2> QED
    BY <2>5, <2>7, <2>10 DEF Steady
<1>2. CASE AddThreadPush
  <2>1. /\ cpu.pc = "add" /\ cpu.t \in Workers /\ cpu.t \in Threads /\ cpu.n \in Nat
        /\ m_Threads.len < Cap /\ m_Threads' = PushBack(m_Threads, cpu.t)
        /\ m_Id' = [m_Id EXCEPT ![cpu.t] = cpu.n + 1] /\ cpu' = Running(cpu.of)
        /\ UNCHANGED <<m_Index, saved, m_SuspendedThreads, isr>>
    BY <1>0, <1>2 DEF AddThreadPush, At, Room, IInv, ContextInv, CallOk, Contexts, Threads, sleepVars
  <2>2. /\ m_Threads'.len = m_Threads.len + 1 /\ m_Threads'.mem[m_Threads.len] = cpu.t
        /\ \A i \in Slots : i # m_Threads.len => m_Threads'.mem[i] = m_Threads.mem[i]
    BY <1>0, <2>1, PushBackSpec DEF Slots
  <2>3. m_Index < m_Threads.len /\ CurrentThread' = CurrentThread
    BY <1>0, <2>1, <2>2 DEF QueuedOnce, CurrentThread, Slots
  <2>4. m_Id[cpu.t] = 0 /\ cpu.t \notin Elements(m_Threads)
    <3>1. Registers(CurrentThread) = cpu
      BY DEF Registers
    <3> QED
      BY <1>0, <2>1, <3>1 DEF AddsOk, QueuedOnce
  <2>5. NobodyLeaves'
    BY <1>0, <2>1 DEF NobodyLeaves, AllContexts, Running
  <2>6. QueuedOnce'
    <3>1. Distinct(m_Threads')
      BY <1>0, <2>1, <2>4, PushBackKeepsDistinct DEF QueuedOnce
    <3>2. Elements(m_Threads') = Elements(m_Threads) \cup {cpu.t}
      <4>1. Live(m_Threads') = Live(m_Threads) \cup {m_Threads.len}
        BY <1>0, <2>2 DEF Live
      <4>2. \A i \in Live(m_Threads) : m_Threads'.mem[i] = m_Threads.mem[i]
        BY <1>0, <2>1, <2>2 DEF Live, Slots
      <4> QED
        BY <2>2, <4>1, <4>2 DEF Elements
    <3>3. \A t \in Threads : m_Id'[t] # 0 <=> m_Id[t] # 0 \/ t = cpu.t
      BY <1>0, <2>1
    <3>4. m_Index' < m_Threads'.len
      BY <1>0, <2>1, <2>2, <2>3 DEF Slots
    <3> QED
      BY <1>0, <3>1, <3>2, <3>3, <3>4 DEF QueuedOnce
  <2>7. ContextsOwned'
    BY <1>0, <2>1, <2>3 DEF ContextsOwned, OwnContext, Running
  <2>8. \A u \in Threads : /\ u = CurrentThread => Registers(u)'.pc # "add"
                           /\ u # CurrentThread => Registers(u)' = Registers(u)
    BY <2>1, <2>3 DEF Registers, Running
  <2>9. \A u \in Threads : u # CurrentThread /\ Registers(u).pc = "add" => Registers(u).t # cpu.t
    <3>1. Registers(CurrentThread) = cpu
      BY DEF Registers
    <3> QED
      BY <1>0, <2>1, <3>1 DEF AddsOk
  <2>10. AddsOk'
    <3>1. \A u \in Threads : Registers(u)'.pc = "add" => m_Id'[Registers(u)'.t] = 0
      <4> TAKE u \in Threads
      <4> HAVE Registers(u)'.pc = "add"
      <4>1. u # CurrentThread /\ Registers(u)' = Registers(u)
        BY <2>8
      <4>2. Registers(u).t # cpu.t /\ m_Id[Registers(u).t] = 0 /\ Registers(u).pc = "add"
        BY <1>0, <2>9, <4>1 DEF AddsOk
      <4>3. Registers(u).t \in Threads
        <5>1. Registers(u) = saved[u]
          BY <4>1 DEF Registers
        <5> QED
          BY <4>2, <5>1 DEF IInv, ContextInv, CallOk, Threads
      <4> QED
        BY <1>0, <2>1, <4>1, <4>2, <4>3
    <3>2. \A x, y \in Threads :
             Registers(x)'.pc = "add" /\ Registers(y)'.pc = "add" /\ x # y
                => Registers(x)'.t # Registers(y)'.t
      BY <1>0, <2>8 DEF AddsOk
    <3> QED
      BY <3>1, <3>2 DEF AddsOk
  <2> QED
    BY <2>5, <2>6, <2>7, <2>10 DEF Steady
<1>3. CASE SetEnabled \/ YieldThreadTime \/ LateInitStop
  <2>1. /\ cpu'.of = cpu.of /\ (cpu' = cpu \/ cpu'.pc \in {"run", "halt"})
        /\ UNCHANGED <<m_Threads, m_Index, m_Id, saved, m_SuspendedThreads, isr>>
    BY <1>3 DEF SetEnabled, YieldThreadTime, LateInitStop, Running, Halted, queueVars,
                threadVars, sleepVars
  <2> QED
    BY <1>0, <2>1, QuietStepSteady
<1>4. ~SuspendErase /\ ~SuspendPush /\ ~ThreadFinishErase /\ ~ThreadFinishYield
  BY <1>0 DEF SuspendErase, SuspendPush, ThreadFinishErase, ThreadFinishYield, At, NobodyLeaves
<1> QED
  BY <1>1, <1>2, <1>3, <1>4 DEF ThreadStep

LEMMA HandlerStepSteady ==
    ASSUME IInv, Steady, Tick \/ HandlerStep
    PROVE  /\ Steady'
           /\ \A t \in Threads : Registers(t)' = Registers(t)
           /\ UNCHANGED m_Threads
<1> USE ThreadsDistinct, BoundsAssumption
<1>0. /\ Types /\ QueueInv /\ NobodyLeaves /\ QueuedOnce /\ AddsOk /\ ContextsOwned
      /\ CurrentThread \in Threads /\ m_Index \in Slots /\ isr.i \in Nat
      /\ m_Threads.len \in 0 .. Cap /\ saved \in [Threads -> Contexts]
      /\ m_SuspendedThreads.len = 0 /\ isr.end = 0
      /\ m_SuspendedThreads \in VectorOf(Infos, Cap)
  BY IInvImpliesTypeOK DEF IInv, TypeOK, Types, Steady, VectorOf, NobodyLeaves
<1>1. CASE Tick \/ KeepRunning
  <2>1. /\ UNCHANGED <<m_Threads, m_Index, m_Id, saved, cpu>>
        /\ m_SuspendedThreads'.len = 0 /\ isr'.end = 0
    BY <1>0, <1>1 DEF Tick, KeepRunning, EndTick, NoTick, queueVars, threadVars, sleepVars, VectorOf
  <2>2. \A t \in Threads : Registers(t)' = Registers(t)
    BY <2>1 DEF Registers, CurrentThread
  <2> QED
    BY <1>0, <2>1, <2>2, QuietStepSteady
<1>2. ~ScanStay /\ ~ScanWake
  BY <1>0 DEF ScanStay, ScanWake, Scanning
<1>3. ~AtThrows
  <2>1. Wrapped(m_Index + 1) < m_Threads.len /\ Wrapped(m_Index + 1) \in Nat
    BY <1>0 DEF Wrapped, QueuedOnce, Slots
  <2> QED
    BY <1>0, <2>1 DEF AtThrows
<1>4. CASE Switch
  <2>1. /\ saved' = [saved EXCEPT ![CurrentThread] = cpu] /\ cpu' = saved'[NextThread]
        /\ m_Index' = Wrapped(m_Index + 1) /\ UNCHANGED <<m_Threads, m_Id>>
        /\ Wrapped(m_Index + 1) < m_Threads.len
        /\ m_SuspendedThreads'.len = 0 /\ isr'.end = 0
    BY <1>0, <1>4 DEF Switch, EndTick, NoTick, VectorOf
  <2>2. NextThread \in Threads /\ CurrentThread' = NextThread
    <3>1. Wrapped(m_Index + 1) \in Slots
      BY <1>0, <2>1 DEF Wrapped, Slots
    <3> QED
      BY <1>0, <2>1, <3>1 DEF QueueInv, NextThread, CurrentThread
  <2>3. \A t \in Threads : saved'[t] = Registers(t)
    BY <1>0, <2>1 DEF Registers
  <2>4. cpu' = Registers(NextThread)
    BY <2>1, <2>2, <2>3
  <2>5. \A t \in Threads : Registers(t)' = Registers(t)
    BY <2>2, <2>3, <2>4 DEF Registers
  <2>6. \A t \in Threads : OwnContext(t, Registers(t)) /\ Registers(t) \in AllContexts
    BY <1>0 DEF ContextsOwned, OwnContext, Registers, AllContexts
  <2>7. ContextsOwned'
    BY <2>2, <2>3, <2>4, <2>6 DEF ContextsOwned, OwnContext
  <2>8. \A c \in AllContexts' : c \in AllContexts
    BY <2>2, <2>3, <2>4, <2>6 DEF AllContexts
  <2>9. NobodyLeaves'
    BY <1>0, <2>1, <2>8 DEF NobodyLeaves
  <2>10. QueuedOnce'
    BY <1>0, <2>1 DEF QueuedOnce
  <2>11. AddsOk'
    BY <1>0, <2>1, <2>5 DEF AddsOk
  <2> QED
    BY <2>1, <2>5, <2>7, <2>9, <2>10, <2>11 DEF Steady
<1> QED
  BY <1>1, <1>2, <1>3, <1>4 DEF HandlerStep

(* Exactly one slot of a queue without repetitions holds a queued thread.  *)
LEMMA SteadyImpliesQueuedOnce == QueuedOnce => EachThreadQueuedOnce
<1> SUFFICES ASSUME QueuedOnce, NEW t \in Threads, m_Id[t] # 0
             PROVE  Cardinality({i \in Live(m_Threads) : m_Threads.mem[i] = t}) = 1
  BY DEF EachThreadQueuedOnce
<1>1. PICK k \in Live(m_Threads) : m_Threads.mem[k] = t
  BY DEF QueuedOnce, Elements
<1>2. {i \in Live(m_Threads) : m_Threads.mem[i] = t} = {k}
  BY <1>1 DEF QueuedOnce, Distinct
<1> QED
  BY <1>2, FS_Singleton

(* Type correctness, and with it the memory safety of GetCurrentThread:    *)
(* m_Threads[m_Index] (scheduler.cpp:64 and 99-103, unchecked) is a thread *)
(* whenever it is read, even when m_Index is past the end of the queue.    *)
THEOREM TypeCorrect == Spec => []TypeOK
<1>1. Init => IInv
  BY InitIInv
<1>2. IInv /\ [Next]_vars => IInv'
  BY Inductive
<1>3. IInv => TypeOK
  BY IInvImpliesTypeOK
<1> QED
  BY <1>1, <1>2, <1>3, PTL DEF Spec

(* The idle thread stays at the front of the queue: the switch always has  *)
(* a thread to go to, and m_Threads.at(m_Index) (scheduler.cpp:75) throws  *)
(* in no run.                                                              *)
THEOREM IdleRunnable ==
    ASSUME BootSleeps = FALSE
    PROVE  Spec => []IdleAlwaysRunnable
<1>1. Init => IInv
  BY InitIInv
<1>2. IInv /\ [Next]_vars => IInv'
  BY Inductive
<1>3. IInv /\ BootSleeps = FALSE => IdleAlwaysRunnable
  BY IInvImpliesIdle
<1> QED
  BY <1>1, <1>2, <1>3, PTL DEF Spec

-----------------------------------------------------------------------------
(* NobodyBlocked never becomes true again.  Of a thread that slept its     *)
(* m_SuspendReason tells; of one that returned, its halted context, which  *)
(* by the shift of the queue under m_Index is saved over other threads'    *)
(* registers, but is itself only ever overwritten by another one.          *)
AllAwake == \A t \in Threads : m_SuspendReason[t] = "NotSuspended"
Returned(c) == c.pc \in {"retire", "leave", "halt"} /\ c.of \in Workers

BlockInv ==
    /\ \A c \in AllContexts : c.pc \in {"retire", "leave"} => c.of \in Workers
    /\ AllAwake => /\ m_SuspendedThreads.len = 0 /\ isr.end = 0
                   /\ \A c \in AllContexts : c.pc \notin {"erase", "suspend"}
                   /\ ~Returned(cpu) => /\ m_Index < m_Threads.len
                                        /\ ~Returned(saved[CurrentThread])

LEMMA NobodyBlockedMeans ==
    NobodyBlocked <=> AllAwake /\ \A c \in AllContexts : ~Returned(c)
BY DEF NobodyBlocked, AllAwake, Returned

LEMMA ThreadStepBlockInv ==
    ASSUME IInv, BlockInv, ThreadStep
    PROVE  BlockInv' /\ (NobodyBlocked' => NobodyBlocked)
<1> USE ThreadsDistinct, BoundsAssumption
<1>0. /\ cpu \in Contexts /\ CurrentThread \in Threads /\ m_Index \in Slots
      /\ m_Threads.len \in Nat /\ cpu \in AllContexts
      /\ m_SuspendReason \in [Threads -> {"NotSuspended", "Sleeping", "Waiting"}]
      /\ AllAwake => /\ cpu.pc \notin {"erase", "suspend"}
                     /\ m_SuspendedThreads.len = 0 /\ isr.end = 0
                     /\ ~Returned(cpu) => m_Index < m_Threads.len
  BY IInvImpliesTypeOK DEF IInv, TypeOK, Types, VectorOf, AllContexts, BlockInv
(* What becomes of the context on the processor.                           *)
<1>1. /\ saved' = saved
      /\ cpu'.pc \in {"retire", "leave"} => cpu'.of \in Workers
      /\ AllAwake' =>
            /\ AllAwake /\ cpu'.pc \notin {"erase", "suspend"}
            /\ m_SuspendedThreads'.len = 0 /\ isr'.end = 0
            /\ Returned(cpu) => Returned(cpu')
            /\ ~Returned(cpu') => CurrentThread' = CurrentThread /\ m_Index' < m_Threads'.len
  <2>1. CASE AddThread
    <3>1. PICK t \in Unborn : cpu' = [cpu EXCEPT !.pc = "add", !.t = t, !.n = m_ThreadCount]
      BY <2>1 DEF AddThread
    <3>2. cpu'.pc = "add" /\ cpu.pc = "run"
      BY <1>0, <2>1, <3>1 DEF AddThread, MayCall, At, Contexts
    <3>3. UNCHANGED <<m_Threads, m_Index, m_SuspendReason, saved, m_SuspendedThreads, isr>>
      BY <2>1 DEF AddThread, queueVars, threadVars, sleepVars
    <3> QED
      BY <1>0, <3>2, <3>3 DEF AllAwake, Returned, CurrentThread
  <2>2. CASE AddThreadPush
    <3>1. /\ cpu.pc = "add" /\ cpu'.pc = "run" /\ m_Threads' = PushBack(m_Threads, cpu.t)
          /\ m_Threads.len < Cap /\ cpu.t \in Threads \cup {NoThread}
          /\ UNCHANGED <<m_Index, m_SuspendReason, saved, m_SuspendedThreads, isr>>
      BY <1>0, <2>2 DEF AddThreadPush, At, Room, Running, sleepVars, Contexts, IInv, Types, VectorOf
    <3>2. /\ m_Threads'.len = m_Threads.len + 1
          /\ \A i \in Slots : i # m_Threads.len => m_Threads'.mem[i] = m_Threads.mem[i]
      <4>1. m_Threads \in VectorOf(Threads \cup {NoThread}, Cap) /\ Cap \in Nat
        BY DEF IInv, Types
      <4> QED
        BY <3>1, <4>1, PushBackSpec DEF Slots
    <3>3. m_Index < m_Threads.len => CurrentThread' = CurrentThread /\ m_Index' < m_Threads'.len
      BY <1>0, <3>1, <3>2 DEF CurrentThread, Slots
    <3>4. AllAwake' = AllAwake /\ ~Returned(cpu)
      BY <3>1 DEF AllAwake, Returned
    <3> QED
      BY <1>0, <3>1, <3>3, <3>4
  <2>3. CASE Sleep
    <3>1. m_SuspendReason'[CurrentThread] = "Sleeping" /\ saved' = saved
      BY <1>0, <2>3 DEF Sleep
    <3>2. cpu'.pc = "erase"
      BY <1>0, <2>3 DEF Sleep, Contexts
    <3> QED
      BY <1>0, <3>1, <3>2 DEF AllAwake
  <2>4. CASE SuspendErase \/ SuspendPush
    <3>1. cpu.pc \in {"erase", "suspend"} /\ UNCHANGED <<m_SuspendReason, saved>>
      BY <2>4 DEF SuspendErase, SuspendPush, At, threadVars
    <3>2. ~AllAwake /\ ~AllAwake'
      BY <1>0, <3>1 DEF AllAwake
    <3>3. cpu'.pc \in {"suspend", "yield"}
      BY <1>0, <2>4 DEF SuspendErase, SuspendPush, Contexts
    <3> QED
      BY <3>1, <3>2, <3>3
  <2>5. CASE SetEnabled \/ YieldThreadTime \/ LateInitStop
    <3>1. /\ cpu.pc \in {"run", "yield"} /\ (cpu' = cpu \/ cpu' = Halted(Boot) \/ cpu' = Running(cpu.of))
          /\ UNCHANGED <<m_Threads, m_Index, m_SuspendReason, saved, m_SuspendedThreads, isr>>
      BY <2>5 DEF SetEnabled, YieldThreadTime, LateInitStop, MayCall, At, queueVars, threadVars, sleepVars
    <3>2. cpu'.pc \in {"run", "yield"} \/ (cpu'.pc = "halt" /\ cpu'.of = Boot)
      BY <3>1 DEF Halted, Running
    <3>3. ~Returned(cpu) /\ ~Returned(cpu')
      BY <3>1, <3>2 DEF Returned, Threads
    <3> QED
      BY <1>0, <3>1, <3>2, <3>3 DEF AllAwake, CurrentThread
  <2>6. CASE ThreadFinish \/ ThreadFinishErase \/ ThreadFinishYield
    <3>1. /\ cpu'.of \in Workers /\ cpu'.pc \in {"retire", "leave", "halt"}
          /\ UNCHANGED <<m_SuspendReason, saved, m_SuspendedThreads, isr>>
      <4>1. CASE ThreadFinish
        BY <1>0, <4>1 DEF ThreadFinish, threadVars, sleepVars, Contexts
      <4>2. CASE ThreadFinishErase
        BY <1>0, <4>2 DEF ThreadFinishErase, At, threadVars, sleepVars, Contexts, BlockInv
      <4>3. CASE ThreadFinishYield
        BY <1>0, <4>3 DEF ThreadFinishYield, At, Halted, Running, threadVars, sleepVars, BlockInv
      <4> QED
        BY <2>6, <4>1, <4>2, <4>3
    <3> QED
      BY <1>0, <3>1 DEF AllAwake, Returned
  <2> QED
    BY <2>1, <2>2, <2>3, <2>4, <2>5, <2>6 DEF ThreadStep
<1>2. \A c \in AllContexts' : c = cpu' \/ c \in AllContexts
  BY <1>1 DEF AllContexts
<1>3. BlockInv'
  <2>1. \A c \in AllContexts' : c.pc \in {"retire", "leave"} => c.of \in Workers
    BY <1>1, <1>2 DEF BlockInv
  <2>2. ASSUME AllAwake' PROVE \A c \in AllContexts' : c.pc \notin {"erase", "suspend"}
    BY <1>1, <1>2, <2>2 DEF BlockInv
  <2>3. ASSUME AllAwake', ~Returned(cpu')
        PROVE  m_Index' < m_Threads'.len /\ ~Returned(saved'[CurrentThread'])
    BY <1>1, <2>3 DEF BlockInv
  <2>4. Returned(cpu)' = Returned(cpu') /\ Returned(saved[CurrentThread])' = Returned(saved'[CurrentThread'])
    BY DEF Returned
  <2> QED
    BY <1>1, <2>1, <2>2, <2>3, <2>4 DEF BlockInv
<1>4. NobodyBlocked' => NobodyBlocked
  <2>1. NobodyBlocked' => AllAwake' /\ \A c \in AllContexts' : ~Returned(c)
    BY DEF NobodyBlocked, AllAwake, Returned
  <2>2. ASSUME \A c \in AllContexts' : ~Returned(c), AllAwake'
        PROVE  \A c \in AllContexts : ~Returned(c)
    <3>1. cpu' \in AllContexts' /\ \A t \in Threads : saved[t] \in AllContexts'
      BY <1>1 DEF AllContexts
    <3>2. ~Returned(cpu)
      BY <1>1, <2>2, <3>1
    <3> QED
      BY <2>2, <3>1, <3>2 DEF AllContexts
  <2> QED
    BY <1>1, <2>1, <2>2, NobodyBlockedMeans
<1> QED
  BY <1>3, <1>4

LEMMA HandlerStepBlockInv ==
    ASSUME IInv, BlockInv, Tick \/ HandlerStep
    PROVE  BlockInv' /\ (NobodyBlocked' => NobodyBlocked)
<1> USE ThreadsDistinct, BoundsAssumption
<1>0. /\ CurrentThread \in Threads /\ m_Index \in Slots /\ m_Threads.len \in 0 .. Cap
      /\ m_SuspendedThreads \in VectorOf(Infos, Cap) /\ isr.i \in Nat
      /\ saved \in [Threads -> Contexts] /\ QueueInv
  BY IInvImpliesTypeOK DEF IInv, TypeOK, Types, VectorOf
<1>1. m_SuspendReason' = m_SuspendReason /\ AllAwake' = AllAwake
  BY DEF Tick, HandlerStep, ScanStay, ScanWake, KeepRunning, Switch, AtThrows, threadVars, AllAwake
<1>2. CASE AllAwake
  <2>0. m_SuspendedThreads.len = 0 /\ isr.end = 0
    BY <1>2 DEF BlockInv
  <2>1. ~ScanStay /\ ~ScanWake
    BY <1>0, <2>0 DEF ScanStay, ScanWake, Scanning
  <2>2. m_SuspendedThreads'.len = 0 /\ isr'.end = 0
    BY <1>0, <2>0, <2>1 DEF Tick, HandlerStep, KeepRunning, Switch, AtThrows, EndTick, NoTick, sleepVars, VectorOf
  <2>3. CASE Tick \/ KeepRunning
    <3>1. UNCHANGED <<cpu, saved, m_Threads, m_Index>>
      BY <2>3 DEF Tick, KeepRunning, threadVars, queueVars
    <3>2. AllContexts' = AllContexts /\ CurrentThread' = CurrentThread
      BY <3>1 DEF AllContexts, CurrentThread
    <3>3. BlockInv'
      BY <1>1, <2>2, <3>1, <3>2 DEF BlockInv, Returned
    <3>4. NobodyBlocked' => NobodyBlocked
      BY <1>1, <3>2 DEF NobodyBlocked
    <3> QED
      BY <3>3, <3>4
  <2>4. CASE Switch \/ AtThrows
    <3>1. /\ saved' = [saved EXCEPT ![CurrentThread] = cpu]
          /\ \A t \in Threads : saved'[t] = IF t = CurrentThread THEN cpu ELSE saved[t]
      BY <1>0, <2>4 DEF Switch, AtThrows
    <3>2. \A c \in AllContexts' : c \in AllContexts
      <4>1. cpu' \in AllContexts
        <5>1. CASE Switch
          <6>1. Wrapped(m_Index + 1) \in Slots /\ Wrapped(m_Index + 1) < m_Threads.len
            BY <1>0, <5>1 DEF Switch, Wrapped, Slots
          <6>2. NextThread \in Threads /\ cpu' = saved'[NextThread]
            BY <1>0, <5>1, <6>1 DEF Switch, NextThread, QueueInv
          <6> QED
            BY <3>1, <6>2 DEF AllContexts
        <5>2. CASE AtThrows
          BY <5>2 DEF AtThrows, AllContexts
        <5> QED
          BY <2>4, <5>1, <5>2
      <4> QED
        BY <3>1, <4>1 DEF AllContexts
    <3>3. ~Returned(cpu') => m_Index' < m_Threads'.len /\ ~Returned(saved'[CurrentThread'])
      <4>1. CASE Switch
        <5>1. /\ m_Threads' = m_Threads /\ m_Index' = Wrapped(m_Index + 1)
              /\ Wrapped(m_Index + 1) < m_Threads.len /\ cpu' = saved'[NextThread]
          BY <4>1 DEF Switch
        <5>2. CurrentThread' = NextThread
          BY <5>1 DEF CurrentThread, NextThread
        <5> QED
          BY <5>1, <5>2
      <4>2. CASE AtThrows
        <5>1. cpu' = cpu /\ Wrapped(m_Index + 1) >= m_Threads.len
          BY <4>2 DEF AtThrows
        <5>2. ~Returned(cpu) => m_Index < m_Threads.len
          BY <1>2 DEF BlockInv
        <5>3. m_Index < m_Threads.len => Wrapped(m_Index + 1) < m_Threads.len /\ Wrapped(m_Index + 1) \in Nat
          BY <1>0 DEF Wrapped, Slots
        <5>4. ~(m_Index < m_Threads.len)
          BY <1>0, <5>1, <5>3
        <5> QED
          BY <5>1, <5>2, <5>4
      <4> QED
        BY <2>4, <4>1, <4>2
    <3>4. BlockInv'
      <4>1. /\ \A c \in AllContexts' : c.pc \in {"retire", "leave"} => c.of \in Workers
            /\ \A c \in AllContexts' : c.pc \notin {"erase", "suspend"}
        BY <1>2, <3>2 DEF BlockInv
      <4>2. /\ Returned(cpu)' = Returned(cpu')
            /\ Returned(saved[CurrentThread])' = Returned(saved'[CurrentThread'])
        BY DEF Returned
      <4> QED
        BY <2>2, <3>3, <4>1, <4>2 DEF BlockInv
    <3>5. NobodyBlocked' => NobodyBlocked
      <4>1. NobodyBlocked' => AllAwake' /\ \A c \in AllContexts' : ~Returned(c)
        BY DEF NobodyBlocked, AllAwake, Returned
      <4>2. ASSUME \A c \in AllContexts' : ~Returned(c)
            PROVE  \A c \in AllContexts : ~Returned(c)
        <5>1. \A t \in Threads : saved'[t] \in AllContexts'
          BY DEF AllContexts
        <5>2. ~Returned(cpu)
          BY <1>0, <3>1, <4>2, <5>1
        <5>3. ~Returned(saved[CurrentThread])
          BY <1>2, <5>2 DEF BlockInv
        <5>4. \A t \in Threads : t # CurrentThread => ~Returned(saved[t])
          BY <3>1, <4>2, <5>1
        <5> QED
          BY <5>2, <5>3, <5>4 DEF AllContexts
      <4> QED
        BY <1>1, <1>2, <4>1, <4>2, NobodyBlockedMeans
    <3> QED
      BY <3>4, <3>5
  <2> QED
    BY <2>1, <2>3, <2>4 DEF HandlerStep
<1>3. CASE ~AllAwake
  <2>1. ~NobodyBlocked'
    BY <1>1, <1>3 DEF NobodyBlocked, AllAwake
  <2>2. \A c \in AllContexts' : c \in AllContexts
    <3>1. CASE Tick \/ ScanStay \/ ScanWake \/ KeepRunning
      BY <3>1 DEF Tick, ScanStay, ScanWake, KeepRunning, threadVars, AllContexts
    <3>2. CASE Switch \/ AtThrows
      <4>1. \A t \in Threads : saved'[t] = IF t = CurrentThread THEN cpu ELSE saved[t]
        BY <1>0, <3>2 DEF Switch, AtThrows
      <4>2. cpu' = cpu \/ \E t \in Threads : cpu' = saved'[t]
        <5>1. CASE Switch
          <6>1. Wrapped(m_Index + 1) \in Slots /\ Wrapped(m_Index + 1) < m_Threads.len
            BY <1>0, <5>1 DEF Switch, Wrapped, Slots
          <6> QED
            BY <1>0, <5>1, <6>1 DEF Switch, NextThread, QueueInv
        <5> QED
          BY <3>2, <5>1 DEF AtThrows
      <4> QED
        BY <4>1, <4>2 DEF AllContexts
    <3> QED
      BY <3>1, <3>2 DEF HandlerStep
  <2> QED
    BY <1>1, <1>3, <2>1, <2>2 DEF BlockInv
<1> QED
  BY <1>2, <1>3

NonBlockInv == IInv /\ BlockInv /\ (NobodyBlocked => Steady)

LEMMA InitNonBlockInv == Init => NonBlockInv
<1> SUFFICES ASSUME Init PROVE NonBlockInv
  OBVIOUS
<1> USE ThreadsDistinct, BoundsAssumption
<1>1. IInv /\ Steady
  BY InitIInv, InitSteady
<1>2. BlockInv
  <2>1. m_SuspendedThreads.len = 0 /\ isr.end = 0 /\ m_Index < m_Threads.len
    BY <1>1 DEF Steady, NobodyLeaves, QueuedOnce
  <2>2. /\ \A c \in AllContexts : c.pc \notin {"erase", "suspend", "retire", "leave"}
        /\ CurrentThread \in Threads
    BY <1>1, IInvImpliesTypeOK DEF Steady, NobodyLeaves, TypeOK
  <2>3. ~Returned(saved[CurrentThread])
    BY <2>2 DEF Init, Returned, Running, Halted
  <2> QED
    BY <2>1, <2>2, <2>3 DEF BlockInv
<1> QED
  BY <1>1, <1>2 DEF NonBlockInv

LEMMA NonBlockInductive ==
    ASSUME NonBlockInv, [Next]_vars
    PROVE  NonBlockInv'
<1>1. CASE Next
  <2>1. IInv' /\ BlockInv' /\ (NobodyBlocked' => NobodyBlocked)
    BY <1>1, Inductive, ThreadStepBlockInv, HandlerStepBlockInv DEF NonBlockInv, Next
  <2>2. ASSUME NobodyBlocked' PROVE Steady'
    <3>1. IInv /\ Steady
      BY <2>1, <2>2 DEF NonBlockInv
    <3>2. ~Sleep
      <4>1. Sleep => m_SuspendReason'[CurrentThread] = "Sleeping" /\ CurrentThread \in Threads
        BY <3>1, IInvImpliesTypeOK DEF Sleep, TypeOK
      <4> QED
        BY <2>2, <4>1 DEF NobodyBlocked
    <3>3. ~ThreadFinish
      <4>1. ThreadFinish => cpu'.pc = "retire" /\ cpu'.of \in Workers /\ cpu' \in AllContexts'
        BY <3>1 DEF ThreadFinish, IInv, Types, Contexts, AllContexts
      <4> QED
        BY <2>2, <4>1 DEF NobodyBlocked
    <3> QED
      BY <1>1, <3>1, <3>2, <3>3, ThreadStepSteady, HandlerStepSteady DEF Next
  <2> QED
    BY <2>1, <2>2 DEF NonBlockInv
<1>2. CASE UNCHANGED vars
  <2>1. IInv'
    BY <1>2, Inductive DEF NonBlockInv
  <2>2. UNCHANGED <<m_Threads, m_SuspendedThreads, m_Index, m_Id, m_SuspendReason, saved, cpu, isr>>
    BY <1>2 DEF vars, queueVars, threadVars, sleepVars
  <2>3. BlockInv' /\ NobodyBlocked' = NobodyBlocked /\ Steady' = Steady
    BY <2>2 DEF NonBlockInv, BlockInv, AllAwake, Returned, NobodyBlocked, AllContexts, CurrentThread,
                Steady, NobodyLeaves, QueuedOnce, Distinct, Elements, AddsOk, Registers,
                ContextsOwned, OwnContext
  <2> QED
    BY <2>1, <2>3 DEF NonBlockInv
<1> QED
  BY <1>1, <1>2

(* As long as no thread has slept or returned, a switch saves over a       *)
(* thread, and resumes for it, nothing but its own registers: SaveState in *)
(* Interrupt32 never takes one thread's for another's.                     *)
THEOREM RegistersNeverMixed == Spec => []NonBlockingContextsOwned
<1>1. Init => NonBlockInv
  BY InitNonBlockInv
<1>2. NonBlockInv /\ [Next]_vars => NonBlockInv'
  BY NonBlockInductive
<1>3. NonBlockInv => NonBlockingContextsOwned
  BY DEF NonBlockInv, Steady, NonBlockingContextsOwned
<1> QED
  BY <1>1, <1>2, <1>3, PTL DEF Spec

(* For as long, every thread that AddThread was called for (scheduler.cpp) *)
(* is in the queue exactly once, however the calls of several threads      *)
(* interleave.                                                             *)
THEOREM QueuedExactlyOnce == Spec => []NonBlockingQueuedOnce
<1>1. Init => NonBlockInv
  BY InitNonBlockInv
<1>2. NonBlockInv /\ [Next]_vars => NonBlockInv'
  BY NonBlockInductive
<1>3. NonBlockInv => NonBlockingQueuedOnce
  BY SteadyImpliesQueuedOnce DEF NonBlockInv, Steady, NonBlockingQueuedOnce
<1> QED
  BY <1>1, <1>2, <1>3, PTL DEF Spec

-----------------------------------------------------------------------------
(* CountedOncePerWake.  While the walk is within the list, no entry has    *)
(* lost more than one tick and those it has still to come to have lost     *)
(* none; an erase moves entries towards the front only, so one may be      *)
(* skipped but none is met twice.  Behind the end the walk reads slots the *)
(* erases left behind, each of which may cost its entry one tick more.     *)
Lost(j) == isr.before[j] - info[j].left

CountInv ==
    /\ Distinct(m_SuspendedThreads)
    /\ isr.pc = "scan" =>
         /\ m_SuspendedThreads.len <= isr.end
         /\ \A j \in SleepingInfos :
               IF isr.i <= m_SuspendedThreads.len
                 THEN Lost(j) <= 1
                 ELSE Lost(j) <= 1 + (isr.i - m_SuspendedThreads.len)
         /\ \A k \in Live(m_SuspendedThreads) :
               k >= isr.i => Lost(m_SuspendedThreads.mem[k]) <= 0

LEMMA CountInvImplies ==
    ASSUME IInv, CountInv
    PROVE  CountedOncePerWake
<1> SUFFICES ASSUME isr.pc = "scan", NEW j \in SleepingInfos
             PROVE  Lost(j) <= 1 + (isr.end - m_SuspendedThreads.len)
  BY DEF CountedOncePerWake, Lost
<1>1. /\ isr.i \in 0 .. Cap /\ isr.end \in 0 .. Cap /\ isr.i <= isr.end
      /\ m_SuspendedThreads.len \in 0 .. Cap /\ Cap \in Nat /\ j \in Infos
  <2>1. m_SuspendedThreads \in VectorOf(Infos, Cap) /\ Cap \in Nat
    BY BoundsAssumption DEF IInv, Types
  <2>2. SleepingInfos \subseteq Infos
    BY <2>1, VectorParts DEF SleepingInfos
  <2> QED
    BY <2>1, <2>2 DEF IInv, Types, VectorOf
<1>2. Lost(j) \in Int
  <2>1. isr.before[j] \in 0 .. Forever /\ info[j].left \in 0 .. Forever /\ Forever \in Nat
    BY <1>1, BoundsAssumption DEF IInv, Types, Forever
  <2> QED
    BY <2>1 DEF Lost
<1>3. /\ m_SuspendedThreads.len <= isr.end
      /\ isr.i <= m_SuspendedThreads.len => Lost(j) <= 1
      /\ ~(isr.i <= m_SuspendedThreads.len) => Lost(j) <= 1 + (isr.i - m_SuspendedThreads.len)
  BY DEF CountInv
<1> QED
  BY <1>1, <1>2, <1>3

(* One turn of the walk takes at most one tick from the entry it visits,   *)
(* and none from the others.                                               *)
LEMMA OneTurn ==
    ASSUME IInv, Scanning, NEW c \in 0 .. Forever, isr'.before = isr.before,
           info' = [info EXCEPT ![ScannedInfo].left = c],
           ScannedInfo \in Infos => c >= info[ScannedInfo].left - 1
    PROVE  \A j \in Infos : /\ Lost(j) \in Int /\ Lost(j)' \in Int
                            /\ Lost(j)' <= Lost(j) + 1
                            /\ j # ScannedInfo => Lost(j)' = Lost(j)
<1> SUFFICES ASSUME NEW j \in Infos
             PROVE  /\ Lost(j) \in Int /\ Lost(j)' \in Int
                    /\ Lost(j)' <= Lost(j) + 1
                    /\ j # ScannedInfo => Lost(j)' = Lost(j)
  OBVIOUS
<1>1. /\ isr.before[j] \in 0 .. Forever /\ info[j].left \in 0 .. Forever /\ Forever \in Nat
      /\ info \in [Infos -> [t : Threads \cup {NoThread}, left : 0 .. Forever]]
  BY BoundsAssumption DEF IInv, Types, Forever
<1>2. CASE j # ScannedInfo
  <2>1. info'[j] = info[j]
    BY <1>1, <1>2
  <2>2. Lost(j)' = Lost(j) /\ Lost(j) \in Int
    BY <1>1, <2>1 DEF Lost
  <2> HIDE DEF Lost
  <2> QED
    BY <1>2, <2>2
<1>3. CASE j = ScannedInfo
  <2>1. PICK r \in [t : Threads \cup {NoThread}, left : 0 .. Forever] : r = info[j]
    BY <1>1
  <2>2. info'[j] = [r EXCEPT !.left = c]
    BY <1>1, <1>3, <2>1
  <2>3. info'[j].left = c
    BY <2>1, <2>2
  <2>4. c >= info[j].left - 1
    BY <1>3
  <2>5. Lost(j)' = isr.before[j] - c /\ Lost(j) = isr.before[j] - info[j].left
    BY <2>3 DEF Lost
  <2> QED
    BY <1>1, <1>3, <2>4, <2>5
<1> QED
  BY <1>2, <1>3

LEMMA ThreadStepCounts ==
    ASSUME IInv, CountInv, ThreadStep
    PROVE  CountInv'
<1> USE BoundsAssumption
<1>1. isr' = isr /\ isr.pc = "none"
  BY DEF ThreadStep, AddThread, AddThreadPush, SetEnabled, Sleep, SuspendErase, SuspendPush,
         YieldThreadTime, ThreadFinish, ThreadFinishErase, ThreadFinishYield, LateInitStop, MayCall, At
<1>2. CASE SuspendPush
  <2> DEFINE j == First(Infos \ SleepingInfos)
  <2>1. /\ m_SuspendedThreads \in VectorOf(Infos, Cap) /\ m_SuspendedThreads.len \in Nat
        /\ m_Threads.len \in Nat /\ Cap \in Nat
    BY DEF IInv, Types, VectorOf
  <2>2. m_SuspendedThreads' = PushBack(m_SuspendedThreads, j) /\ m_SuspendedThreads.len < Cap
    BY <1>2, <2>1 DEF SuspendPush, Room
  <2>3. j \in Infos \ SleepingInfos
    <3>1. IsFiniteSet(Infos) /\ Cardinality(Infos) = Cap
      BY CountFromZero DEF Infos
    <3>2. Infos \ SleepingInfos # {}
      BY <2>1, <2>2, <3>1, SomethingIsLeft DEF SleepingInfos
    <3>3. Infos \ SleepingInfos \in SUBSET (0 .. Cap - 1)
      BY DEF Infos
    <3> QED
      BY <2>1, <3>2, <3>3, FirstIsFirst
  <2> HIDE DEF j
  <2>4. Distinct(m_SuspendedThreads')
    BY <2>1, <2>2, <2>3, PushBackKeepsDistinct DEF CountInv, SleepingInfos
  <2> QED
    BY <1>1, <2>4 DEF CountInv, Distinct
<1>3. CASE ~SuspendPush
  <2>1. m_SuspendedThreads' = m_SuspendedThreads
    BY <1>3 DEF ThreadStep, AddThread, AddThreadPush, SetEnabled, Sleep, SuspendErase,
                YieldThreadTime, ThreadFinish, ThreadFinishErase, ThreadFinishYield, LateInitStop,
                sleepVars
  <2> QED
    BY <1>1, <2>1 DEF CountInv, Distinct
<1> QED
  BY <1>2, <1>3

LEMMA HandlerStepCounts ==
    ASSUME IInv, CountInv, Tick \/ HandlerStep
    PROVE  CountInv'
<1> USE BoundsAssumption
<1> DEFINE v == m_SuspendedThreads
<1>0. /\ v \in VectorOf(Infos, Cap) /\ v.len \in 0 .. Cap /\ v.len \in Nat /\ Cap \in Nat
      /\ \A k \in Live(v) : k \in Nat /\ k < v.len /\ v.mem[k] \in SleepingInfos
      /\ \A k \in Nat : k < v.len => k \in Live(v)
      /\ SleepingInfos \subseteq Infos
      /\ isr \in IsrTypes /\ isr.i \in 0 .. Cap /\ isr.end \in 0 .. Cap
      /\ info \in [Infos -> [t : Threads \cup {NoThread}, left : 0 .. Forever]]
  <2>1. /\ v \in VectorOf(Infos, Cap) /\ Cap \in Nat /\ isr \in IsrTypes
        /\ info \in [Infos -> [t : Threads \cup {NoThread}, left : 0 .. Forever]]
    BY DEF IInv, Types, IsrTypes
  <2>2. v.len \in 0 .. Cap /\ v.len \in Nat
    BY <2>1 DEF VectorOf
  <2>3. isr.i \in 0 .. Cap /\ isr.end \in 0 .. Cap
    BY <2>1 DEF IsrTypes
  <2>4. SleepingInfos \subseteq Infos /\ \A k \in Live(v) : v.mem[k] \in SleepingInfos
    BY <2>1, VectorParts DEF SleepingInfos
  <2>5. \A k \in Live(v) : k \in Nat /\ k < v.len
    BY <2>2 DEF Live
  <2>6. \A k \in Nat : k < v.len => k \in Live(v)
    BY <2>2 DEF Live
  <2> QED
    BY <2>1, <2>2, <2>3, <2>4, <2>5, <2>6
<1>1. CASE Tick
  <2>1. /\ v' = v /\ info' = info /\ isr' = [pc |-> "scan", i |-> 0, end |-> v.len,
                                             before |-> [j \in Infos |-> info[j].left]]
    BY <1>1 DEF Tick, sleepVars
  <2>2. \A j \in Infos : Lost(j)' = 0
    <3> TAKE j \in Infos
    <3>1. isr'.before[j] = info[j].left /\ info[j].left \in Int
      BY <1>0, <2>1
    <3> QED
      BY <2>1, <3>1 DEF Lost
  <2>3. SleepingInfos' = SleepingInfos /\ Live(v)' = Live(v) /\ Distinct(v)'
    BY <2>1 DEF SleepingInfos, Elements, Live, CountInv, Distinct
  <2>4. isr'.i = 0 /\ isr'.end = v.len
    BY <2>1
  <2>5. \A j \in SleepingInfos' : Lost(j)' <= 1
    BY <1>0, <2>2, <2>3
  <2>6. \A k \in Live(v)' : Lost(v.mem[k])' <= 0
    <3> TAKE k \in Live(v)'
    <3>1. v'.mem[k] \in Infos
      BY <1>0, <2>1, <2>3
    <3>2. \A j \in Infos : j = v'.mem[k] => Lost(j)' <= 0
      BY <2>2
    <3> QED
      BY <3>1, <3>2 DEF Lost
  <2> QED
    BY <1>0, <2>1, <2>3, <2>4, <2>5, <2>6 DEF CountInv
<1>2. CASE KeepRunning \/ Switch \/ AtThrows
  <2>1. isr'.pc = "none" /\ v'.len = v.len /\ \A k \in Live(v) : v'.mem[k] = v.mem[k]
    <3>1. EndTick
      BY <1>2 DEF KeepRunning, Switch, AtThrows
    <3>2. v' = [v EXCEPT !.mem = [i \in Infos |-> IF i < v.len THEN v.mem[i] ELSE 0]]
      BY <3>1 DEF EndTick
    <3>3. Live(v) \subseteq Infos
      BY <1>0 DEF Live, Infos
    <3>4. v'.len = v.len /\ v'.mem = [i \in Infos |-> IF i < v.len THEN v.mem[i] ELSE 0]
      BY <1>0, <3>2 DEF VectorOf
    <3>5. \A k \in Live(v) : v'.mem[k] = v.mem[k]
      BY <1>0, <3>3, <3>4
    <3>6. isr'.pc = "none"
      BY <3>1 DEF EndTick, NoTick
    <3> QED
      BY <3>4, <3>5, <3>6
  <2>2. Distinct(v)'
    BY <2>1 DEF CountInv, Distinct, Live
  <2> QED
    BY <2>1, <2>2 DEF CountInv
<1>3. CASE ScanStay \/ ScanWake
  <2>1. Scanning /\ isr' = [isr EXCEPT !.i = @ + 1]
    BY <1>3 DEF ScanStay, ScanWake
  <2>2. /\ isr'.pc = "scan" /\ isr.pc = "scan" /\ isr'.before = isr.before /\ isr'.end = isr.end
        /\ isr'.i = isr.i + 1
    BY <1>0, <2>1 DEF Scanning, IsrTypes
  <2>3. \A j \in Infos : /\ Lost(j) \in Int /\ Lost(j)' \in Int
                         /\ Lost(j)' <= Lost(j) + 1
                         /\ j # ScannedInfo => Lost(j)' = Lost(j)
    <3>1. PICK c : /\ info' = [info EXCEPT ![ScannedInfo].left = c]
                   /\ c = Counted \/ (c = 0 /\ Due)
      BY <1>3 DEF ScanStay, ScanWake
    <3>2. ASSUME ScannedInfo \in Infos
          PROVE  c \in 0 .. Forever /\ c >= info[ScannedInfo].left - 1
      <4>1. info[ScannedInfo].left \in 0 .. Forever /\ Forever \in Nat
        BY <1>0, <3>2 DEF Forever
      <4>2. c = Counted
        BY <3>1 DEF Due
      <4>3. CASE Counted = info[ScannedInfo].left
        BY <4>1, <4>2, <4>3
      <4>4. CASE Counted = CountDown(info[ScannedInfo].left)
        BY <4>1, <4>2, <4>4 DEF CountDown
      <4> QED
        BY <4>3, <4>4 DEF Counted
    <3>3. CASE ScannedInfo \in Infos
      BY <2>1, <2>2, <3>1, <3>2, <3>3, OneTurn
    <3>4. CASE ScannedInfo \notin Infos
      <4>1. info' = info
        BY <1>0, <3>1, <3>4
      <4>2. \A j \in Infos : Lost(j)' = Lost(j) /\ Lost(j) \in Int
        <5> TAKE j \in Infos
        <5>1. isr.before[j] \in 0 .. Forever /\ info[j].left \in 0 .. Forever /\ Forever \in Nat
          BY <1>0 DEF IsrTypes, Forever
        <5> QED
          BY <2>2, <4>1, <5>1 DEF Lost
      <4> HIDE DEF Lost
      <4> QED
        BY <4>2
    <3> QED
      BY <3>3, <3>4
  (* An erase keeps the entries apart and moves them to the front only.    *)
  <2>4. /\ v' \in VectorOf(Infos, Cap) /\ v'.len <= v.len /\ Distinct(v)'
        /\ \A k \in Live(v') : \E q \in Live(v) : q >= k /\ v'.mem[k] = v.mem[q]
    <3>1. CASE v' = v
      <4>1. \A k \in Live(v') : k \in Live(v) /\ k >= k /\ v'.mem[k] = v.mem[k]
        BY <1>0, <3>1
      <4>2. Distinct(v)'
        BY <3>1 DEF CountInv, Distinct
      <4> QED
        BY <1>0, <3>1, <4>1, <4>2
    <3>2. ASSUME NEW x, v' = Erase(v, x)
          PROVE  /\ v' \in VectorOf(Infos, Cap) /\ v'.len <= v.len /\ Distinct(v)'
                 /\ \A k \in Live(v') : \E q \in Live(v) : q >= k /\ v'.mem[k] = v.mem[q]
      <4>1. /\ Erase(v, x) \in VectorOf(Infos, Cap) /\ Erase(v, x).len <= v.len
            /\ \A k \in Live(Erase(v, x)) :
                  \E q \in Kept(v, x) : q >= k /\ Erase(v, x).mem[k] = v.mem[q]
        BY <1>0, EraseSpec
      <4>2. Distinct(Erase(v, x))
        BY <1>0, EraseKeepsDistinct DEF CountInv
      <4>3. Distinct(v)'
        BY <3>2, <4>2 DEF Distinct
      <4> QED
        BY <3>2, <4>1, <4>3 DEF Kept
    <3>3. v' = v \/ \E x : v' = Erase(v, x)
      BY <1>3 DEF ScanStay, ScanWake, RemoveSuspendedThread
    <3> QED
      BY <3>1, <3>2, <3>3
  <2>5. v'.len \in Nat /\ \A k \in Live(v') : k \in Nat /\ k < v'.len
    BY <2>4 DEF VectorOf, Live
  <2>6. SleepingInfos' \subseteq SleepingInfos
    BY <1>0, <2>4 DEF SleepingInfos, Elements
  <2>7. v.len <= isr.end /\ v'.len <= isr'.end
    BY <1>0, <2>2, <2>4, <2>5 DEF CountInv
  <2>8. CASE isr.i < v.len
    <3>1. isr.i \in Live(v) /\ ScannedInfo = v.mem[isr.i] /\ Lost(ScannedInfo) <= 0
      BY <1>0, <2>2, <2>8 DEF CountInv, ScannedInfo
    <3>2. \A j \in SleepingInfos : Lost(j) <= 1
      BY <1>0, <2>2, <2>8 DEF CountInv
    <3>3. \A j \in SleepingInfos' : Lost(j)' <= 1
      <4> TAKE j \in SleepingInfos'
      <4>1. j \in SleepingInfos /\ j \in Infos
        BY <1>0, <2>6
      <4>2. CASE j = ScannedInfo
        <5>1. Lost(j) <= 0
          BY <3>1, <4>2 DEF Lost
        <5> HIDE DEF Lost
        <5> QED
          BY <2>3, <4>1, <5>1
      <4>3. CASE j # ScannedInfo
        <5> HIDE DEF Lost
        <5> QED
          BY <2>3, <3>2, <4>1, <4>3
      <4> QED
        BY <4>2, <4>3
    <3>4. ASSUME NEW k \in Live(v'), k >= isr.i + 1, NEW j \in Infos, j = v'.mem[k]
          PROVE  Lost(j)' <= 0
      <4>1. PICK q \in Live(v) : q >= k /\ j = v.mem[q]
        BY <2>4, <3>4
      <4>2. q > isr.i /\ q >= isr.i /\ q # isr.i
        BY <1>0, <2>5, <3>4, <4>1
      <4>3. j # ScannedInfo
        BY <3>1, <4>1, <4>2 DEF CountInv, Distinct
      <4>4. Lost(v.mem[q]) <= 0
        BY <2>2, <4>1, <4>2 DEF CountInv
      <4>5. Lost(j) <= 0
        BY <4>1, <4>4 DEF Lost
      <4> HIDE DEF Lost
      <4> QED
        BY <2>3, <4>3, <4>5
    <3>5. \A k \in Live(v)' : k >= isr'.i => Lost(v.mem[k])' <= 0
      <4> SUFFICES ASSUME NEW k \in Live(v'), k >= isr'.i PROVE Lost(v.mem[k])' <= 0
        OBVIOUS
      <4>1. v'.mem[k] \in Infos
        BY <2>4, VectorParts
      <4>2. \A j \in Infos : j = v'.mem[k] => Lost(j)' <= 0
        BY <2>2, <3>4
      <4> QED
        BY <4>1, <4>2 DEF Lost
    <3>6. \A j \in SleepingInfos' : ~(isr'.i <= v'.len) => 1 <= 1 + (isr'.i - v'.len)
      BY <1>0, <2>2, <2>5
    <3>7. ASSUME NEW j \in SleepingInfos'
          PROVE  IF isr'.i <= v'.len THEN Lost(j)' <= 1 ELSE Lost(j)' <= 1 + (isr'.i - v'.len)
      <4>1. Lost(j)' \in Int /\ Lost(j)' <= 1
        BY <1>0, <2>3, <2>6, <3>3
      <4>2. isr'.i \in Int /\ v'.len \in Int
        BY <1>0, <2>2, <2>5
      <4> DEFINE n == Lost(j)'
      <4> HIDE DEF n
      <4>3. n \in Int /\ n <= 1
        BY <4>1 DEF n
      <4>4. IF isr'.i <= v'.len THEN n <= 1 ELSE n <= 1 + (isr'.i - v'.len)
        BY <4>2, <4>3
      <4> QED
        BY <4>4 DEF n
    <3> QED
      BY <2>2, <2>4, <2>7, <3>5, <3>7 DEF CountInv
  <2>9. CASE ~(isr.i < v.len)
    <3>1. \A j \in SleepingInfos : Lost(j) <= 1 + (isr.i - v.len)
      <4> TAKE j \in SleepingInfos
      <4>1. /\ isr.i <= v.len => Lost(j) <= 1
            /\ ~(isr.i <= v.len) => Lost(j) <= 1 + (isr.i - v.len)
        BY <2>2 DEF CountInv
      <4> HIDE DEF Lost
      <4> QED
        BY <1>0, <2>9, <4>1
    <3>2. ~(isr'.i <= v'.len) /\ \A k \in Live(v)' : ~(k >= isr'.i)
      BY <1>0, <2>2, <2>4, <2>5, <2>9
    <3>3. ASSUME NEW j \in SleepingInfos' PROVE Lost(j)' <= 1 + (isr'.i - v'.len)
      <4>1. /\ Lost(j) \in Int /\ Lost(j)' \in Int /\ Lost(j)' <= Lost(j) + 1
            /\ Lost(j) <= 1 + (isr.i - v.len)
        BY <1>0, <2>3, <2>6, <3>1
      <4> DEFINE n == Lost(j)'
                 m == Lost(j)
      <4> HIDE DEF n, m
      <4>2. n \in Int /\ m \in Int /\ n <= m + 1 /\ m <= 1 + (isr.i - v.len)
        BY <4>1 DEF n, m
      <4>3. n <= 1 + (isr'.i - v'.len)
        BY <1>0, <2>2, <2>4, <2>5, <4>2
      <4> QED
        BY <4>3 DEF n
    <3> QED
      BY <2>2, <2>4, <2>7, <3>2, <3>3 DEF CountInv
  <2> QED
    BY <2>8, <2>9
<1> QED
  BY <1>1, <1>2, <1>3 DEF HandlerStep

LEMMA InitCountInv == Init => CountInv
<1> SUFFICES ASSUME Init PROVE CountInv
  OBVIOUS
<1>1. Live(m_SuspendedThreads) = {} /\ isr.pc = "none"
  BY DEF Init, EmptyVector, Live, NoTick
<1> QED
  BY <1>1 DEF CountInv, Distinct

LEMMA CountInductive ==
    ASSUME IInv, CountInv, [Next]_vars
    PROVE  CountInv'
<1>1. CASE UNCHANGED vars
  <2>1. UNCHANGED <<m_SuspendedThreads, info, isr>>
    BY <1>1 DEF vars, sleepVars
  <2> QED
    BY <2>1 DEF CountInv, Distinct, Lost, SleepingInfos
<1> QED
  BY <1>1, ThreadStepCounts, HandlerStepCounts DEF Next

(* ThinkSuspendedThreads (scheduler.cpp) erases from the list it walks and *)
(* reads the slots the erases left behind, but a sleeper loses at most one *)
(* tick plus one for every sleeper woken in the same tick.                 *)
THEOREM TicksNotLost == Spec => []CountedOncePerWake
<1>1. Init => IInv /\ CountInv
  BY InitIInv, InitCountInv
<1>2. IInv /\ CountInv /\ [Next]_vars => IInv' /\ CountInv'
  BY Inductive, CountInductive
<1>3. IInv /\ CountInv => CountedOncePerWake
  BY CountInvImplies
<1> QED
  BY <1>1, <1>2, <1>3, PTL DEF Spec
=============================================================================
