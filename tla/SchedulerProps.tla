--------------------------- MODULE SchedulerProps ---------------------------
(***************************************************************************)
(* What the scheduler of module Scheduler guarantees.                      *)
(***************************************************************************)
EXTENDS Scheduler

(* The queue, the suspended list and the interrupt handler are within      *)
(* their bounds, and m_Index only ever points at a slot that holds or held *)
(* a thread: the unchecked read in ThinkDeep and GetCurrentThread may be   *)
(* past the end of m_Threads, but it never returns an invalid pointer.     *)
TypeOK ==
    /\ m_Enabled \in BOOLEAN
    /\ m_Threads \in VectorOf(Threads \cup {NoThread}, Cap)
    /\ m_SuspendedThreads \in VectorOf(Infos, Cap)
    /\ m_ThreadCount \in Nat
    /\ m_Quantum \in 0 .. Quantum
    /\ m_Index \in 0 .. Cap - 1
    /\ m_Id \in [Threads -> Nat]
    /\ m_SuspendReason \in [Threads -> {"NotSuspended", "Sleeping", "Waiting"}]
    /\ saved \in [Threads -> Contexts]
    /\ info \in [Infos -> [t : Threads \cup {NoThread}, left : 0 .. Forever]]
    /\ cpu \in Contexts
    /\ isr \in [pc : {"none", "scan"}, i : 0 .. Cap, end : 0 .. Cap,
                before : [Infos -> 0 .. Forever]]
    /\ isr.i <= isr.end
    /\ halted \in BOOLEAN
    /\ CurrentThread \in Threads

(* The idle thread is always in the queue, at its front, and nowhere else, *)
(* whichever threads sleep, finish or are suspended by mistake: so         *)
(* ThinkDeep always has a thread to switch to and m_Threads.at never       *)
(* throws.                                                                 *)
IdleAlwaysRunnable ==
    /\ m_Threads.len >= 1
    /\ m_Threads.mem[0] = Idle
    /\ \A i \in 1 .. Cap - 1 : m_Threads.mem[i] # Idle
    /\ \A j \in SleepingInfos : info[j].t # Idle

(* ThinkSuspendedThreads erases from the list it walks.  For all that, in  *)
(* one tick no sleeper loses more than one tick plus one for every sleeper *)
(* woken in the same tick.                                                 *)
CountedOncePerWake ==
    isr.pc = "scan" =>
        \A j \in SleepingInfos :
            isr.before[j] - info[j].left <= 1 + (isr.end - m_SuspendedThreads.len)

(* What a switch saves over a thread, and resumes for it, is that thread's *)
(* own context: SaveState never overwrites another thread's registers.     *)
(* The boot context takes the place of the idle thread's.                  *)
OwnContext(t, c) == c.of = t \/ (t = Idle /\ c.of = Boot)

ContextsOwned ==
    /\ \A t \in Threads : OwnContext(t, saved[t])
    /\ OwnContext(CurrentThread, cpu)

(* Every thread AddThread was called for is in the queue exactly once.     *)
EachThreadQueuedOnce ==
    \A t \in {u \in Threads : m_Id[u] # 0} :
        Cardinality({i \in Live(m_Threads) : m_Threads.mem[i] = t}) = 1

(* No thread has slept or returned yet: a slept thread keeps its           *)
(* m_SuspendReason when it wakes, one that returned stays in a hlt loop.   *)
NobodyBlocked ==
    /\ \A t \in Threads : m_SuspendReason[t] = "NotSuspended"
    /\ \A c \in AllContexts : c.pc \in {"retire", "leave", "halt"} => c.of \notin Workers

(* ContextsOwned, for threads that have not blocked: a switch never mixes  *)
(* up two threads' registers.                                              *)
NonBlockingContextsOwned == NobodyBlocked => ContextsOwned

(* EachThreadQueuedOnce, for threads that have not blocked: no thread      *)
(* drops out of the queue or enters it twice.                              *)
NonBlockingQueuedOnce == NobodyBlocked => EachThreadQueuedOnce

-----------------------------------------------------------------------------
Queued(t) == t \in Elements(m_Threads)

(* Nobody in the queue is passed over for ever, although an erase shifts   *)
(* the queue under m_Index and makes the switch skip a thread: a thread    *)
(* that stays queued is switched to again and again, unless the CPU stops. *)
NoStarvation ==
    \A t \in Threads :
        <>[](Queued(t) /\ ~halted) => []<><<Switch /\ NextThread = t>>_vars

(* A thread in the suspended list with ticks left returns to the queue,    *)
(* although the walk over the list may skip it on ticks that wake others.  *)
Asleep(t) == \E j \in SleepingInfos : info[j].t = t /\ info[j].left \in 1 .. MaxLeft

SleepersWake == \A t \in Threads : Asleep(t) ~> (Queued(t) \/ halted)

-----------------------------------------------------------------------------
(* thread.h:41 "thread called Sleep": the thread that gets the suspend     *)
(* reason Sleeping is the one whose code called Sleep.                     *)
SleepingCalledSleep ==
    [][\A t \in Threads :
         (~Sleeps(t) /\ Sleeps(t)') => OwnContext(t, cpu)]_vars
=============================================================================
