--------------------------- MODULE SemaphoreProps ---------------------------
(***************************************************************************)
(* What sched::semaphore keeps true, although none of its calls turns      *)
(* interrupts off.                                                         *)
(***************************************************************************)
EXTENDS Semaphore, SchedulerProps

(* Notify takes the magnitude of the new counter for an index into the     *)
(* waiter list, from which nothing is ever erased.  The entry it finds is  *)
(* one of the list, unless two calls overlapped and a count was lost or    *)
(* its entry not pushed yet.                                               *)
NotifyInList == cpu.pc = "unflag" /\ ~overlapped => cpu.n < m_Waits.len

(* However Wait and Notify interleave, the thread that is marked Waiting,  *)
(* by slot, and the threads enlisted, by slot, are those whose code called *)
(* Wait: no tick between the reads of m_Index and their use mixes them up. *)
WaitersCalledWait ==
    [][/\ At("flag") => \A t \in Threads :
              m_SuspendReason'[t] # m_SuspendReason[t] => OwnContext(t, cpu)
       /\ m_Waits'.len > m_Waits.len
              => OwnContext(m_Threads.mem[m_Waits'.mem[m_Waits.len]], cpu)]_semVars
=============================================================================
