------------------------------ MODULE MCHabits ------------------------------
(***************************************************************************)
(* The scheduler with AML that may sleep before SetEnabled, and with many  *)
(* threads as long as none of them has slept or returned, few afterwards.  *)
(***************************************************************************)
EXTENDS MCScheduler

CONSTANT Few      \* bound: threads, and entries, once a thread has slept or returned

FewOnceBlocked ==
    \/ NobodyBlocked
    \/ m_ThreadCount <= Few /\ m_Threads.len + m_SuspendedThreads.len <= Few
=============================================================================
