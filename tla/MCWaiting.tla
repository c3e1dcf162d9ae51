------------------------------ MODULE MCWaiting ------------------------------
(***************************************************************************)
(* The kernel mutex and the kernel semaphore for TLC, one at a time.       *)
(***************************************************************************)
EXTENDS MutexProps, SemaphoreProps, TLC

VARIABLE using

WaitingInit ==
    /\ MutexInit /\ SemaphoreInit
    /\ using \in {"mutex", "semaphore"}
    /\ using = "mutex" => m_Counter = 0

WaitingNext ==
    /\ \/ using = "mutex" /\ MutexNext /\ UNCHANGED semaphoreVars
       \/ using = "semaphore" /\ SemaphoreNext /\ UNCHANGED mutexVars
    /\ UNCHANGED using

WaitingSpec == WaitingInit /\ [][WaitingNext]_<<allVars, semaphoreVars, using>>

WaitingCalls == {"lock", "release", "wait", "trywait", "notify"}
OneTick == {1}
NoneOrOne == {0, 1}

=============================================================================
