----------------------------- MODULE MutexProps ------------------------------
(***************************************************************************)
(* What sched::mutex keeps true of itself and of the scheduler below it.   *)
(***************************************************************************)
EXTENDS Mutex, SchedulerProps

(* The mutex and, with Lock and Release among the calls, the scheduler     *)
(* stay within their types: the reference Lock keeps into m_Threads, and   *)
(* the slots Release reads behind the end of its shrinking list, hold what *)
(* they should.                                                            *)
MutexTypeOK ==
    /\ TypeOK
    /\ m_Flag \in BOOLEAN
    /\ due \subseteq Threads
    /\ m_Waiters \in VectorOf(Nat, Cap)
    /\ cpu.pc = "mark" => m_Threads.mem[cpu.n] \in Threads
    /\ cpu.pc \in {"wake", "delist"} => cpu.n < cpu.end /\ cpu.end <= Cap

(* Lock enlists the thread it finds in m_Threads[m_Index], and suspends    *)
(* the one it finds in that slot later: after a preemption neither need be *)
(* the caller, but neither is ever the idle thread, which could not be     *)
(* scheduled again.                                                        *)
IdleNeverWaits ==
    /\ \A i \in Live(m_Waiters) : m_Waiters.mem[i] # m_Id[Idle]
    /\ m_SuspendReason[Idle] = "NotSuspended"

(* Release erases from the list it walks, up to the end() it took at the   *)
(* start.  For one or two entries the stale slot behind the shrunk list    *)
(* makes up for the one the erase skips: by the end of the walk all the    *)
(* threads it found waiting have been put back in the queue.               *)
ReleaseWakesAll ==
    [][At("delist") /\ cpu'.pc = "run" => due = {}]_allVars
=============================================================================
