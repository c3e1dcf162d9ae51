--------------------------- MODULE SpinlockProofs ----------------------------
(***************************************************************************)
(* MutualExclusion and CriticalNotPreempted for any number of threads, and *)
(* that the spinlock implements module Lock.                               *)
(*                                                                         *)
(* The first two are not inductive.  Inv adds that the bit is set while    *)
(* some thread holds the lock, and that interrupts are off, and the thread *)
(* therefore on the CPU, everywhere but at the three places the code       *)
(* leaves them on.                                                         *)
(***************************************************************************)
EXTENDS Spinlock, TLAPS

InterruptsOff ==
    \A t \in Thread : pc[t] \notin {"idle", "cli"} => running = t /\ ~interrupts

BitSet == \A t \in Thread : Holds(t) => bit = 1

Inv == TypeOK /\ MutualExclusion /\ BitSet /\ InterruptsOff

LEMMA InitInv == Init => Inv
BY DEF Init, Inv, TypeOK, MutualExclusion, BitSet, InterruptsOff, Holds, Locations

LEMMA NextInv ==
    ASSUME Inv, [Next]_vars
    PROVE  Inv'
<1> USE DEF Inv, TypeOK, MutualExclusion, BitSet, InterruptsOff, Holds, Locations
<1>1. ASSUME NEW t \in Thread, Acquire(t) PROVE Inv'
  BY <1>1 DEF Acquire, Goes
<1>2. ASSUME NEW t \in Thread, TestAndSet(t) PROVE Inv'
  <2>1. CASE bit = 0
    BY <1>2, <2>1 DEF TestAndSet, Goes
  <2>2. CASE bit = 1
    BY <1>2, <2>2 DEF TestAndSet, Goes
  <2> QED
    BY <2>1, <2>2
<1>3. ASSUME NEW t \in Thread, Spin(t) PROVE Inv'
  <2>1. CASE bit = 0
    BY <1>3, <2>1 DEF Spin, Goes
  <2>2. CASE bit = 1
    BY <1>3, <2>2 DEF Spin, Goes
  <2> QED
    BY <2>1, <2>2
<1>4. ASSUME NEW t \in Thread, Return(t) PROVE Inv'
  BY <1>4 DEF Return, Goes
<1>5. ASSUME NEW t \in Thread, Disable(t) PROVE Inv'
  BY <1>5 DEF Disable, Goes
<1>6. ASSUME NEW t \in Thread, Release(t) PROVE Inv'
  BY <1>6 DEF Release, Goes
<1>7. ASSUME NEW t \in Thread, Enable(t) PROVE Inv'
  BY <1>7 DEF Enable, Goes
<1>8. CASE Preempt
  BY <1>8 DEF Preempt
<1>9. CASE UNCHANGED vars
  BY <1>9 DEF vars
<1> QED
  BY <1>1, <1>2, <1>3, <1>4, <1>5, <1>6, <1>7, <1>8, <1>9 DEF Next

(* Two threads are never between taking the bit with bts and clearing it.  *)
THEOREM Exclusion == Spec => []MutualExclusion
<1>1. Init => Inv
  BY InitInv
<1>2. Inv /\ [Next]_vars => Inv'
  BY NextInv
<1>3. Inv => MutualExclusion
  BY DEF Inv
<1> QED
  BY <1>1, <1>2, <1>3, PTL DEF Spec

(* The timer never switches away from code that AcpiOsAcquireLock protects. *)
THEOREM Uninterrupted == Spec => []CriticalNotPreempted
<1>1. Init => Inv
  BY InitInv
<1>2. Inv /\ [Next]_vars => Inv'
  BY NextInv
<1>3. Inv => CriticalNotPreempted
  BY DEF Inv, InterruptsOff, CriticalNotPreempted
<1> QED
  BY <1>1, <1>2, <1>3, PTL DEF Spec

(* All locations, the bit and the CPU's state stay within their types.     *)
THEOREM TypeCorrect == Spec => []TypeOK
<1>1. Inv => TypeOK
  BY DEF Inv
<1> QED
  BY <1>1, InitInv, NextInv, PTL DEF Spec

-----------------------------------------------------------------------------
Holders == {t \in Thread : Holds(t)}

LEMMA InitHolders == Init => Abstract!Init
BY DEF Init, Holds, Abstract!Init

(* Every instruction takes the lock, gives it back or leaves the holders   *)
(* as they are.                                                            *)
LEMMA StepHolders ==
    ASSUME Inv, Inv', [Next]_vars
    PROVE  [Abstract!Next]_Holders
<1> USE DEF Holders
<1>1. ASSUME NEW t \in Thread, TestAndSet(t), bit = 0 PROVE Abstract!Next
  <2>1. Holders = {}
    BY <1>1 DEF Inv, BitSet
  <2>2. pc' = [pc EXCEPT ![t] = "sti"]
    BY <1>1 DEF TestAndSet, Goes
  <2>3. Holders' = {t}
    BY <2>1, <2>2 DEF Inv, TypeOK, Holds
  <2> QED
    BY <2>1, <2>3 DEF Abstract!Next, Abstract!Take
<1>2. ASSUME NEW t \in Thread, Release(t) PROVE Abstract!Next
  <2>1. Holders = {t}
    BY <1>2 DEF Inv, MutualExclusion, Holds, Release, Goes
  <2>2. pc' = [pc EXCEPT ![t] = "unlocked"]
    BY <1>2 DEF Release, Goes
  <2>3. Holders' = {}
    BY <2>1, <2>2 DEF Inv, TypeOK, Holds
  <2> QED
    BY <2>1, <2>3 DEF Abstract!Next, Abstract!Give
<1>3. ASSUME NEW t \in Thread, TestAndSet(t), bit = 1 PROVE UNCHANGED Holders
  BY <1>3 DEF TestAndSet, Goes, Inv, TypeOK, Holds
<1>4. ASSUME NEW t \in Thread, Spin(t) PROVE UNCHANGED Holders
  <2>1. CASE bit = 0
    BY <1>4, <2>1 DEF Spin, Goes, Inv, TypeOK, Holds
  <2>2. CASE bit = 1
    BY <1>4, <2>2 DEF Spin, Goes, Inv, TypeOK, Holds
  <2> QED
    BY <2>1, <2>2 DEF Inv, TypeOK
<1>5. ASSUME NEW t \in Thread, Acquire(t) \/ Return(t) \/ Disable(t) \/ Enable(t)
      PROVE  UNCHANGED Holders
  BY <1>5 DEF Acquire, Return, Disable, Enable, Goes, Inv, TypeOK, Holds
<1>6. CASE Preempt
  BY <1>6 DEF Preempt, Holds
<1>7. CASE UNCHANGED vars
  BY <1>7 DEF vars, Holds
<1> QED
  BY <1>1, <1>2, <1>3, <1>4, <1>5, <1>6, <1>7 DEF Next, Inv, TypeOK

(* The instructions of spinlock.s, with the cli and sti of its callers,    *)
(* implement a lock that one thread holds at a time.                       *)
THEOREM Implements == Spec => ImplementsLock
<1>1. Init => Abstract!Init
  BY InitHolders
<1>2. Inv /\ Inv' /\ [Next]_vars => [Abstract!Next]_Holders
  BY StepHolders
<1>3. Inv /\ [Next]_vars => Inv'
  BY NextInv
<1> QED
  BY <1>1, <1>2, <1>3, InitInv, PTL DEF Spec, ImplementsLock, Abstract!Spec, Holders
=============================================================================
