------------------------------ MODULE Spinlock -------------------------------
(***************************************************************************)
(* The spinlock of arch/i386/spinlock.s, as AcpiOsAcquireLock and          *)
(* AcpiOsReleaseLock (acpi/acpi_handlers.cpp:214-225), its only users,     *)
(* take and release it: threads of one CPU, preempted by the timer         *)
(* whenever interrupts are on.                                             *)
(*                                                                         *)
(* pc[t] is the instruction thread t executes next:                        *)
(*   "idle"     outside the lock                                           *)
(*   "bts"      cli is done, lock bts is next                              *)
(*   "spin"     the loop at .spin                                          *)
(*   "sti"      the bit is taken, sti; ret is next                         *)
(*   "cli"      SlLockAcquire has returned, the cli() of                   *)
(*              AcpiOsAcquireLock is next                                  *)
(*   "critical" AcpiOsAcquireLock has returned                             *)
(*   "unlocked" SlLockRelease has returned, the sti() of                   *)
(*              AcpiOsReleaseLock is next                                  *)
(***************************************************************************)
EXTENDS Naturals

CONSTANTS Thread

VARIABLES
    bit,       \* bit 0 of the spinlock
    pc,
    running,   \* the thread on the CPU
    interrupts \* the interrupt flag, IF

vars == <<bit, pc, running, interrupts>>

Locations == {"idle", "bts", "spin", "sti", "cli", "critical", "unlocked"}

Init ==
    /\ bit = 0
    /\ pc = [t \in Thread |-> "idle"]
    /\ running \in Thread
    /\ interrupts = TRUE

Goes(t, from, to) ==
    /\ running = t
    /\ pc[t] = from
    /\ pc' = [pc EXCEPT ![t] = to]
    /\ UNCHANGED running

(* cli; also the jmp back from the loop                                    *)
Acquire(t) == Goes(t, "idle", "bts") /\ interrupts' = FALSE /\ UNCHANGED bit

TestAndAdd(t) ==            \* mutant: an add where the bts is
    /\ Goes(t, "bts", IF bit = 0 THEN "sti" ELSE "spin")
    /\ bit' = bit + 1
    /\ UNCHANGED interrupts

SetOnly(t) == Goes(t, "bts", "sti") /\ bit' = 1 /\ UNCHANGED interrupts  \* mutant: no jc

(* lock bts qword [rdi], 0; jc .spin                                       *)
TestAndSet(t) ==
    /\ Goes(t, "bts", IF bit = 0 THEN "sti" ELSE "spin")
    /\ bit' = 1
    /\ UNCHANGED interrupts

(* test; jnz .spin; jmp SlLockAcquire, whose cli finds interrupts off      *)
(* already                                                                 *)
Spin(t) ==
    /\ Goes(t, "spin", IF bit = 0 THEN "bts" ELSE "spin")
    /\ UNCHANGED <<bit, interrupts>>

(* sti; ret: the interrupt window opens behind the ret                     *)
Return(t) == Goes(t, "sti", "cli") /\ interrupts' = TRUE /\ UNCHANGED bit

NotDisabled(t) ==           \* mutant: AcpiOsAcquireLock without its cli()
    Goes(t, "cli", "critical") /\ UNCHANGED <<bit, interrupts>>

Disable(t) == Goes(t, "cli", "critical") /\ interrupts' = FALSE /\ UNCHANGED bit

(* SlLockRelease                                                           *)
Release(t) == Goes(t, "critical", "unlocked") /\ bit' = 0 /\ UNCHANGED interrupts

Enable(t) == Goes(t, "unlocked", "idle") /\ interrupts' = TRUE /\ UNCHANGED bit

(* The timer interrupt switches to some thread, which goes on with         *)
(* interrupts on (task_switch.s:28).                                       *)
Preempt == interrupts /\ running' \in Thread /\ UNCHANGED <<bit, pc, interrupts>>

Next ==
    \/ Preempt
    \/ \E t \in Thread :
          \/ Acquire(t) \/ TestAndSet(t) \/ Spin(t) \/ Return(t)
          \/ Disable(t) \/ Release(t) \/ Enable(t)

Spec == Init /\ [][Next]_vars

-----------------------------------------------------------------------------
TypeOK ==
    /\ bit \in {0, 1}
    /\ pc \in [Thread -> Locations]
    /\ running \in Thread
    /\ interrupts \in BOOLEAN

Holds(t) == pc[t] \in {"sti", "cli", "critical"}

(* No two threads hold the lock, whatever the timer does between taking    *)
(* the bit and disabling interrupts.                                       *)
MutualExclusion == \A t, u \in Thread : Holds(t) /\ Holds(u) => t = u

(* What AcpiOsAcquireLock's own cli() is for: the code between             *)
(* AcpiOsAcquireLock and AcpiOsReleaseLock is not preempted, although      *)
(* SlLockAcquire turns interrupts on with the lock held.                   *)
CriticalNotPreempted ==
    \A t \in Thread : pc[t] = "critical" => running = t /\ ~interrupts

(* The spinlock implements module Lock: a thread holds the lock from its   *)
(* bts that finds the bit clear to its own SlLockRelease.                  *)
Abstract == INSTANCE Lock WITH holders <- {t \in Thread : Holds(t)}

ImplementsLock == Abstract!Spec
=============================================================================
