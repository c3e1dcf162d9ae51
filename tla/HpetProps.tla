----------------------------- MODULE HpetProps -------------------------------
(***************************************************************************)
(* What the interrupt path and the HPET delay guarantee.                   *)
(***************************************************************************)
EXTENDS Hpet

TypeOK ==
    /\ m_Enabled \in BOOLEAN
    /\ m_Quantum \in 0 .. Quantum
    /\ m_Index \in Threads
    /\ above \in [Threads -> Seq(Handlers)]
    /\ interruptsOn \in BOOLEAN
    /\ stopped \in BOOLEAN
    /\ pending \subseteq {Timer, HpetVector, DriverVector}
    /\ inService \subseteq {Timer, HpetVector, DriverVector}
    /\ hpetSleepFlag \in BOOLEAN
    /\ clobbered \in BOOLEAN
    /\ routed \in BOOLEAN /\ lvt \in BOOLEAN /\ counting \in BOOLEAN /\ armed \in BOOLEAN
    /\ left \in 1 .. Far
    /\ delay \in [Threads -> Callers]
    /\ overlapped \in BOOLEAN

(* The end of interrupt has no argument and is sent from two places, one   *)
(* of them a thread switch that never returns to the handler.  For all     *)
(* that, what the local APIC has in service is what the thread on the CPU  *)
(* is handling and has not ended yet: nothing stays in service behind a    *)
(* switch, and nothing is ended that did not go in service.                *)
ServiceMatches ==
    inService = {h.vec : h \in {Nested[i] : i \in {j \in DOMAIN Nested :
                    Nested[j].vec \in 32 .. 46 /\ Nested[j].pc # "ret"}}}

(* A handler never ends the interrupt of another one.                      *)
EoiEndsOwn ==
    [][\A vec \in inService : vec \notin inService' => Innermost.vec = vec]_allVars

(* All gates but one share an interrupt stack and Think turns interrupts   *)
(* on inside the handler.  What may overwrite the frame of a handler of    *)
(* 32 and up before it has ended its interrupt is a page fault only: no    *)
(* other interrupt comes between its entry and its end of interrupt.       *)
FrameKeptUntilEoi ==
    [][~clobbered /\ clobbered' =>
         LET entered == above'[m_Index][Len(above'[m_Index])].vec
         IN  \/ entered = PageFault
             \/ \A h \in Running : Ist(h.vec) = Ist(entered) => h.vec = PageFault \/ h.pc = "ret"]_allVars

(* A caller of PrepareHpetDelay that no other delay overlaps gets at least *)
(* the delay it asked for: no interrupt left over from an earlier delay    *)
(* ends it.                                                                *)
DelayNotShort ==
    [][\A t \in Threads :
         Waits(t) /\ ~Waits(t)' /\ ~overlapped => delay[t].elapsed >= delay[t].ns]_allVars

-----------------------------------------------------------------------------
(* The handlers, the counter and the timer go on; a thread that is on the  *)
(* CPU again and again gets on with its delay; an interrupt that can be    *)
(* delivered again and again is.                                           *)
Fairness ==
    /\ WF_allVars(HandlerStep /\ UNCHANGED hpetVars)
    /\ \A vec \in {PageFault, Timer} :
          SF_allVars(HandlerStep /\ Innermost.vec = vec /\ UNCHANGED hpetVars)
    /\ \A vec \in {Timer, HpetVector, DriverVector} : SF_allVars(Accept(vec) /\ UNCHANGED hpetVars)
    /\ \A t \in Threads : SF_allVars(DelayStep(t))
    /\ WF_allVars(Count)
    /\ WF_allVars(TimerInterrupt)

FairSpec == Spec /\ Fairness

DriveFallsSilent == <>[](DriverVector \notin pending)

(* Every tick is delivered, whatever the switches in the handler do to     *)
(* the end of interrupt, unless a frame was overwritten.                   *)
TicksDelivered == DriveFallsSilent => (Timer \in pending ~> Timer \notin pending \/ clobbered)

(* Once the timer ticks, a delay that no other one overlaps ends, although *)
(* its interrupt may come between the test of the flag and the hlt, and    *)
(* although the comparator only matches once.                              *)
DelayEnds ==
    DriveFallsSilent =>
        \A t \in Threads : (Waits(t) /\ lvt) ~> (~Waits(t) \/ overlapped \/ clobbered)
=============================================================================
