----------------------------- MODULE HpetProofs ------------------------------
(***************************************************************************)
(* The interrupt path and the HPET delay, for any number of threads, any   *)
(* quantum and any lengths of delay: TypeOK, ServiceMatches and the action *)
(* properties EoiEndsOwn, FrameKeptUntilEoi and DelayNotShort.             *)
(*                                                                         *)
(* StackInv is the argument for the first four.  A handler that has not    *)
(* come to its iretq is on the stack of the thread on the CPU, and runs    *)
(* with interrupts off unless it is a tick's after Think: nothing but a    *)
(* page fault comes on top of it, and a page fault keeps them off.  After  *)
(* Think the tick itself is in service and keeps all others out.           *)
(*                                                                         *)
(* DelayInv is the argument for the last: as long as no two delays have    *)
(* overlapped, what is left on the comparator and what has elapsed come to *)
(* the delay, and the one interrupt this can raise is requested, or being  *)
(* handled, or has cleared the flag.                                       *)
(***************************************************************************)
EXTENDS HpetProps, SequenceTheorems, TLAPS

(* The handler has not come to its iretq, and is not that of a page fault. *)
Busy(h) == h.vec # PageFault /\ h.pc # "ret"

(* It is a tick's, and Think has returned with interrupts on.              *)
Late(h) == h.vec = Timer /\ h.pc = "eoi"

Masked(h) == Busy(h) /\ ~Late(h)

(* What it handles is in service.                                          *)
Open(h) == h.vec \in 32 .. 46 /\ h.pc # "ret"

StackInv ==
    /\ \A t \in Threads \ {m_Index} : \A i \in DOMAIN above[t] : ~Busy(above[t][i])
    /\ \A i, j \in DOMAIN Nested : Open(Nested[i]) /\ Open(Nested[j]) => i = j
    /\ \A i \in DOMAIN Nested : Masked(Nested[i]) => ~interruptsOn
    /\ \A i, j \in DOMAIN Nested :
          i < j /\ Masked(Nested[i]) => Nested[j].vec = PageFault /\ ~Nested[j].flags
    /\ \A vec \in inService : \E i \in DOMAIN Nested : Open(Nested[i]) /\ Nested[i].vec = vec
    /\ \A i \in DOMAIN Nested : Open(Nested[i]) => Nested[i].vec \in inService

(* The interrupt of the HPET is on its way to its handler.                 *)
HpetEntered == \E i \in DOMAIN Nested : Nested[i].vec = HpetVector /\ Nested[i].pc = "body"
Raised == HpetVector \in pending \/ HpetEntered

Sound(t) ==
    /\ delay[t].elapsed + left >= delay[t].ns
    /\ delay[t].pc = "compare" => delay[t].lag <= delay[t].elapsed
    /\ delay[t].pc \in {"stop", "read", "compare"} => left = Far
    /\ Raised \/ ~hpetSleepFlag =>
          /\ left = Far
          /\ delay[t].elapsed >= delay[t].ns
          /\ delay[t].pc \notin {"stop", "read", "compare"}
    /\ Raised => hpetSleepFlag
    /\ ~(HpetVector \in pending /\ HpetEntered)

DelayInv ==
    ~overlapped =>
        /\ \A t, u \in Threads : Waits(t) /\ Waits(u) => t = u
        /\ (\A t \in Threads : ~Waits(t)) => ~Raised /\ left = Far
        /\ \A t \in Threads : Waits(t) => Sound(t)

(* A spurious interrupt is not ended.                                      *)
SpuriousInv ==
    \A t \in Threads : \A i \in DOMAIN above[t] :
        above[t][i].vec = SpuriousVector => above[t][i].pc # "eoi"

BootInv == TypeOK /\ StackInv /\ SpuriousInv /\ DelayInv

-----------------------------------------------------------------------------
(* The three changes of the stack of the thread on the CPU: one handler    *)
(* more, the innermost at another step, one less.                          *)
LEMMA Depth ==
    ASSUME TypeOK
    PROVE  /\ m_Index \in Threads /\ Nested \in Seq(Handlers) /\ Len(Nested) \in Nat
           /\ DOMAIN Nested = 1 .. Len(Nested)
           /\ \A i \in DOMAIN Nested : Nested[i] \in Handlers
           /\ Nested # <<>> => Len(Nested) \in DOMAIN Nested /\ Innermost \in Handlers
<1>1. m_Index \in Threads /\ Nested \in Seq(Handlers)
  BY DEF TypeOK, Nested
<1>2. Len(Nested) \in Nat /\ DOMAIN Nested = 1 .. Len(Nested)
  BY <1>1, LenProperties
<1>3. \A i \in DOMAIN Nested : Nested[i] \in Handlers
  BY <1>1, <1>2, ElementOfSeq
<1>4. Nested # <<>> => Len(Nested) \in DOMAIN Nested
  BY <1>1, <1>2, EmptySeq
<1> QED
  BY <1>1, <1>2, <1>3, <1>4 DEF Innermost

LEMMA FrontOfSeq ==
    ASSUME NEW S, NEW s \in Seq(S), s # <<>>
    PROVE  /\ SubSeq(s, 1, Len(s) - 1) \in Seq(S)
           /\ Len(SubSeq(s, 1, Len(s) - 1)) = Len(s) - 1
           /\ \A i \in 1 .. Len(s) - 1 : SubSeq(s, 1, Len(s) - 1)[i] = s[i]
<1>1. Len(s) \in Nat \ {0} /\ \A i \in 1 .. Len(s) : s[i] \in S
  BY EmptySeq, LenProperties, ElementOfSeq
<1>2. PICK n \in Nat : n = Len(s) - 1
  BY <1>1
<1>3. \A i \in 1 .. n : s[i] \in S
  BY <1>1, <1>2
<1>4. /\ SubSeq(s, 1, n) \in Seq(S)
      /\ Len(SubSeq(s, 1, n)) = IF 1 <= n THEN n - 1 + 1 ELSE 0
      /\ \A i \in 1 .. n - 1 + 1 : SubSeq(s, 1, n)[i] = s[1 + i - 1]
  <2>1. 1 \in Int /\ n \in Int
    OBVIOUS
  <2> QED
    BY <1>3, <2>1, SubSeqProperties
<1>5. Len(SubSeq(s, 1, n)) = n /\ \A i \in 1 .. n : SubSeq(s, 1, n)[i] = s[i]
  BY <1>4
<1> QED
  BY <1>2, <1>4, <1>5

Others == \A t \in Threads \ {m_Index} : above'[t] = above[t]

LEMMA Pushed ==
    ASSUME TypeOK, NEW h \in Handlers,
           above' = [above EXCEPT ![m_Index] = Append(@, h)]
    PROVE  /\ above' \in [Threads -> Seq(Handlers)] /\ Others
           /\ DOMAIN above'[m_Index] = 1 .. Len(Nested) + 1
           /\ \A i \in DOMAIN Nested : above'[m_Index][i] = Nested[i]
           /\ above'[m_Index][Len(Nested) + 1] = h
           /\ Len(above'[m_Index]) = Len(Nested) + 1
<1>1. Nested \in Seq(Handlers) /\ m_Index \in Threads /\ DOMAIN Nested = 1 .. Len(Nested)
  BY Depth
<1>2. above \in [Threads -> Seq(Handlers)]
  BY DEF TypeOK
<1>3. above'[m_Index] = Append(Nested, h) /\ Others
  BY <1>1, <1>2 DEF Nested, Others
<1>4. /\ Append(Nested, h) \in Seq(Handlers)
      /\ Len(Append(Nested, h)) = Len(Nested) + 1
      /\ \A i \in 1 .. Len(Nested) : Append(Nested, h)[i] = Nested[i]
      /\ Append(Nested, h)[Len(Nested) + 1] = h
  BY <1>1, AppendProperties
<1>5. DOMAIN Append(Nested, h) = 1 .. Len(Nested) + 1
  BY <1>4, LenProperties
<1>6. above' \in [Threads -> Seq(Handlers)]
  BY <1>1, <1>2, <1>3, <1>4 DEF Nested
<1> QED
  BY <1>1, <1>3, <1>4, <1>5, <1>6

LEMMA Moved ==
    ASSUME TypeOK, Nested # <<>>, NEW pc \in {"body", "eoi", "ret"}, GoTo(pc)
    PROVE  /\ above' \in [Threads -> Seq(Handlers)] /\ Others
           /\ DOMAIN above'[m_Index] = DOMAIN Nested
           /\ \A i \in DOMAIN Nested :
                 i # Len(Nested) => above'[m_Index][i] = Nested[i]
           /\ above'[m_Index][Len(Nested)].vec = Innermost.vec
           /\ above'[m_Index][Len(Nested)].pc = pc
           /\ above'[m_Index][Len(Nested)].flags = Innermost.flags
<1> DEFINE h == [Innermost EXCEPT !.pc = pc]
           moved == [Nested EXCEPT ![Len(Nested)] = h]
<1>1. /\ Nested \in Seq(Handlers) /\ m_Index \in Threads /\ DOMAIN Nested = 1 .. Len(Nested)
      /\ Len(Nested) \in DOMAIN Nested /\ Innermost \in Handlers
  BY Depth
<1>2. h \in Handlers /\ h.vec = Innermost.vec /\ h.pc = pc /\ h.flags = Innermost.flags
  BY <1>1 DEF Handlers
<1>3. above \in [Threads -> Seq(Handlers)]
  BY DEF TypeOK
<1>4. above' = [above EXCEPT ![m_Index] = moved]
  BY DEF GoTo, Nested, Innermost
<1> HIDE DEF h
<1>5. /\ moved \in Seq(Handlers) /\ Len(moved) = Len(Nested)
      /\ \A j \in 1 .. Len(Nested) : moved[j] = IF j = Len(Nested) THEN h ELSE Nested[j]
  BY <1>1, <1>2, ExceptSeq
<1>6. DOMAIN moved = DOMAIN Nested
  OBVIOUS
<1> HIDE DEF moved
<1>7. above'[m_Index] = moved /\ Others /\ above' \in [Threads -> Seq(Handlers)]
  BY <1>1, <1>3, <1>4, <1>5 DEF Others
<1> QED
  BY <1>1, <1>2, <1>5, <1>6, <1>7

LEMMA Popped ==
    ASSUME TypeOK, Nested # <<>>, above' = Pop
    PROVE  /\ above' \in [Threads -> Seq(Handlers)] /\ Others
           /\ DOMAIN above'[m_Index] = 1 .. Len(Nested) - 1
           /\ \A i \in 1 .. Len(Nested) - 1 : above'[m_Index][i] = Nested[i]
<1> DEFINE rest == SubSeq(Nested, 1, Len(Nested) - 1)
<1>1. /\ Nested \in Seq(Handlers) /\ m_Index \in Threads /\ DOMAIN Nested = 1 .. Len(Nested)
      /\ Len(Nested) \in DOMAIN Nested /\ \A i \in DOMAIN Nested : Nested[i] \in Handlers
      /\ Len(Nested) \in Nat
  BY Depth
<1>2. above \in [Threads -> Seq(Handlers)]
  BY DEF TypeOK
<1>3. above' = [above EXCEPT ![m_Index] = rest]
  BY DEF Pop, Nested
<1>4. /\ rest \in Seq(Handlers)
      /\ Len(rest) = Len(Nested) - 1
      /\ \A i \in 1 .. Len(Nested) - 1 : rest[i] = Nested[i]
  BY <1>1, FrontOfSeq
<1> HIDE DEF rest
<1>5. DOMAIN rest = 1 .. Len(Nested) - 1
  BY <1>4, LenProperties
<1>6. above'[m_Index] = rest /\ Others /\ above' \in [Threads -> Seq(Handlers)]
  BY <1>1, <1>2, <1>3, <1>4 DEF Others
<1> QED
  BY <1>4, <1>5, <1>6

(* The two end of interrupts: a handler whose interrupt is in service ends *)
(* that one, which is the only one.                                        *)
LEMMA EndsOwn ==
    ASSUME TypeOK, StackInv, Nested # <<>>, Open(Innermost), EndOfInterrupt
    PROVE  inService = {Innermost.vec} /\ inService' = {}
<1>1. Len(Nested) \in DOMAIN Nested /\ Innermost = Nested[Len(Nested)] /\ Innermost.vec \in Int
  BY Depth DEF Innermost, Open
<1>2. Innermost.vec \in inService
  BY <1>1 DEF StackInv
<1>3. \A vec \in inService : vec = Innermost.vec
  <2> SUFFICES ASSUME NEW vec \in inService PROVE vec = Innermost.vec
    OBVIOUS
  <2>1. PICK i \in DOMAIN Nested : Open(Nested[i]) /\ Nested[i].vec = vec
    BY DEF StackInv
  <2>2. i = Len(Nested)
    BY <1>1, <2>1 DEF StackInv
  <2> QED
    BY <1>1, <2>1, <2>2
<1>4. inService = {Innermost.vec}
  BY <1>2, <1>3
<1> QED
  BY <1>1, <1>4 DEF EndOfInterrupt

-----------------------------------------------------------------------------
(* StackInv, one lemma for each way a step leaves the stacks.              *)
LEMMA StackKept ==
    ASSUME StackInv, UNCHANGED <<above, m_Index, inService>>,
           interruptsOn' = interruptsOn \/ Nested = <<>>
    PROVE  StackInv'
<1>1. Nested' = Nested
  BY DEF Nested
<1>2. Nested = <<>> => DOMAIN Nested = {}
  OBVIOUS
<1> QED
  BY <1>1, <1>2 DEF StackInv

(* What is delivered while interrupts are on finds no masked handler, and  *)
(* what the local APIC delivers no busy one.                               *)
LEMMA NothingMasked ==
    ASSUME TypeOK, StackInv, interruptsOn
    PROVE  \A t \in Threads : \A i \in DOMAIN above[t] : ~Masked(above[t][i])
BY DEF StackInv, Masked, Nested

LEMMA NothingBusy ==
    ASSUME TypeOK, StackInv, NEW vec, Accept(vec)
    PROVE  /\ vec \in {Timer, HpetVector, DriverVector}
           /\ \A t \in Threads : \A i \in DOMAIN above[t] : ~Busy(above[t][i])
<1>1. vec \in {Timer, HpetVector, DriverVector} /\ interruptsOn
      /\ \A s \in inService : Priority(s) < Priority(vec)
  BY DEF TypeOK, Accept
<1>2. Priority(Timer) = 2 /\ Priority(vec) = 2
  BY <1>1 DEF Priority, Timer, HpetVector, DriverVector
<1>3. Timer \notin inService
  BY <1>1, <1>2
<1>4. ASSUME NEW t \in Threads, NEW i \in DOMAIN above[t], Busy(above[t][i])
      PROVE  FALSE
  <2>1. t = m_Index
    BY <1>4 DEF StackInv
  <2>2. Late(Nested[i]) /\ i \in DOMAIN Nested
    BY <1>1, <1>4, <2>1, NothingMasked DEF Masked, Nested
  <2>3. Open(Nested[i]) /\ Nested[i].vec = Timer
    BY <2>2 DEF Late, Open, Timer
  <2> QED
    BY <1>3, <2>2, <2>3 DEF StackInv
<1> QED
  BY <1>1, <1>4

LEMMA EnteredHandler ==
    ASSUME TypeOK, NEW vec \in {PageFault, Timer, HpetVector, DriverVector, SpuriousVector}, Enter(vec)
    PROVE  LET h == above'[m_Index][Len(Nested) + 1]
           IN  /\ above' \in [Threads -> Seq(Handlers)] /\ Others
               /\ DOMAIN above'[m_Index] = 1 .. Len(Nested) + 1
               /\ Len(above'[m_Index]) = Len(Nested) + 1
               /\ \A i \in DOMAIN Nested : above'[m_Index][i] = Nested[i]
               /\ h.vec = vec /\ h.pc = "body" /\ h.flags = interruptsOn
               /\ m_Index' = m_Index
<1> DEFINE h == [vec |-> vec, pc |-> "body", flags |-> interruptsOn]
<1>1. h \in Handlers /\ h.vec = vec /\ h.pc = "body" /\ h.flags = interruptsOn
  BY DEF TypeOK, Handlers
<1>2. above' = [above EXCEPT ![m_Index] = Append(@, h)] /\ m_Index' = m_Index
  BY DEF Enter, schedVars
<1> HIDE DEF h
<1> QED
  BY <1>1, <1>2, Pushed

LEMMA AcceptKeepsStack ==
    ASSUME TypeOK, StackInv, NEW vec, Accept(vec)
    PROVE  StackInv'
<1> DEFINE n == Len(Nested) + 1
           N == above'[m_Index]
<1>1. vec \in {Timer, HpetVector, DriverVector}
      /\ \A t \in Threads : \A i \in DOMAIN above[t] : ~Busy(above[t][i])
  BY NothingBusy
<1>2. /\ Others /\ m_Index' = m_Index
      /\ DOMAIN N = 1 .. n
      /\ \A i \in DOMAIN Nested : N[i] = Nested[i]
      /\ N[n].vec = vec /\ N[n].pc = "body"
  BY <1>1, EnteredHandler DEF Accept
<1>3. /\ m_Index \in Threads /\ Len(Nested) \in Nat /\ DOMAIN Nested = 1 .. Len(Nested)
      /\ \A i \in DOMAIN Nested : Nested[i] \in Handlers
  BY Depth
<1>4. ~interruptsOn' /\ inService' = inService \cup {vec}
  <2>1. ~TrapGate(vec)
    BY <1>1 DEF TrapGate, Timer, HpetVector, DriverVector
  <2> QED
    BY <2>1 DEF Accept, Enter
<1>5. \A i \in DOMAIN N : i # n => i \in DOMAIN Nested /\ ~Busy(N[i])
  BY <1>1, <1>2, <1>3 DEF Nested
<1>6. Open(N[n])
  BY <1>1, <1>2 DEF Open, Timer, HpetVector, DriverVector
<1>7. \A h \in Handlers : Open(h) => Busy(h)
  BY DEF Open, Busy, PageFault
<1>8. inService = {}
  BY <1>1, <1>3, <1>7 DEF StackInv, Nested
<1>9. \A i \in DOMAIN N : i # n => ~Open(N[i])
  BY <1>2, <1>3, <1>5, <1>7
<1>10. n \in DOMAIN N
  BY <1>2, <1>3
<1>11. Nested' = N
  BY <1>2 DEF Nested
<1>12. \A t \in Threads \ {m_Index} : \A i \in DOMAIN above'[t] : ~Busy(above'[t][i])
  BY <1>1, <1>2 DEF Others
<1>13. \A i, j \in DOMAIN N : i < j => i # n
  BY <1>2
<1> HIDE DEF n, N
<1>14. \A i, j \in DOMAIN N : Open(N[i]) /\ Open(N[j]) => i = j
  BY <1>9
<1>15. \A i \in DOMAIN N : Masked(N[i]) => ~interruptsOn'
  BY <1>4
<1>16. \A i, j \in DOMAIN N : i < j /\ Masked(N[i]) => N[j].vec = PageFault /\ ~N[j].flags
  BY <1>5, <1>13 DEF Masked
<1>17. \A v \in inService' : \E i \in DOMAIN N : Open(N[i]) /\ N[i].vec = v
  BY <1>2, <1>4, <1>6, <1>8, <1>10
<1>18. \A i \in DOMAIN N : Open(N[i]) => N[i].vec \in inService'
  BY <1>2, <1>4, <1>9
<1> QED
  BY <1>2, <1>11, <1>12, <1>14, <1>15, <1>16, <1>17, <1>18 DEF StackInv

LEMMA SpuriousKeepsStack ==
    ASSUME TypeOK, StackInv, Spurious
    PROVE  StackInv'
<1> DEFINE n == Len(Nested) + 1
           N == above'[m_Index]
<1>1. /\ Others /\ m_Index' = m_Index /\ inService' = inService
      /\ DOMAIN N = 1 .. n
      /\ \A i \in DOMAIN Nested : N[i] = Nested[i]
      /\ N[n].vec = SpuriousVector /\ N[n].pc = "body"
  BY EnteredHandler DEF Spurious, apicVars
<1>2. /\ m_Index \in Threads /\ Len(Nested) \in Nat /\ DOMAIN Nested = 1 .. Len(Nested)
      /\ \A i \in DOMAIN Nested : Nested[i] \in Handlers
  BY Depth
<1>3. ~interruptsOn'
  <2>1. ~TrapGate(SpuriousVector)
    BY DEF TrapGate, SpuriousVector
  <2> QED
    BY <2>1 DEF Spurious, Enter
<1>4. \A i \in DOMAIN N : i # n => i \in DOMAIN Nested /\ N[i] = Nested[i] /\ ~Masked(Nested[i])
  BY <1>1, <1>2, NothingMasked DEF Nested, Spurious
<1>5. ~Open(N[n])
  BY <1>1 DEF Open, SpuriousVector
<1>6. n \in DOMAIN N /\ n \notin DOMAIN Nested /\ DOMAIN Nested \subseteq DOMAIN N
  BY <1>1, <1>2
<1>7. Nested' = N
  BY <1>1 DEF Nested
<1>8. \A t \in Threads \ {m_Index} : \A i \in DOMAIN above'[t] : ~Busy(above'[t][i])
  BY <1>1 DEF Others, StackInv
<1>9. \A i, j \in DOMAIN N : i < j => i # n
  BY <1>1
<1> HIDE DEF n, N
<1>10. \A i, j \in DOMAIN N : Open(N[i]) /\ Open(N[j]) => i = j
  BY <1>4, <1>5 DEF StackInv
<1>11. \A i, j \in DOMAIN N : i < j /\ Masked(N[i]) => N[j].vec = PageFault /\ ~N[j].flags
  BY <1>4, <1>9
<1>12. \A v \in inService' : \E i \in DOMAIN N : Open(N[i]) /\ N[i].vec = v
  BY <1>1, <1>6 DEF StackInv
<1>13. \A i \in DOMAIN N : Open(N[i]) => N[i].vec \in inService'
  BY <1>1, <1>4, <1>5 DEF StackInv
<1> QED
  BY <1>1, <1>3, <1>7, <1>8, <1>10, <1>11, <1>12, <1>13 DEF StackInv

LEMMA FaultKeepsStack ==
    ASSUME TypeOK, StackInv, Fault
    PROVE  StackInv'
<1> DEFINE n == Len(Nested) + 1
           N == above'[m_Index]
<1>1. /\ Others /\ m_Index' = m_Index /\ inService' = inService
      /\ DOMAIN N = 1 .. n
      /\ \A i \in DOMAIN Nested : N[i] = Nested[i]
      /\ N[n].vec = PageFault /\ N[n].pc = "body" /\ N[n].flags = interruptsOn
  BY EnteredHandler DEF Fault, apicVars
<1>2. /\ m_Index \in Threads /\ Len(Nested) \in Nat /\ DOMAIN Nested = 1 .. Len(Nested)
      /\ \A i \in DOMAIN Nested : Nested[i] \in Handlers
  BY Depth
<1>3. interruptsOn' => interruptsOn
  BY DEF Fault, Enter
<1>4. \A i \in DOMAIN N : i # n => i \in DOMAIN Nested /\ N[i] = Nested[i]
  BY <1>1, <1>2
<1>5. ~Open(N[n]) /\ ~Masked(N[n])
  BY <1>1 DEF Open, Masked, Busy, PageFault
<1>6. n \in DOMAIN N /\ n \notin DOMAIN Nested /\ DOMAIN Nested \subseteq DOMAIN N
  BY <1>1, <1>2
<1>7. Nested' = N
  BY <1>1 DEF Nested
<1>8. \A t \in Threads \ {m_Index} : \A i \in DOMAIN above'[t] : ~Busy(above'[t][i])
  BY <1>1 DEF Others, StackInv
<1> HIDE DEF n, N
<1>10. \A i, j \in DOMAIN N : Open(N[i]) /\ Open(N[j]) => i = j
  BY <1>4, <1>5 DEF StackInv
<1>11. \A i, j \in DOMAIN N : i < j /\ Masked(N[i]) => N[j].vec = PageFault /\ ~N[j].flags
  <2> SUFFICES ASSUME NEW i \in DOMAIN N, NEW j \in DOMAIN N, i < j, Masked(N[i])
               PROVE  N[j].vec = PageFault /\ ~N[j].flags
    OBVIOUS
  <2>1. i \in DOMAIN Nested /\ Masked(Nested[i])
    BY <1>4, <1>5
  <2>2. CASE j = n
    BY <1>1, <2>1, <2>2 DEF StackInv
  <2>3. CASE j # n
    BY <1>4, <2>1, <2>3 DEF StackInv
  <2> QED
    BY <2>2, <2>3
<1>12. \A v \in inService' : \E i \in DOMAIN N : Open(N[i]) /\ N[i].vec = v
  BY <1>1, <1>6 DEF StackInv
<1>13. \A i \in DOMAIN N : Open(N[i]) => N[i].vec \in inService'
  BY <1>1, <1>4, <1>5 DEF StackInv
<1>14. \A i \in DOMAIN N : Masked(N[i]) => ~interruptsOn'
  BY <1>3, <1>4, <1>5 DEF StackInv
<1> QED
  BY <1>1, <1>7, <1>8, <1>10, <1>11, <1>12, <1>13, <1>14 DEF StackInv

(* The innermost handler goes on to pc.  What it is before and after says  *)
(* what becomes of the invariant: a handler that stays busy stays masked   *)
(* or was a tick's, and only an end of interrupt closes one.               *)
LEMMA MoveKeepsStack ==
    ASSUME TypeOK, StackInv, Nested # <<>>, NEW pc \in {"eoi", "ret"}, GoTo(pc),
           m_Index' = m_Index, interruptsOn' = interruptsOn,
           Innermost.pc # "ret", inService' = inService,
           pc = "ret" => ~Open(Innermost),
           pc = "eoi" => Innermost.vec \in {HpetVector, DriverVector} /\ Masked(Innermost)
    PROVE  StackInv'
<1> DEFINE n == Len(Nested)
           N == above'[m_Index]
<1>1. /\ Others /\ DOMAIN N = DOMAIN Nested
      /\ \A i \in DOMAIN Nested : i # n => N[i] = Nested[i]
      /\ N[n].vec = Innermost.vec /\ N[n].pc = pc /\ N[n].flags = Innermost.flags
  BY Moved
<1>2. /\ m_Index \in Threads /\ n \in DOMAIN Nested /\ DOMAIN Nested = 1 .. n
      /\ Innermost = Nested[n] /\ Innermost \in Handlers
  BY Depth DEF Innermost
<1>3. Open(N[n]) <=> Open(Nested[n])
  BY <1>1, <1>2 DEF Open, HpetVector, DriverVector
<1>4. Masked(N[n]) => Masked(Nested[n])
  BY <1>1, <1>2 DEF Masked, Busy, Late
<1>5. N[n].vec = Nested[n].vec /\ N[n].flags = Nested[n].flags
  BY <1>1, <1>2
<1>6. Nested' = N
  BY DEF Nested
<1>7. \A t \in Threads \ {m_Index} : \A i \in DOMAIN above'[t] : ~Busy(above'[t][i])
  BY <1>1 DEF Others, StackInv
<1> HIDE DEF n, N
<1>8. \A i \in DOMAIN N :
        /\ Open(N[i]) <=> Open(Nested[i])
        /\ Masked(N[i]) => Masked(Nested[i])
        /\ N[i].vec = Nested[i].vec /\ N[i].flags = Nested[i].flags
  BY <1>1, <1>3, <1>4, <1>5
<1> QED
  BY <1>1, <1>6, <1>7, <1>8 DEF StackInv

LEMMA ThinkReturnsKeepsStack ==
    ASSUME TypeOK, StackInv, ThinkReturns
    PROVE  StackInv'
<1> DEFINE n == Len(Nested)
           N == above'[m_Index]
<1>0. /\ Nested # <<>> /\ Innermost.vec = Timer /\ Innermost.pc = "body" /\ GoTo("eoi")
      /\ m_Index' = m_Index /\ inService' = inService
  BY DEF ThinkReturns, Executing, apicVars
<1>1. /\ Others /\ DOMAIN N = DOMAIN Nested
      /\ \A i \in DOMAIN Nested : i # n => N[i] = Nested[i]
      /\ N[n].vec = Timer /\ N[n].pc = "eoi"
  BY <1>0, Moved
<1>2. /\ m_Index \in Threads /\ n \in DOMAIN Nested /\ DOMAIN Nested = 1 .. n
      /\ Nested[n].vec = Timer /\ Nested[n].pc = "body"
  BY <1>0, Depth DEF Innermost
<1>3. Open(N[n]) /\ Open(Nested[n])
  BY <1>1, <1>2 DEF Open, Timer
<1>4. ~Masked(N[n])
  BY <1>1 DEF Masked, Late
<1>5. \A i \in DOMAIN N : i # n => ~Masked(N[i])
  <2> SUFFICES ASSUME NEW i \in DOMAIN N, i # n, Masked(N[i]) PROVE FALSE
    OBVIOUS
  <2>1. i < n /\ Masked(Nested[i]) /\ i \in DOMAIN Nested
    BY <1>1, <1>2
  <2>2. Nested[n].vec = PageFault
    BY <1>2, <2>1 DEF StackInv
  <2> QED
    BY <1>2, <2>2 DEF Timer, PageFault
<1>6. Nested' = N
  BY <1>0 DEF Nested
<1>7. \A t \in Threads \ {m_Index} : \A i \in DOMAIN above'[t] : ~Busy(above'[t][i])
  BY <1>1 DEF Others, StackInv
<1> HIDE DEF n, N
<1>8. \A i \in DOMAIN N : (Open(N[i]) <=> Open(Nested[i])) /\ N[i].vec = Nested[i].vec
  BY <1>1, <1>2, <1>3
<1>9. \A i \in DOMAIN N : ~Masked(N[i])
  BY <1>4, <1>5
<1> QED
  BY <1>0, <1>1, <1>6, <1>7, <1>8, <1>9 DEF StackInv

(* The tick was the only handler in service, and nothing below it was busy *)
(* or the tick would not have come: the old thread has nothing in service  *)
(* and neither has the next.                                               *)
LEMMA ThinkSwitchesKeepsStack ==
    ASSUME TypeOK, StackInv, ThinkSwitches
    PROVE  StackInv'
<1> DEFINE n == Len(Nested)
<1>0. /\ Nested # <<>> /\ Innermost.vec = Timer /\ Innermost.pc = "body" /\ above' = Pop
      /\ EndOfInterrupt /\ m_Index' = NextIndex
  BY DEF ThinkSwitches, Executing
<1>1. /\ Others /\ DOMAIN above'[m_Index] = 1 .. n - 1
      /\ \A i \in 1 .. n - 1 : above'[m_Index][i] = Nested[i]
  BY <1>0, Popped
<1>2. /\ m_Index \in Threads /\ n \in DOMAIN Nested /\ DOMAIN Nested = 1 .. n
      /\ Innermost = Nested[n] /\ n \in Nat
  BY <1>0, Depth DEF Innermost
<1>3. Open(Innermost) /\ Innermost.vec # PageFault
  BY <1>0 DEF Open, Timer, PageFault
<1>4. inService' = {}
  BY <1>0, <1>3, EndsOwn
<1> HIDE DEF n
<1>5. \A i \in 1 .. n - 1 : ~Busy(Nested[i])
  <2> SUFFICES ASSUME NEW i \in 1 .. n - 1, Busy(Nested[i]) PROVE FALSE
    OBVIOUS
  <2>1. i \in DOMAIN Nested /\ i < n /\ i # n
    BY <1>2
  <2>2. ~Masked(Nested[i])
    BY <1>2, <1>3, <2>1 DEF StackInv
  <2>3. Open(Nested[i])
    BY <2>2 DEF Masked, Late, Open, Timer
  <2> QED
    BY <1>2, <1>3, <2>1, <2>3 DEF StackInv
<1>6. \A t \in Threads : \A i \in DOMAIN above'[t] : ~Busy(above'[t][i])
  <2> SUFFICES ASSUME NEW t \in Threads, NEW i \in DOMAIN above'[t]
               PROVE  ~Busy(above'[t][i])
    OBVIOUS
  <2>1. CASE t = m_Index
    BY <1>1, <1>5, <2>1
  <2>2. CASE t # m_Index
    BY <1>1, <2>2 DEF Others, StackInv
  <2> QED
    BY <2>1, <2>2
<1>7. /\ m_Index' \in Threads /\ Nested' = above'[m_Index']
      /\ above' \in [Threads -> Seq(Handlers)]
  BY <1>0, <1>2, CpuAssumption, Popped DEF NextIndex, Threads, Nested
<1>8. \A i \in DOMAIN Nested' : Nested'[i] \in Handlers
  BY <1>7, ElementOfSeq, LenProperties
<1>9. \A h \in Handlers : Open(h) => Busy(h)
  BY DEF Open, Busy, PageFault
<1>10. \A i \in DOMAIN Nested' : ~Open(Nested'[i]) /\ ~Masked(Nested'[i])
  BY <1>6, <1>7, <1>8, <1>9 DEF Masked
<1> QED
  BY <1>4, <1>6, <1>7, <1>10 DEF StackInv

LEMMA EoiKeepsStack ==
    ASSUME TypeOK, StackInv, SpuriousInv, Eoi
    PROVE  StackInv' /\ Open(Innermost)
<1> DEFINE n == Len(Nested)
           N == above'[m_Index]
<1>0. PICK vec \in 32 .. 47 : Executing(vec, "eoi")
  BY DEF Eoi
<1>1. /\ Nested # <<>> /\ Innermost.vec = vec /\ Innermost.pc = "eoi" /\ GoTo("ret")
      /\ m_Index' = m_Index /\ EndOfInterrupt /\ interruptsOn' = interruptsOn
  BY <1>0 DEF Eoi, Executing, schedVars
<1>2. /\ m_Index \in Threads /\ n \in DOMAIN Nested /\ DOMAIN Nested = 1 .. n
      /\ Innermost = Nested[n]
  BY <1>1, Depth DEF Innermost
<1>3. Open(Innermost)
  <2>1. vec # SpuriousVector
    BY <1>1, <1>2 DEF SpuriousInv, Nested
  <2> QED
    BY <1>1, <2>1 DEF Open, SpuriousVector
<1>4. inService' = {}
  BY <1>1, <1>3, EndsOwn
<1>5. /\ Others /\ DOMAIN N = DOMAIN Nested
      /\ \A i \in DOMAIN Nested : i # n => N[i] = Nested[i]
      /\ N[n].vec = Innermost.vec /\ N[n].pc = "ret" /\ N[n].flags = Innermost.flags
  BY <1>1, Moved
<1>6. ~Open(N[n]) /\ ~Masked(N[n])
  BY <1>5 DEF Open, Masked, Busy
<1>7. Nested' = N
  BY <1>1 DEF Nested
<1>8. \A t \in Threads \ {m_Index} : \A i \in DOMAIN above'[t] : ~Busy(above'[t][i])
  BY <1>5 DEF Others, StackInv
<1> HIDE DEF n, N
<1>9. \A i \in DOMAIN N : ~Open(N[i])
  BY <1>2, <1>3, <1>5, <1>6 DEF StackInv
<1>10. \A i \in DOMAIN N : /\ Masked(N[i]) => Masked(Nested[i])
                           /\ N[i].vec = Nested[i].vec /\ N[i].flags = Nested[i].flags
  BY <1>2, <1>5, <1>6
<1> QED
  BY <1>1, <1>3, <1>4, <1>5, <1>7, <1>8, <1>9, <1>10 DEF StackInv

(* iretq turns interrupts on only if they were on when the handler came.   *)
LEMMA IretKeepsStack ==
    ASSUME TypeOK, StackInv, Iret
    PROVE  StackInv'
<1> DEFINE n == Len(Nested)
           N == above'[m_Index]
<1>1. /\ Nested # <<>> /\ Innermost.pc = "ret" /\ interruptsOn' = Innermost.flags
      /\ above' = Pop /\ m_Index' = m_Index /\ inService' = inService
  BY DEF Iret, Executing, schedVars, apicVars
<1>2. /\ m_Index \in Threads /\ n \in DOMAIN Nested /\ DOMAIN Nested = 1 .. n
      /\ Innermost = Nested[n] /\ n \in Nat
  BY <1>1, Depth DEF Innermost
<1>3. /\ Others /\ DOMAIN N = 1 .. n - 1
      /\ \A i \in 1 .. n - 1 : N[i] = Nested[i]
  BY <1>1, Popped
<1>4. ~Open(Nested[n])
  BY <1>1, <1>2 DEF Open
<1>5. Nested' = N
  BY <1>1 DEF Nested
<1>6. \A t \in Threads \ {m_Index} : \A i \in DOMAIN above'[t] : ~Busy(above'[t][i])
  BY <1>3 DEF Others, StackInv
<1>7. \A i \in DOMAIN N : i \in DOMAIN Nested /\ i < n /\ N[i] = Nested[i]
  BY <1>2, <1>3
<1>8. \A i \in DOMAIN Nested : i # n => i \in DOMAIN N /\ N[i] = Nested[i]
  BY <1>2, <1>3
<1> HIDE DEF n, N
<1>9. \A i \in DOMAIN N : Masked(N[i]) => ~interruptsOn'
  BY <1>1, <1>2, <1>7 DEF StackInv
<1>10. \A v \in inService' : \E i \in DOMAIN N : Open(N[i]) /\ N[i].vec = v
  <2> SUFFICES ASSUME NEW v \in inService PROVE \E i \in DOMAIN N : Open(N[i]) /\ N[i].vec = v
    BY <1>1
  <2>1. PICK i \in DOMAIN Nested : Open(Nested[i]) /\ Nested[i].vec = v
    BY DEF StackInv
  <2> QED
    BY <1>4, <1>8, <2>1
<1>11. \A i \in DOMAIN N : Open(N[i]) => N[i].vec \in inService'
  BY <1>1, <1>7 DEF StackInv
<1>12. \A i, j \in DOMAIN N : Open(N[i]) /\ Open(N[j]) => i = j
  BY <1>7 DEF StackInv
<1>13. \A i, j \in DOMAIN N : i < j /\ Masked(N[i]) => N[j].vec = PageFault /\ ~N[j].flags
  BY <1>7 DEF StackInv
<1> QED
  BY <1>1, <1>5, <1>6, <1>9, <1>10, <1>11, <1>12, <1>13 DEF StackInv

-----------------------------------------------------------------------------
(* The types of the stacks, and that no spurious interrupt is ended.       *)
StacksOK == above \in [Threads -> Seq(Handlers)] /\ SpuriousInv

LEMMA StacksTyped ==
    ASSUME StacksOK, NEW t \in Threads
    PROVE  DOMAIN above[t] = 1 .. Len(above[t]) /\ Len(above[t]) \in Nat
BY LenProperties DEF StacksOK

LEMMA MoveKeepsTypes ==
    ASSUME TypeOK, SpuriousInv, Nested # <<>>, NEW pc \in {"eoi", "ret"}, GoTo(pc),
           pc = "eoi" => Innermost.vec # SpuriousVector
    PROVE  StacksOK'
<1>1. /\ above' \in [Threads -> Seq(Handlers)] /\ Others
      /\ DOMAIN above'[m_Index] = DOMAIN Nested
      /\ \A i \in DOMAIN Nested : i # Len(Nested) => above'[m_Index][i] = Nested[i]
      /\ above'[m_Index][Len(Nested)].vec = Innermost.vec
      /\ above'[m_Index][Len(Nested)].pc = pc
  BY Moved
<1>2. ASSUME NEW t \in Threads, NEW i \in DOMAIN above'[t], above'[t][i].vec = SpuriousVector
      PROVE  above'[t][i].pc # "eoi"
  <2>1. CASE t # m_Index
    BY <1>1, <1>2, <2>1 DEF SpuriousInv, Others
  <2>2. CASE t = m_Index /\ i = Len(Nested)
    BY <1>1, <1>2, <2>2
  <2>3. CASE t = m_Index /\ i # Len(Nested)
    BY <1>1, <1>2, <2>3 DEF SpuriousInv, Nested
  <2> QED
    BY <2>1, <2>2, <2>3
<1> QED
  BY <1>1, <1>2 DEF StacksOK, SpuriousInv

LEMMA PopKeepsTypes ==
    ASSUME TypeOK, SpuriousInv, Nested # <<>>, above' = Pop
    PROVE  StacksOK'
<1>1. /\ above' \in [Threads -> Seq(Handlers)] /\ Others
      /\ DOMAIN above'[m_Index] = 1 .. Len(Nested) - 1
      /\ \A i \in 1 .. Len(Nested) - 1 : above'[m_Index][i] = Nested[i]
  BY Popped
<1>2. 1 .. Len(Nested) - 1 \subseteq DOMAIN Nested
  BY Depth
<1>3. ASSUME NEW t \in Threads, NEW i \in DOMAIN above'[t], above'[t][i].vec = SpuriousVector
      PROVE  above'[t][i].pc # "eoi"
  <2>1. CASE t # m_Index
    BY <1>1, <1>3, <2>1 DEF SpuriousInv, Others
  <2>2. CASE t = m_Index
    BY <1>1, <1>2, <1>3, <2>2 DEF SpuriousInv, Nested
  <2> QED
    BY <2>1, <2>2
<1> QED
  BY <1>1, <1>3 DEF StacksOK, SpuriousInv

LEMMA EnterKeepsTypes ==
    ASSUME TypeOK, SpuriousInv,
           NEW vec \in {PageFault, Timer, HpetVector, DriverVector, SpuriousVector}, Enter(vec)
    PROVE  StacksOK'
<1>1. /\ above' \in [Threads -> Seq(Handlers)] /\ Others
      /\ DOMAIN above'[m_Index] = 1 .. Len(Nested) + 1
      /\ \A i \in DOMAIN Nested : above'[m_Index][i] = Nested[i]
      /\ above'[m_Index][Len(Nested) + 1].pc = "body"
  BY EnteredHandler
<1>2. \A i \in 1 .. Len(Nested) + 1 : i = Len(Nested) + 1 \/ i \in DOMAIN Nested
  BY Depth
<1>3. ASSUME NEW t \in Threads, NEW i \in DOMAIN above'[t], above'[t][i].vec = SpuriousVector
      PROVE  above'[t][i].pc # "eoi"
  <2>1. CASE t # m_Index
    BY <1>1, <1>3, <2>1 DEF SpuriousInv, Others
  <2>2. CASE t = m_Index
    BY <1>1, <1>2, <1>3, <2>2 DEF SpuriousInv, Nested
  <2> QED
    BY <2>1, <2>2
<1> QED
  BY <1>1, <1>3 DEF StacksOK, SpuriousInv

(* A step of a handler, a delivery, or a drive that raises its interrupt   *)
(* keeps the types and the stacks.                                         *)
LEMMA InterruptKeeps ==
    ASSUME TypeOK, StackInv, SpuriousInv,
           HandlerStep \/ Delivery \/ DriveInterrupt, UNCHANGED hpetVars
    PROVE  TypeOK' /\ StackInv' /\ SpuriousInv'
<1> USE DEF StacksOK
<1>1. CASE Interrupt14
  <2>1. Nested # <<>> /\ Innermost.vec = PageFault /\ Innermost.pc = "body" /\ GoTo("ret")
        /\ UNCHANGED <<m_Enabled, m_Quantum, m_Index, interruptsOn, stopped, pending, inService,
                       hpetSleepFlag, clobbered>>
    BY <1>1 DEF Interrupt14, Executing, schedVars, apicVars
  <2>2. ~Open(Innermost)
    BY <2>1 DEF Open, PageFault
  <2> QED
    BY <2>1, <2>2, MoveKeepsStack, MoveKeepsTypes DEF TypeOK, hpetVars
<1>2. CASE ThinkReturns
  <2>1. Nested # <<>> /\ Innermost.vec = Timer /\ GoTo("eoi")
        /\ m_Quantum' = (IF m_Enabled THEN m_Quantum - 1 ELSE m_Quantum)
        /\ (~m_Enabled \/ m_Quantum > 0) /\ interruptsOn' = TRUE
        /\ UNCHANGED <<m_Enabled, m_Index, stopped, pending, inService, hpetSleepFlag, clobbered>>
    BY <1>2 DEF ThinkReturns, Executing, apicVars
  <2>2. Innermost.vec # SpuriousVector
    BY <2>1 DEF Timer, SpuriousVector
  <2>3. StacksOK'
    BY <2>1, <2>2, MoveKeepsTypes
  <2>4. m_Quantum' \in 0 .. Quantum
    BY <2>1, CpuAssumption DEF TypeOK
  <2> QED
    BY <1>2, <2>1, <2>3, <2>4, ThinkReturnsKeepsStack DEF TypeOK, hpetVars
<1>3. CASE ThinkSwitches
  <2>1. Nested # <<>> /\ above' = Pop /\ m_Index' = NextIndex /\ m_Quantum' = Quantum
        /\ interruptsOn' = TRUE /\ EndOfInterrupt
        /\ UNCHANGED <<m_Enabled, stopped, pending, hpetSleepFlag, clobbered>>
    BY <1>3 DEF ThinkSwitches, Executing
  <2>2. m_Index' \in Threads /\ Quantum \in 0 .. Quantum
    BY <2>1, CpuAssumption DEF NextIndex, TypeOK, Threads
  <2>3. inService' \subseteq inService
    BY <2>1 DEF EndOfInterrupt
  <2>4. StacksOK'
    BY <2>1, PopKeepsTypes
  <2> QED
    BY <1>3, <2>1, <2>2, <2>3, <2>4, ThinkSwitchesKeepsStack DEF TypeOK, hpetVars
<1>4. CASE Interrupt33
  <2>1. Nested # <<>> /\ Innermost.vec = HpetVector /\ Innermost.pc = "body" /\ GoTo("eoi")
        /\ hpetSleepFlag' = FALSE
        /\ UNCHANGED <<m_Enabled, m_Quantum, m_Index, interruptsOn, stopped, pending, inService, clobbered>>
    BY <1>4 DEF Interrupt33, Executing, schedVars, apicVars
  <2>2. Masked(Innermost) /\ Innermost.vec # SpuriousVector
    BY <2>1 DEF Masked, Busy, Late, HpetVector, Timer, PageFault, SpuriousVector
  <2> QED
    BY <2>1, <2>2, MoveKeepsStack, MoveKeepsTypes DEF TypeOK, hpetVars
<1>5. CASE TriggerInterrupt
  <2>1. Nested # <<>> /\ Innermost.vec = DriverVector /\ Innermost.pc = "body" /\ GoTo("eoi")
        /\ UNCHANGED <<m_Enabled, m_Quantum, m_Index, interruptsOn, stopped, pending, inService,
                       hpetSleepFlag, clobbered>>
    BY <1>5 DEF TriggerInterrupt, Executing, schedVars, apicVars
  <2>2. Masked(Innermost) /\ Innermost.vec # SpuriousVector
    BY <2>1 DEF Masked, Busy, Late, DriverVector, Timer, PageFault, SpuriousVector
  <2> QED
    BY <2>1, <2>2, MoveKeepsStack, MoveKeepsTypes DEF TypeOK, hpetVars
<1>6. CASE SpuriousReturns
  <2>1. Nested # <<>> /\ Innermost.vec = SpuriousVector /\ Innermost.pc = "body" /\ GoTo("ret")
        /\ UNCHANGED <<m_Enabled, m_Quantum, m_Index, interruptsOn, stopped, pending, inService,
                       hpetSleepFlag, clobbered>>
    BY <1>6 DEF SpuriousReturns, Executing, schedVars, apicVars
  <2>2. ~Open(Innermost)
    BY <2>1 DEF Open, SpuriousVector
  <2> QED
    BY <2>1, <2>2, MoveKeepsStack, MoveKeepsTypes DEF TypeOK, hpetVars
<1>7. CASE Eoi
  <2>1. Nested # <<>> /\ GoTo("ret") /\ EndOfInterrupt
        /\ UNCHANGED <<m_Enabled, m_Quantum, m_Index, interruptsOn, stopped, pending,
                       hpetSleepFlag, clobbered>>
    BY <1>7 DEF Eoi, Executing, schedVars
  <2>2. inService' \subseteq inService
    BY <2>1 DEF EndOfInterrupt
  <2>3. StacksOK'
    BY <2>1, MoveKeepsTypes
  <2> QED
    BY <1>7, <2>1, <2>2, <2>3, EoiKeepsStack DEF TypeOK, hpetVars
<1>8. CASE Iret
  <2>1. Nested # <<>> /\ above' = Pop /\ interruptsOn' = Innermost.flags
        /\ UNCHANGED <<m_Enabled, m_Quantum, m_Index, stopped, pending, inService,
                       hpetSleepFlag, clobbered>>
    BY <1>8 DEF Iret, Executing, schedVars, apicVars
  <2>2. interruptsOn' \in BOOLEAN
    BY <2>1, Depth DEF Handlers
  <2>3. StacksOK'
    BY <2>1, PopKeepsTypes
  <2> QED
    BY <1>8, <2>1, <2>2, <2>3, IretKeepsStack DEF TypeOK, hpetVars
<1>9. CASE DriveInterrupt
  BY <1>9, StackKept DEF DriveInterrupt, TypeOK, SpuriousInv, hpetVars, schedVars
<1>10. CASE Delivery
  <2>1. ASSUME NEW vec \in {PageFault, Timer, HpetVector, DriverVector, SpuriousVector}, Enter(vec),
               pending' \subseteq pending,
               inService' \subseteq inService \cup ({vec} \cap {Timer, HpetVector, DriverVector})
        PROVE  TypeOK' /\ SpuriousInv'
    <3>1. /\ UNCHANGED <<m_Enabled, m_Quantum, m_Index, hpetSleepFlag>> /\ stopped' = FALSE
          /\ clobbered' = (\E h \in Running : Ist(h.vec) = Ist(vec))
          /\ interruptsOn' = (interruptsOn /\ TrapGate(vec))
      BY <2>1 DEF Enter, schedVars
    <3>2. interruptsOn' \in BOOLEAN /\ clobbered' \in BOOLEAN
      BY <3>1
    <3>3. StacksOK'
      BY <2>1, EnterKeepsTypes
    <3> QED
      BY <2>1, <3>1, <3>2, <3>3 DEF TypeOK, hpetVars
  <2>2. CASE \E vec \in pending : Accept(vec)
    <3>1. PICK vec \in pending : Accept(vec)
      BY <2>2
    <3>2. vec \in {Timer, HpetVector, DriverVector} /\ Enter(vec)
          /\ pending' = pending \ {vec} /\ inService' = inService \cup {vec}
      BY <3>1 DEF TypeOK, Accept
    <3> QED
      BY <2>1, <3>1, <3>2, AcceptKeepsStack
  <2>3. CASE Spurious
    BY <2>1, <2>3, SpuriousKeepsStack DEF Spurious, apicVars
  <2>4. CASE Fault
    BY <2>1, <2>4, FaultKeepsStack DEF Fault, apicVars
  <2> QED
    BY <1>10, <2>2, <2>3, <2>4 DEF Delivery
<1> QED
  BY <1>1, <1>2, <1>3, <1>4, <1>5, <1>6, <1>7, <1>8, <1>9, <1>10 DEF HandlerStep

-----------------------------------------------------------------------------
(* What a step of a thread makes of its own record in delay.               *)
Replaced(t, new) ==
    /\ new \in Callers /\ delay' \in [Threads -> Callers]
    /\ delay'[t] = new
    /\ \A u \in Threads \ {t} : delay'[u] = delay[u]

LEMMA ReplacedOne ==
    ASSUME TypeOK, NEW t \in Threads, NEW new \in Callers, delay' = [delay EXCEPT ![t] = new]
    PROVE  Replaced(t, new)
BY DEF TypeOK, Replaced

LEMMA ThenReplaces ==
    ASSUME TypeOK, NEW t \in Threads,
           NEW pc \in Steps \cup {"acpi", "calibrate", "unmask", "enable", "idle", "halt"},
           Then(t, pc)
    PROVE  LET old == delay[t] new == delay'[t]
           IN  /\ Replaced(t, new) /\ new.pc = pc /\ new.ns = old.ns
               /\ new.lag = old.lag /\ new.elapsed = old.elapsed
<1> DEFINE new == [delay[t] EXCEPT !.pc = pc]
<1>1. /\ new \in Callers /\ new.pc = pc /\ new.ns = delay[t].ns
      /\ new.lag = delay[t].lag /\ new.elapsed = delay[t].elapsed
  BY DEF TypeOK, Callers
<1>2. delay' = [delay EXCEPT ![t] = new]
  BY DEF Then
<1> HIDE DEF new
<1>3. Replaced(t, new)
  BY <1>1, <1>2, ReplacedOne
<1> QED
  BY <1>1, <1>3 DEF Replaced

LEMMA LagCleared ==
    ASSUME TypeOK, NEW t \in Threads, NEW pc \in Steps,
           delay' = [delay EXCEPT ![t].pc = pc, ![t].lag = 0]
    PROVE  LET old == delay[t] new == delay'[t]
           IN  /\ Replaced(t, new) /\ new.pc = pc /\ new.ns = old.ns
               /\ new.lag = 0 /\ new.elapsed = old.elapsed
<1> DEFINE new == [delay[t] EXCEPT !.pc = pc, !.lag = 0]
<1>1. /\ new \in Callers /\ new.pc = pc /\ new.ns = delay[t].ns
      /\ new.lag = 0 /\ new.elapsed = delay[t].elapsed
  <2>1. PICK old \in Callers : old = delay[t]
    BY DEF TypeOK
  <2>2. 0 \in 0 .. Far
    BY DelaysAssumption DEF Far
  <2>3. LET n == [old EXCEPT !.pc = pc, !.lag = 0]
        IN  n \in Callers /\ n.pc = pc /\ n.ns = old.ns /\ n.lag = 0 /\ n.elapsed = old.elapsed
    BY <2>2 DEF Callers
  <2> QED
    BY <2>1, <2>3
<1>2. delay' = [delay EXCEPT ![t] = new]
  BY DEF TypeOK
<1> HIDE DEF new
<1>3. Replaced(t, new)
  BY <1>1, <1>2, ReplacedOne
<1> QED
  BY <1>1, <1>3 DEF Replaced

LEMMA CallReplaces ==
    ASSUME TypeOK, NEW t \in Threads, PrepareHpetDelay(t)
    PROVE  LET new == delay'[t]
           IN  Replaced(t, new) /\ new.pc = "stop" /\ new.elapsed = 0
<1>1. PICK ns \in Delays :
        delay' = [delay EXCEPT ![t] =
                      [pc |-> "stop", ns |-> ns, lag |-> 0, elapsed |-> 0,
                       then |-> IF @.pc = "calibrate" THEN "unmask" ELSE @.pc]]
  BY DEF PrepareHpetDelay
<1> DEFINE then == IF delay[t].pc = "calibrate" THEN "unmask" ELSE delay[t].pc
           new == [pc |-> "stop", ns |-> ns, lag |-> 0, elapsed |-> 0, then |-> then]
<1>2. then \in {"acpi", "unmask", "idle"}
  BY DEF PrepareHpetDelay, Step
<1> HIDE DEF then
<1>3. new \in Callers /\ new.pc = "stop" /\ new.elapsed = 0
  BY <1>2, DelaysAssumption DEF Callers, Steps, Far
<1>4. delay' = [delay EXCEPT ![t] = new]
  BY <1>1 DEF then
<1> HIDE DEF new
<1>5. Replaced(t, new)
  BY <1>3, <1>4, ReplacedOne
<1> QED
  BY <1>3, <1>5 DEF Replaced

LEMMA ReturnReplaces ==
    ASSUME TypeOK, NEW t \in Threads, delay' = [delay EXCEPT ![t] = Idle(@.then)]
    PROVE  LET new == delay'[t]
           IN  Replaced(t, new) /\ new.pc \in {"acpi", "unmask", "idle"}
<1> DEFINE new == Idle(delay[t].then)
<1>1. delay[t].then \in {"acpi", "unmask", "idle"}
  BY DEF TypeOK, Callers
<1>2. (CHOOSE n \in Delays : TRUE) \in Delays
  BY DelaysAssumption
<1>3. new \in Callers /\ new.pc = delay[t].then
  BY <1>1, <1>2, DelaysAssumption DEF Idle, Callers, Far
<1>4. delay' = [delay EXCEPT ![t] = new]
  OBVIOUS
<1> HIDE DEF new
<1>5. Replaced(t, new)
  BY <1>3, <1>4, ReplacedOne
<1> QED
  BY <1>1, <1>3, <1>5 DEF Replaced

(* A step that leaves the handlers alone, but for Associate, which turns   *)
(* interrupts on where there are none.                                     *)
LEMMA OutsideKeepsStack ==
    ASSUME StackInv, SpuriousInv, UNCHANGED <<above, m_Index, inService>>,
           interruptsOn' = interruptsOn \/ Nested = <<>>
    PROVE  StackInv' /\ SpuriousInv'
BY StackKept DEF SpuriousInv

LEMMA ThreadStepKeeps ==
    ASSUME TypeOK, StackInv, SpuriousInv, NEW t \in Threads, ThreadStep(t)
    PROVE  TypeOK' /\ StackInv' /\ SpuriousInv'
<1> USE DEF Steps
<1>0. SUFFICES TypeOK' /\ UNCHANGED <<above, m_Index, inService>>
               /\ (interruptsOn' = interruptsOn \/ Nested = <<>>)
  BY OutsideKeepsStack
<1> USE DEF cpuVars, schedVars, apicVars
<1>1. CASE AssociateHpetInterrupt(t)
  <2>1. Nested = <<>> /\ Replaced(t, delay'[t])
    BY <1>1, ThenReplaces DEF AssociateHpetInterrupt, Step, ThreadRuns
  <2> QED
    BY <1>1, <2>1 DEF AssociateHpetInterrupt, TypeOK, Replaced
<1>2. CASE Configure(t)
  <2>1. Replaced(t, delay'[t])
    BY <1>2, ThenReplaces DEF Configure
  <2> QED
    BY <1>2, <2>1 DEF Configure, TypeOK, Replaced
<1>3. CASE SetEnabled(t)
  <2>1. Replaced(t, delay'[t])
    BY <1>3, ThenReplaces DEF SetEnabled
  <2> QED
    BY <1>3, <2>1 DEF SetEnabled, TypeOK, Replaced
<1>4. CASE Halt(t)
  BY <1>4 DEF Halt, hpetVars, TypeOK
<1>5. CASE PrepareHpetDelay(t)
  <2>1. Replaced(t, delay'[t])
    BY <1>5, CallReplaces
  <2>2. overlapped' \in BOOLEAN
    BY <1>5 DEF PrepareHpetDelay, TypeOK
  <2> QED
    BY <1>5, <2>1, <2>2 DEF PrepareHpetDelay, TypeOK, Replaced
<1>6. CASE StopCounter(t)
  <2>1. Replaced(t, delay'[t])
    BY <1>6, ThenReplaces DEF StopCounter
  <2> QED
    BY <1>6, <2>1 DEF StopCounter, TypeOK, Replaced
<1>7. CASE ReadCounter(t)
  <2>1. Replaced(t, delay'[t])
    BY <1>7, LagCleared DEF ReadCounter
  <2> QED
    BY <1>7, <2>1 DEF ReadCounter, TypeOK, Replaced
<1>8. CASE SetComparator(t)
  <2>1. Replaced(t, delay'[t])
    BY <1>8, LagCleared DEF SetComparator
  <2>2. left' \in 1 .. Far
    <3>1. delay[t].lag \in 0 .. Far /\ delay[t].ns \in 1 .. MaxDelay
      BY DelaysAssumption DEF TypeOK, Callers
    <3> QED
      BY <1>8, <3>1, DelaysAssumption DEF SetComparator, Far
  <2> QED
    BY <1>8, <2>1, <2>2 DEF SetComparator, TypeOK, Replaced
<1>9. CASE StartCounter(t)
  <2>1. Replaced(t, delay'[t])
    BY <1>9, ThenReplaces DEF StartCounter
  <2> QED
    BY <1>9, <2>1 DEF StartCounter, TypeOK, Replaced
<1>10. CASE ArmTimer(t)
  <2>1. Replaced(t, delay'[t])
    BY <1>10, ThenReplaces DEF ArmTimer
  <2> QED
    BY <1>10, <2>1 DEF ArmTimer, TypeOK, Replaced
<1>11. CASE TestFlag(t)
  <2>1. Replaced(t, delay'[t])
    BY <1>11, ThenReplaces, ReturnReplaces DEF TestFlag
  <2> QED
    BY <1>11, <2>1 DEF TestFlag, TypeOK, Replaced
<1>12. CASE Hlt(t)
  <2>1. Replaced(t, delay'[t])
    BY <1>12, ThenReplaces DEF Hlt
  <2> QED
    BY <1>12, <2>1 DEF Hlt, TypeOK, Replaced
<1> QED
  BY <1>1, <1>2, <1>3, <1>4, <1>5, <1>6, <1>7, <1>8, <1>9, <1>10, <1>11, <1>12
  DEF ThreadStep, DelayStep

(* What one count makes of a record.                                       *)
LEMMA CountReplaces ==
    ASSUME TypeOK, Count, NEW t \in Threads
    PROVE  LET old == delay[t] new == delay'[t]
           IN  /\ new \in Callers /\ new.pc = old.pc /\ new.ns = old.ns
               /\ Waits(t) /\ ~overlapped => new.elapsed = UpTo(old.elapsed)
               /\ Waits(t) /\ old.pc = "compare" => new.lag = UpTo(old.lag)
<1>1. PICK old \in Callers : old = delay[t]
  BY DEF TypeOK
<1>2. \A n \in 0 .. Far : UpTo(n) \in 0 .. Far
  BY DelaysAssumption DEF UpTo, Far
<1>3. CASE ~Waits(t)
  BY <1>1, <1>3 DEF Count
<1>4. CASE Waits(t)
  <2> DEFINE e == IF overlapped THEN old.elapsed ELSE UpTo(old.elapsed)
             l == IF old.pc = "compare" THEN UpTo(old.lag) ELSE old.lag
             new == [old EXCEPT !.elapsed = e, !.lag = l]
  <2>1. delay'[t] = new
    BY <1>1, <1>4 DEF Count
  <2>2. e \in 0 .. Far /\ l \in 0 .. Far
    BY <1>2 DEF Callers
  <2> HIDE DEF e, l
  <2>3. new \in Callers /\ new.pc = old.pc /\ new.ns = old.ns /\ new.elapsed = e /\ new.lag = l
    BY <2>2 DEF Callers
  <2> QED
    BY <1>1, <2>1, <2>3 DEF e, l
<1> QED
  BY <1>3, <1>4

LEMMA CountKeeps ==
    ASSUME TypeOK, StackInv, SpuriousInv, Count
    PROVE  TypeOK' /\ StackInv' /\ SpuriousInv'
<1>1. delay' \in [Threads -> Callers]
  <2>1. \A t \in Threads : delay'[t] \in Callers
    BY CountReplaces
  <2>2. DOMAIN delay' = Threads /\ delay' = [t \in Threads |-> delay'[t]]
    BY DEF Count
  <2> QED
    BY <2>1, <2>2
<1>2. left' \in 1 .. Far /\ pending' \subseteq {Timer, HpetVector, DriverVector}
  <2>1. left \in 1 .. Far /\ Far \in Nat \ {0} /\ pending \subseteq {Timer, HpetVector, DriverVector}
    BY DelaysAssumption DEF TypeOK, Far
  <2>2. left' = IF left \in {1, Far} THEN Far ELSE left - 1
    BY DEF Count
  <2>3. left' \in 1 .. Far
    BY <2>1, <2>2
  <2>4. pending' \subseteq pending \cup {HpetVector}
    BY DEF Count
  <2> QED
    BY <2>1, <2>3, <2>4
<1>3. TypeOK'
  BY <1>1, <1>2 DEF Count, TypeOK, schedVars
<1> QED
  BY <1>3, OutsideKeepsStack DEF Count, schedVars

LEMMA TimerInterruptKeeps ==
    ASSUME TypeOK, StackInv, SpuriousInv, TimerInterrupt
    PROVE  TypeOK' /\ StackInv' /\ SpuriousInv'
<1>1. TypeOK'
  BY DEF TimerInterrupt, TypeOK, schedVars, hpetVars
<1> QED
  BY <1>1, OutsideKeepsStack DEF TimerInterrupt, schedVars

-----------------------------------------------------------------------------
(* DelayInv.  What is left on the comparator and the records of the        *)
(* threads stay as they are in the steps of the interrupt path, which only *)
(* take the HPET's interrupt from the local APIC to its handler.           *)
LEMMA InterruptDoesNotRaise ==
    ASSUME DelayInv, UNCHANGED hpetVars, hpetSleepFlag' = hpetSleepFlag,
           Raised' => Raised,
           HpetVector \in pending' /\ HpetEntered' => HpetVector \in pending /\ HpetEntered
    PROVE  DelayInv'
<1>1. /\ delay' = delay /\ left' = left /\ overlapped' = overlapped
  BY DEF hpetVars
<1>2. \A t \in Threads : Waits(t)' <=> Waits(t)
  BY <1>1 DEF Waits
<1>3. \A t \in Threads : Sound(t) => Sound(t)'
  <2> SUFFICES ASSUME NEW t \in Threads, Sound(t) PROVE Sound(t)'
    OBVIOUS
  <2>1. Far' = Far
    BY DEF Far
  <2> QED
    BY <1>1, <2>1 DEF Sound
<1> QED
  BY <1>1, <1>2, <1>3 DEF DelayInv, Far

LEMMA HpetIsOpen ==
    ASSUME NEW i \in DOMAIN Nested, Nested[i].vec = HpetVector, Nested[i].pc = "body"
    PROVE  Open(Nested[i])
BY DEF Open, HpetVector

(* Its handler clears the flag, and there is no second one.                *)
LEMMA Interrupt33KeepsDelays ==
    ASSUME TypeOK, StackInv, DelayInv, Interrupt33, UNCHANGED hpetVars
    PROVE  DelayInv'
<1> DEFINE n == Len(Nested)
<1>1. /\ Nested # <<>> /\ Innermost.vec = HpetVector /\ Innermost.pc = "body" /\ GoTo("eoi")
      /\ hpetSleepFlag' = FALSE /\ m_Index' = m_Index /\ pending' = pending
  BY DEF Interrupt33, Executing, schedVars, apicVars
<1>2. /\ n \in DOMAIN Nested /\ Innermost = Nested[n]
  BY <1>1, Depth DEF Innermost
<1>3. HpetEntered
  BY <1>1, <1>2 DEF HpetEntered
<1>4. ~HpetEntered'
  <2> SUFFICES ASSUME NEW i \in DOMAIN above'[m_Index], above'[m_Index][i].vec = HpetVector,
                      above'[m_Index][i].pc = "body"
               PROVE  FALSE
    BY <1>1 DEF HpetEntered, Nested
  <2>1. /\ DOMAIN above'[m_Index] = DOMAIN Nested
        /\ \A j \in DOMAIN Nested : j # n => above'[m_Index][j] = Nested[j]
        /\ above'[m_Index][n].pc = "eoi"
    BY <1>1, Moved
  <2>2. i # n /\ i \in DOMAIN Nested /\ Nested[i].vec = HpetVector /\ Nested[i].pc = "body"
    BY <2>1
  <2>3. Open(Nested[i]) /\ Open(Nested[n])
    BY <1>1, <1>2, <2>2, HpetIsOpen
  <2> QED
    BY <1>2, <2>2, <2>3 DEF StackInv
<1>5. delay' = delay /\ left' = left /\ overlapped' = overlapped /\ Far' = Far
  BY DEF hpetVars, Far
<1>6. \A t \in Threads : Waits(t)' <=> Waits(t)
  BY <1>5 DEF Waits
<1>7. \A t \in Threads : Sound(t) => Sound(t)'
  BY <1>1, <1>3, <1>4, <1>5 DEF Sound, Raised
<1> QED
  BY <1>3, <1>5, <1>6, <1>7 DEF DelayInv, Raised

LEMMA InterruptKeepsDelays ==
    ASSUME TypeOK, StackInv, SpuriousInv, DelayInv,
           HandlerStep \/ Delivery \/ DriveInterrupt, UNCHANGED hpetVars
    PROVE  DelayInv'
<1> DEFINE n == Len(Nested)
(* GoTo from a handler that is not the HPET's at its body.                 *)
<1>1. ASSUME Nested # <<>>, NEW pc \in {"eoi", "ret"}, GoTo(pc), m_Index' = m_Index
      PROVE  HpetEntered' => HpetEntered
  <2>1. /\ DOMAIN above'[m_Index] = DOMAIN Nested
        /\ \A j \in DOMAIN Nested : j # n => above'[m_Index][j] = Nested[j]
        /\ above'[m_Index][n].pc = pc
    BY <1>1, Moved
  <2>2. pc # "body"
    BY <1>1
  <2> QED
    BY <1>1, <2>1, <2>2 DEF HpetEntered, Nested
(* A handler is dropped.                                                   *)
<1>2. ASSUME Nested # <<>>, above' = Pop, m_Index' = m_Index
      PROVE  HpetEntered' => HpetEntered
  <2>1. /\ DOMAIN above'[m_Index] = 1 .. n - 1
        /\ \A i \in 1 .. n - 1 : above'[m_Index][i] = Nested[i]
    BY <1>2, Popped
  <2>2. 1 .. n - 1 \subseteq DOMAIN Nested
    BY Depth
  <2> QED
    BY <1>2, <2>1, <2>2 DEF HpetEntered, Nested
(* One comes on top.                                                       *)
<1>3. ASSUME NEW vec \in {PageFault, Timer, HpetVector, DriverVector, SpuriousVector}, Enter(vec)
      PROVE  HpetEntered' => HpetEntered \/ vec = HpetVector
  <2>1. /\ DOMAIN above'[m_Index] = 1 .. n + 1 /\ m_Index' = m_Index
        /\ \A i \in DOMAIN Nested : above'[m_Index][i] = Nested[i]
        /\ above'[m_Index][n + 1].vec = vec
    BY <1>3, EnteredHandler
  <2>2. \A i \in 1 .. n + 1 : i = n + 1 \/ i \in DOMAIN Nested
    BY Depth
  <2> QED
    BY <2>1, <2>2 DEF HpetEntered, Nested
<1>4. CASE Interrupt33
  BY <1>4, Interrupt33KeepsDelays
<1>5. CASE Interrupt14 \/ ThinkReturns \/ TriggerInterrupt \/ SpuriousReturns \/ Eoi
  <2>1. /\ Nested # <<>> /\ (GoTo("eoi") \/ GoTo("ret")) /\ m_Index' = m_Index
        /\ pending' = pending /\ hpetSleepFlag' = hpetSleepFlag
    BY <1>5 DEF Interrupt14, ThinkReturns, TriggerInterrupt, SpuriousReturns, Eoi, Executing,
                schedVars, apicVars
  <2>2. HpetEntered' => HpetEntered
    BY <1>1, <2>1
  <2> QED
    BY <2>1, <2>2, InterruptDoesNotRaise DEF Raised
<1>6. CASE Iret
  <2>1. /\ Nested # <<>> /\ above' = Pop /\ m_Index' = m_Index
        /\ pending' = pending /\ hpetSleepFlag' = hpetSleepFlag
    BY <1>6 DEF Iret, Executing, schedVars, apicVars
  <2>2. HpetEntered' => HpetEntered
    BY <1>2, <2>1
  <2> QED
    BY <2>1, <2>2, InterruptDoesNotRaise DEF Raised
<1>7. CASE ThinkSwitches
  <2>1. StackInv' /\ inService' = {} /\ pending' = pending /\ hpetSleepFlag' = hpetSleepFlag
    <3>1. Nested # <<>> /\ Innermost.vec = Timer /\ Innermost.pc = "body" /\ EndOfInterrupt
      BY <1>7 DEF ThinkSwitches, Executing
    <3>2. Open(Innermost)
      BY <3>1 DEF Open, Timer
    <3> QED
      BY <1>7, <3>1, <3>2, EndsOwn, ThinkSwitchesKeepsStack DEF ThinkSwitches
  <2>2. ~HpetEntered'
    <3> SUFFICES ASSUME NEW i \in DOMAIN Nested', Nested'[i].vec = HpetVector, Nested'[i].pc = "body"
                 PROVE  FALSE
      BY DEF HpetEntered
    <3>1. Nested'[i].vec \in 32 .. 46 /\ Nested'[i].pc # "ret"
      BY DEF HpetVector
    <3> QED
      BY <2>1, <3>1 DEF StackInv, Open
  <2> QED
    BY <2>1, <2>2, InterruptDoesNotRaise DEF Raised
<1>8. CASE DriveInterrupt
  <2>1. /\ Nested' = Nested /\ hpetSleepFlag' = hpetSleepFlag
        /\ HpetVector \in pending' <=> HpetVector \in pending
    BY <1>8 DEF DriveInterrupt, schedVars, Nested, HpetVector, DriverVector
  <2>2. HpetEntered' <=> HpetEntered
    BY <2>1 DEF HpetEntered
  <2> QED
    BY <2>1, <2>2, InterruptDoesNotRaise DEF Raised
<1>9. CASE \E vec \in pending : Accept(vec)
  <2>1. PICK vec \in pending : Accept(vec)
    BY <1>9
  <2>2. /\ vec \in {Timer, HpetVector, DriverVector} /\ Enter(vec) /\ pending' = pending \ {vec}
        /\ hpetSleepFlag' = hpetSleepFlag
    BY <2>1 DEF Accept, Enter, TypeOK
  <2>3. HpetEntered' => HpetEntered \/ vec = HpetVector
    BY <1>3, <2>2
  <2>4. vec = HpetVector => HpetVector \in pending /\ HpetVector \notin pending'
    BY <2>1, <2>2
  <2>5. HpetVector \in pending' => HpetVector \in pending
    BY <2>2
  <2> QED
    BY <2>2, <2>3, <2>4, <2>5, InterruptDoesNotRaise DEF Raised
<1>10. CASE Spurious \/ Fault
  <2>1. PICK vec \in {PageFault, SpuriousVector} : Enter(vec)
    BY <1>10 DEF Spurious, Fault
  <2>2. pending' = pending /\ hpetSleepFlag' = hpetSleepFlag /\ vec # HpetVector
    BY <1>10, <2>1 DEF Spurious, Fault, Enter, apicVars, PageFault, SpuriousVector, HpetVector
  <2>3. HpetEntered' => HpetEntered
    BY <1>3, <2>1, <2>2
  <2> QED
    BY <2>2, <2>3, InterruptDoesNotRaise DEF Raised
<1> QED
  BY <1>4, <1>5, <1>6, <1>7, <1>8, <1>9, <1>10 DEF HandlerStep, Delivery

(* A thread whose record changes was the only one to wait, or none does.   *)
LEMMA OneWaits ==
    ASSUME DelayInv, ~overlapped, ~overlapped', NEW t \in Threads, NEW new, Replaced(t, new),
           \A u \in Threads : Waits(u) => u = t,
           new.pc \in Steps => Sound(t)',
           new.pc \notin Steps => ~Raised' /\ left' = Far
    PROVE  DelayInv'
<1>1. \A u \in Threads : u # t => ~Waits(u)'
  BY DEF Replaced, Waits
<1>2. Waits(t)' <=> new.pc \in Steps
  BY DEF Replaced, Waits
<1>3. Far' = Far
  BY DEF Far
<1> QED
  BY <1>1, <1>2, <1>3 DEF DelayInv

(* The steps of a delay.  A thread that runs has no handler above it.      *)
LEMMA DelayStepKeepsDelays ==
    ASSUME TypeOK, DelayInv, NEW t \in Threads, DelayStep(t)
    PROVE  DelayInv'
<1> DEFINE old == delay[t]
           new == delay'[t]
<1>1. overlapped' = overlapped /\ pending' = pending /\ hpetSleepFlag' = hpetSleepFlag
      /\ Nested' = Nested /\ Nested = <<>> /\ old.pc \in {"stop", "read", "compare", "start", "arm", "test", "hlt"}
  BY DEF DelayStep, StopCounter, ReadCounter, SetComparator, StartCounter, ArmTimer, TestFlag, Hlt,
         Step, ThreadRuns, cpuVars, schedVars, apicVars, Nested
<1> SUFFICES ASSUME ~overlapped PROVE DelayInv'
  BY <1>1 DEF DelayInv
<1>2. Waits(t) /\ Sound(t) /\ \A u \in Threads : Waits(u) => u = t
  BY <1>1 DEF DelayInv, Waits, Steps
<1>3. ~HpetEntered /\ ~HpetEntered'
  BY <1>1 DEF HpetEntered
<1>4. old \in Callers /\ left \in 1 .. Far /\ old.ns \in 1 .. MaxDelay /\ old.lag \in 0 .. Far
      /\ old.elapsed \in 0 .. Far
  BY DelaysAssumption DEF TypeOK, Callers
<1>5. Far = MaxDelay + 1 /\ Far' = Far /\ MaxDelay \in Nat
  BY DelaysAssumption DEF Far
<1>6. CASE \/ StopCounter(t) \/ StartCounter(t) \/ ArmTimer(t) \/ Hlt(t)
           \/ TestFlag(t) /\ hpetSleepFlag
  <2>1. PICK pc \in {"read", "arm", "test", "hlt"} :
           /\ Then(t, pc) /\ left' = left
           /\ pc = "read" <=> old.pc = "stop"
           /\ old.pc \in {"stop", "start", "arm", "test", "hlt"}
    BY <1>6 DEF StopCounter, StartCounter, ArmTimer, Hlt, TestFlag, Step
  <2>2. /\ Replaced(t, new) /\ new.pc = pc /\ new.ns = old.ns /\ new.elapsed = old.elapsed
    BY <2>1, ThenReplaces DEF Steps
  <2>3. Sound(t)'
    BY <1>1, <1>2, <1>3, <1>5, <2>1, <2>2 DEF Sound, Raised
  <2> QED
    BY <1>1, <1>2, <2>1, <2>2, <2>3, OneWaits DEF Steps
<1>7. CASE ReadCounter(t)
  <2>1. /\ Replaced(t, new) /\ new.pc = "compare" /\ new.ns = old.ns /\ new.elapsed = old.elapsed
        /\ new.lag = 0 /\ left' = left /\ old.pc = "read"
    BY <1>7, LagCleared DEF ReadCounter, Steps, Step
  <2>2. Sound(t)'
    BY <1>1, <1>2, <1>3, <1>4, <1>5, <2>1 DEF Sound, Raised
  <2> QED
    BY <1>1, <1>2, <2>1, <2>2, OneWaits DEF Steps
<1>8. CASE SetComparator(t)
  <2>1. /\ Replaced(t, new) /\ new.pc = "start" /\ new.ns = old.ns /\ new.elapsed = old.elapsed
        /\ left' = (IF old.lag < old.ns THEN old.ns - old.lag ELSE Far) /\ old.pc = "compare"
    BY <1>8, LagCleared DEF SetComparator, Steps, Step
  <2>2. old.lag <= old.elapsed /\ ~Raised /\ hpetSleepFlag
    BY <1>2, <2>1 DEF Sound
  <2>3. new.elapsed + left' >= new.ns
    BY <1>4, <1>5, <2>1, <2>2
  <2>4. Sound(t)'
    BY <1>1, <1>3, <2>1, <2>2, <2>3 DEF Sound, Raised
  <2> QED
    BY <1>1, <1>2, <2>1, <2>4, OneWaits DEF Steps
<1>9. CASE TestFlag(t) /\ ~hpetSleepFlag
  <2>1. /\ Replaced(t, new) /\ new.pc \in {"acpi", "unmask", "idle"} /\ left' = left
    BY <1>9, ReturnReplaces DEF TestFlag
  <2>2. left = Far /\ ~Raised
    BY <1>2, <1>9 DEF Sound
  <2> QED
    BY <1>1, <1>2, <1>3, <2>1, <2>2, OneWaits DEF Steps, Raised
<1> QED
  BY <1>6, <1>7, <1>8, <1>9 DEF DelayStep

(* A call that overlaps no other begins with the flag set, nothing on its  *)
(* way and the comparator passed.                                          *)
LEMMA PrepareKeepsDelays ==
    ASSUME TypeOK, DelayInv, NEW t \in Threads, PrepareHpetDelay(t)
    PROVE  DelayInv'
<1> DEFINE new == delay'[t]
<1>1. /\ overlapped' = (overlapped \/ \E u \in Threads : Waits(u))
      /\ pending' = pending /\ hpetSleepFlag' = TRUE /\ left' = left
      /\ Nested' = Nested /\ Nested = <<>>
  BY DEF PrepareHpetDelay, Step, ThreadRuns, schedVars, apicVars, Nested
<1> SUFFICES ASSUME ~overlapped' PROVE DelayInv'
  BY DEF DelayInv
<1>2. ~overlapped /\ \A u \in Threads : ~Waits(u)
  BY <1>1
<1>3. ~Raised /\ left = Far
  BY <1>2 DEF DelayInv
<1>4. Replaced(t, new) /\ new.pc = "stop" /\ new.elapsed = 0 /\ new \in Callers
  BY CallReplaces DEF Replaced
<1>5. Far' = Far /\ new.ns <= Far /\ Far \in Nat /\ new.ns \in Nat
  <2>1. new.ns \in 1 .. MaxDelay /\ MaxDelay \in Nat
    BY <1>4, DelaysAssumption DEF Callers
  <2> QED
    BY <2>1 DEF Far
<1>6. ~HpetEntered /\ ~HpetEntered'
  BY <1>1 DEF HpetEntered
<1>7. Sound(t)'
  BY <1>1, <1>3, <1>4, <1>5, <1>6 DEF Sound, Raised
<1> QED
  BY <1>2, <1>4, <1>7, OneWaits DEF Steps

(* The steps of KeStartThunk outside a delay.                              *)
LEMMA BootKeepsDelays ==
    ASSUME TypeOK, DelayInv, NEW t \in Threads,
           AssociateHpetInterrupt(t) \/ Configure(t) \/ SetEnabled(t) \/ Halt(t)
    PROVE  DelayInv'
<1>1. /\ overlapped' = overlapped /\ pending' = pending /\ left' = left
      /\ hpetSleepFlag' = hpetSleepFlag /\ Nested' = Nested
      /\ delay[t].pc \notin Steps
  BY DEF AssociateHpetInterrupt, Configure, SetEnabled, Halt, Step, cpuVars, hpetVars, schedVars,
         apicVars, Nested, Steps
<1>2. \/ delay' = delay
      \/ Replaced(t, delay'[t]) /\ delay'[t].pc \in {"calibrate", "enable", "halt"}
  BY ThenReplaces DEF AssociateHpetInterrupt, Configure, SetEnabled, Halt, hpetVars
<1>3. \A u \in Threads : /\ Waits(u)' <=> Waits(u)
                         /\ Waits(u) => delay'[u] = delay[u]
  BY <1>1, <1>2 DEF Replaced, Waits, Steps
<1>4. Far' = Far /\ (HpetEntered' <=> HpetEntered)
  BY <1>1 DEF Far, HpetEntered
<1>5. \A u \in Threads : Waits(u) /\ Sound(u) => Sound(u)'
  BY <1>1, <1>3, <1>4 DEF Sound, Raised
<1> QED
  BY <1>1, <1>3, <1>4, <1>5 DEF DelayInv, Raised

(* One count takes as much from the comparator as it adds to what has      *)
(* elapsed; when it raises the interrupt, the delay has.                   *)
LEMMA CountKeepsDelays ==
    ASSUME TypeOK, DelayInv, Count
    PROVE  DelayInv'
<1>1. /\ overlapped' = overlapped /\ hpetSleepFlag' = hpetSleepFlag /\ Nested' = Nested
      /\ left' = (IF left \in {1, Far} THEN Far ELSE left - 1)
      /\ HpetVector \in pending' => HpetVector \in pending \/ left = 1
  BY DEF Count, schedVars, Nested
<1> SUFFICES ASSUME ~overlapped PROVE DelayInv'
  BY <1>1 DEF DelayInv
<1>2. PICK t \in Threads : Waits(t)
  BY DEF Count
<1>3. Sound(t) /\ \A u \in Threads : Waits(u) => u = t
  BY <1>2 DEF DelayInv
<1> DEFINE old == delay[t]
           new == delay'[t]
<1>4. /\ old \in Callers /\ left \in 1 .. Far /\ old.ns \in 1 .. MaxDelay /\ old.lag \in 0 .. Far
      /\ old.elapsed \in 0 .. Far
  BY DelaysAssumption DEF TypeOK, Callers
<1>5. Far = MaxDelay + 1 /\ Far' = Far /\ MaxDelay \in Nat \ {0} /\ Far \in Nat
  BY DelaysAssumption DEF Far
<1>6. /\ new.pc = old.pc /\ new.ns = old.ns /\ new.elapsed = UpTo(old.elapsed)
      /\ old.pc = "compare" => new.lag = UpTo(old.lag)
  BY <1>2, CountReplaces
<1>7. \A u \in Threads : Waits(u)' <=> Waits(u)
  BY CountReplaces DEF Waits
<1>8. HpetEntered' <=> HpetEntered
  BY <1>1 DEF HpetEntered
<1>9. new.elapsed >= old.elapsed /\ (new.elapsed = Far \/ new.elapsed = old.elapsed + 1)
  BY <1>4, <1>5, <1>6 DEF UpTo
<1>10. /\ new.elapsed + left' >= new.ns
       /\ left = 1 => new.elapsed >= new.ns
  <2>1. old.elapsed + left >= old.ns
    BY <1>3 DEF Sound
  <2>2. new.elapsed \in Nat
    BY <1>4, <1>5, <1>9
  <2> QED
    BY <1>1, <1>4, <1>5, <1>6, <1>9, <2>1, <2>2
<1>11. new.pc = "compare" => new.lag <= new.elapsed
  <2> SUFFICES ASSUME new.pc = "compare" PROVE new.lag <= new.elapsed
    OBVIOUS
  <2>1. old.lag <= old.elapsed /\ new.lag = UpTo(old.lag)
    BY <1>3, <1>6 DEF Sound
  <2> QED
    BY <1>4, <1>5, <1>6, <2>1 DEF UpTo
<1>12. left = Far => left' = Far
  BY <1>1
<1>13. left = 1 => left # Far /\ left' = Far
  BY <1>1, <1>5
<1>14. Raised \/ ~hpetSleepFlag => left = Far /\ old.elapsed >= old.ns
  BY <1>3 DEF Sound
<1>15. Raised' => Raised \/ left = 1
  BY <1>1, <1>8 DEF Raised
<1>16. Raised' \/ ~hpetSleepFlag' => left' = Far /\ new.elapsed >= new.ns
  <2>1. CASE left = 1
    BY <1>10, <1>13, <2>1
  <2>2. CASE left # 1 /\ (Raised' \/ ~hpetSleepFlag')
    <3>1. left = Far /\ old.elapsed >= old.ns
      BY <1>1, <1>14, <1>15, <2>2
    <3>2. new.elapsed >= new.ns
      BY <1>4, <1>5, <1>6, <1>9, <3>1
    <3> QED
      BY <1>12, <3>1, <3>2
  <2> QED
    BY <2>1, <2>2
<1>17. Sound(t)'
  <2>1. old.pc \in {"stop", "read", "compare"} => left = Far /\ ~Raised /\ hpetSleepFlag
    BY <1>3 DEF Sound
  <2>2. new.pc \in {"stop", "read", "compare"} => left' = Far /\ ~Raised' /\ hpetSleepFlag'
    BY <1>1, <1>6, <1>12, <1>13, <1>15, <2>1
  <2>3. Raised' => hpetSleepFlag'
    BY <1>1, <1>3, <1>13, <1>14, <1>15 DEF Sound
  <2>4. ~(HpetVector \in pending' /\ HpetEntered')
    <3>1. HpetEntered => Raised /\ HpetVector \notin pending
      BY <1>3 DEF Raised, Sound
    <3> QED
      BY <1>1, <1>8, <1>13, <1>14, <3>1
  <2> QED
    BY <1>10, <1>11, <1>16, <2>2, <2>3, <2>4, <1>5 DEF Sound
<1> QED
  BY <1>1, <1>2, <1>3, <1>7, <1>17 DEF DelayInv

LEMMA TimerInterruptKeepsDelays ==
    ASSUME DelayInv, TimerInterrupt
    PROVE  DelayInv'
<1>1. /\ Nested' = Nested /\ hpetSleepFlag' = hpetSleepFlag /\ UNCHANGED hpetVars
      /\ HpetVector \in pending' <=> HpetVector \in pending
  BY DEF TimerInterrupt, schedVars, Nested, HpetVector, Timer
<1>2. HpetEntered' <=> HpetEntered
  BY <1>1 DEF HpetEntered
<1> QED
  BY <1>1, <1>2, InterruptDoesNotRaise DEF Raised

-----------------------------------------------------------------------------
LEMMA InitBootInv == HpetInit => BootInv
<1> SUFFICES ASSUME HpetInit PROVE BootInv
  OBVIOUS
<1> USE DEF HpetInit, InterruptsInit
<1>1. TypeOK
  <2>1. (CHOOSE n \in Delays : TRUE) \in Delays
    BY DelaysAssumption
  <2>2. Idle("acpi") \in Callers /\ Idle("idle") \in Callers
    BY <2>1, DelaysAssumption DEF Idle, Callers, Far
  <2>3. \A t \in Threads : Idle(IF t = 0 THEN "acpi" ELSE "idle") \in Callers
    BY <2>2
  <2>4. delay \in [Threads -> Callers]
    BY <2>3
  <2>5. above \in [Threads -> Seq(Handlers)]
    BY EmptySeq
  <2>6. 0 \in Threads /\ 0 \in 0 .. Quantum /\ Far \in 1 .. Far
    BY CpuAssumption, DelaysAssumption DEF Threads, Far
  <2> QED
    BY <2>4, <2>5, <2>6 DEF TypeOK
<1>2. \A t \in Threads : DOMAIN above[t] = {}
  OBVIOUS
<1>3. Nested = <<>> /\ DOMAIN Nested = {}
  BY CpuAssumption DEF Nested, Threads
<1>4. StackInv /\ SpuriousInv
  BY <1>2, <1>3 DEF StackInv, SpuriousInv
<1>5. DelayInv
  <2>1. \A t \in Threads : ~Waits(t)
    BY DEF Waits, Idle, Steps
  <2> QED
    BY <1>3, <2>1 DEF DelayInv, Raised, HpetEntered
<1> QED
  BY <1>1, <1>4, <1>5 DEF BootInv

LEMMA BootInvInductive == BootInv /\ [Next]_allVars => BootInv'
<1> SUFFICES ASSUME BootInv, [Next]_allVars PROVE BootInv'
  OBVIOUS
<1> USE DEF BootInv
<1>1. ASSUME NEW t \in Threads, ThreadStep(t)
      PROVE  BootInv'
  <2>1. DelayInv'
    BY <1>1, DelayStepKeepsDelays, PrepareKeepsDelays, BootKeepsDelays DEF ThreadStep
  <2> QED
    BY <1>1, <2>1, ThreadStepKeeps
<1>2. CASE (HandlerStep \/ Delivery \/ DriveInterrupt) /\ UNCHANGED hpetVars
  BY <1>2, InterruptKeeps, InterruptKeepsDelays
<1>3. CASE Count
  BY <1>3, CountKeeps, CountKeepsDelays
<1>4. CASE TimerInterrupt
  BY <1>4, TimerInterruptKeeps, TimerInterruptKeepsDelays
<1>5. CASE UNCHANGED allVars
  BY <1>5 DEF allVars, cpuVars, schedVars, apicVars, hpetVars, TypeOK, StackInv, SpuriousInv,
              DelayInv, Sound, Raised, HpetEntered, Nested, Waits
<1> QED
  BY <1>1, <1>2, <1>3, <1>4, <1>5 DEF Next

LEMMA BootInvAlways == Spec => []BootInv
BY InitBootInv, BootInvInductive, PTL DEF Spec

(* The state of the boot is always of its type.                            *)
THEOREM TypeCorrect == Spec => []TypeOK
<1>1. BootInv => TypeOK
  BY DEF BootInv
<1> QED
  BY <1>1, BootInvAlways, PTL

(* What the local APIC has in service is what the thread on the CPU is     *)
(* handling and has not ended, however handlers nest and threads switch in *)
(* the tick's, for any number of threads.                                  *)
THEOREM ServiceAlwaysMatches == Spec => []ServiceMatches
<1>1. StackInv => ServiceMatches
  BY DEF StackInv, ServiceMatches, Open
<1> QED
  BY <1>1, BootInvAlways, PTL DEF BootInv

(* The step in which a vector leaves the in-service register is one of the *)
(* two end of interrupts.                                                  *)
LEMMA LeavesService ==
    ASSUME BootInv, [Next]_allVars, NEW vec \in inService, vec \notin inService'
    PROVE  Nested # <<>> /\ Open(Innermost) /\ EndOfInterrupt
<1>1. CASE Eoi
  BY <1>1, EoiKeepsStack DEF BootInv, Eoi, Executing
<1>2. CASE ThinkSwitches
  BY <1>2 DEF ThinkSwitches, Executing, Open, Timer
<1>3. CASE Delivery
  BY <1>3 DEF Delivery, Accept, Spurious, Fault, apicVars
<1>4. CASE Interrupt14 \/ ThinkReturns \/ Interrupt33 \/ TriggerInterrupt \/ SpuriousReturns \/ Iret
  BY <1>4 DEF Interrupt14, ThinkReturns, Interrupt33, TriggerInterrupt, SpuriousReturns, Iret, apicVars
<1>5. CASE DriveInterrupt \/ Count \/ TimerInterrupt
  BY <1>5 DEF DriveInterrupt, Count, TimerInterrupt
<1>6. CASE \E t \in Threads : ThreadStep(t)
  BY <1>6 DEF ThreadStep, DelayStep, AssociateHpetInterrupt, Configure, SetEnabled, Halt,
              PrepareHpetDelay, StopCounter, ReadCounter, SetComparator, StartCounter, ArmTimer,
              TestFlag, Hlt, cpuVars, apicVars
<1>7. CASE UNCHANGED allVars
  BY <1>7 DEF allVars, cpuVars, apicVars
<1> QED
  BY <1>1, <1>2, <1>3, <1>4, <1>5, <1>6, <1>7 DEF Next, HandlerStep

(* No handler ever ends the interrupt of another one.                      *)
THEOREM HandlersEndTheirOwn == Spec => EoiEndsOwn
<1>1. BootInv /\ [Next]_allVars =>
        [\A vec \in inService : vec \notin inService' => Innermost.vec = vec]_allVars
  BY LeavesService, EndsOwn DEF BootInv
<1> QED
  BY <1>1, BootInvAlways, PTL DEF Spec, EoiEndsOwn

(* The step in which a frame is overwritten is the entry of a handler.     *)
LEMMA Overwrites ==
    ASSUME BootInv, [Next]_allVars, ~clobbered, clobbered'
    PROVE  \/ \E vec \in pending : Accept(vec)
           \/ Spurious
           \/ Fault
<1>1. CASE HandlerStep
  BY <1>1 DEF HandlerStep, Interrupt14, ThinkReturns, ThinkSwitches, Interrupt33, TriggerInterrupt,
              SpuriousReturns, Eoi, Iret
<1>2. CASE DriveInterrupt \/ Count \/ TimerInterrupt
  BY <1>2 DEF DriveInterrupt, Count, TimerInterrupt
<1>3. CASE \E t \in Threads : ThreadStep(t)
  BY <1>3 DEF ThreadStep, DelayStep, AssociateHpetInterrupt, Configure, SetEnabled, Halt,
              PrepareHpetDelay, StopCounter, ReadCounter, SetComparator, StartCounter, ArmTimer,
              TestFlag, Hlt, cpuVars
<1>4. CASE UNCHANGED allVars
  BY <1>4 DEF allVars, cpuVars
<1> QED
  BY <1>1, <1>2, <1>3, <1>4 DEF Next, Delivery

(* Before its end of interrupt, only a page fault overwrites the frame of  *)
(* a handler of 32 and up.                                                 *)
THEOREM FramesKept == Spec => FrameKeptUntilEoi
<1> DEFINE entered == above'[m_Index][Len(above'[m_Index])].vec
           Kept == ~clobbered /\ clobbered' =>
                     \/ entered = PageFault
                     \/ \A h \in Running : Ist(h.vec) = Ist(entered) => h.vec = PageFault \/ h.pc = "ret"
<1>1. ASSUME BootInv, [Next]_allVars, ~clobbered, clobbered'
      PROVE  \/ entered = PageFault
             \/ \A h \in Running : Ist(h.vec) = Ist(entered) => h.vec = PageFault \/ h.pc = "ret"
  <2>1. TypeOK /\ StackInv
    BY <1>1 DEF BootInv
  <2>2. CASE \E vec \in pending : Accept(vec)
    <3>1. PICK vec \in pending : Accept(vec)
      BY <2>2
    <3>2. \A t \in Threads : \A i \in DOMAIN above[t] : ~Busy(above[t][i])
      BY <2>1, <3>1, NothingBusy
    <3> QED
      BY <3>2 DEF Running, Busy
  <2>3. CASE Spurious
    <3>1. entered = SpuriousVector
      BY <2>1, <2>3, EnteredHandler DEF Spurious
    <3>2. \A t \in Threads : \A i \in DOMAIN above[t] : ~Masked(above[t][i])
      BY <2>1, <2>3, NothingMasked DEF Spurious
    <3>3. ASSUME NEW h \in Running, Ist(h.vec) = Ist(SpuriousVector)
          PROVE  h.vec = PageFault \/ h.pc = "ret"
      <4>1. ~Masked(h)
        BY <3>2 DEF Running
      <4>2. h.vec # Timer
        BY <3>3 DEF Ist, Timer, SpuriousVector
      <4> QED
        BY <4>1, <4>2 DEF Masked, Busy, Late
    <3> QED
      BY <3>1, <3>3
  <2>4. CASE Fault
    <3>1. entered = PageFault
      BY <2>1, <2>4, EnteredHandler DEF Fault
    <3> QED
      BY <3>1
  <2> QED
    BY <1>1, <2>2, <2>3, <2>4, Overwrites
<1>2. BootInv /\ [Next]_allVars => [Kept]_allVars
  BY <1>1
<1> QED
  BY <1>2, BootInvAlways, PTL DEF Spec, FrameKeptUntilEoi

(* The step in which a caller returns is a test that finds the flag clear. *)
LEMMA Returns ==
    ASSUME BootInv, [Next]_allVars, NEW t \in Threads, Waits(t), ~Waits(t)'
    PROVE  ~hpetSleepFlag
<1> USE DEF BootInv
<1>0. delay'[t] # delay[t] /\ delay[t].pc \in Steps /\ delay'[t].pc \notin Steps
  BY DEF Waits
<1>1. CASE (HandlerStep \/ Delivery \/ DriveInterrupt) /\ UNCHANGED hpetVars
  BY <1>0, <1>1 DEF hpetVars
<1>2. CASE Count
  BY <1>0, <1>2, CountReplaces
<1>3. CASE TimerInterrupt
  BY <1>0, <1>3 DEF TimerInterrupt, hpetVars
<1>4. ASSUME NEW u \in Threads, ThreadStep(u)
      PROVE  ~hpetSleepFlag
  <2>1. delay' = delay \/ Replaced(u, delay'[u])
    BY <1>4, ThenReplaces, LagCleared, CallReplaces, ReturnReplaces
    DEF ThreadStep, DelayStep, AssociateHpetInterrupt, Configure, SetEnabled, Halt,
        StopCounter, ReadCounter, SetComparator, StartCounter, ArmTimer,
        TestFlag, Hlt, Steps, hpetVars
  <2>2. u = t
    BY <1>0, <2>1 DEF Replaced
  <2>3. CASE AssociateHpetInterrupt(u) \/ Configure(u) \/ SetEnabled(u) \/ Halt(u) \/ PrepareHpetDelay(u)
    BY <1>0, <2>2, <2>3 DEF AssociateHpetInterrupt, Configure, SetEnabled, Halt, PrepareHpetDelay, Step,
                      Steps, hpetVars
  <2>4. CASE StopCounter(u) \/ StartCounter(u) \/ ArmTimer(u) \/ Hlt(u) \/ (TestFlag(u) /\ hpetSleepFlag)
    <3>1. delay'[u].pc \in Steps
      BY <2>4, ThenReplaces DEF StopCounter, StartCounter, ArmTimer, Hlt, TestFlag, Steps
    <3> QED
      BY <1>0, <2>2, <3>1
  <2>5. CASE ReadCounter(u) \/ SetComparator(u)
    <3>1. delay'[u].pc \in Steps
      BY <2>5, LagCleared DEF ReadCounter, SetComparator, Steps
    <3> QED
      BY <1>0, <2>2, <3>1
  <2>6. CASE TestFlag(u) /\ ~hpetSleepFlag
    BY <2>6
  <2> QED
    BY <1>4, <2>3, <2>4, <2>5, <2>6 DEF ThreadStep, DelayStep
<1>5. CASE UNCHANGED allVars
  BY <1>0, <1>5 DEF allVars, hpetVars
<1> QED
  BY <1>1, <1>2, <1>3, <1>4, <1>5 DEF Next

(* A delay that no other one overlaps is never short, for any delays, any  *)
(* number of threads and any quantum.                                      *)
THEOREM DelaysNotShort == Spec => DelayNotShort
<1> DEFINE NotShort == \A t \in Threads :
              Waits(t) /\ ~Waits(t)' /\ ~overlapped => delay[t].elapsed >= delay[t].ns
<1>1. ASSUME BootInv, [Next]_allVars, NEW t \in Threads, Waits(t), ~Waits(t)', ~overlapped
      PROVE  delay[t].elapsed >= delay[t].ns
  <2>1. ~hpetSleepFlag
    BY <1>1, Returns
  <2>2. Sound(t)
    BY <1>1 DEF BootInv, DelayInv
  <2> QED
    BY <2>1, <2>2 DEF Sound
<1>2. BootInv /\ [Next]_allVars => [NotShort]_allVars
  BY <1>1
<1> QED
  BY <1>2, BootInvAlways, PTL DEF Spec, DelayNotShort

=============================================================================
