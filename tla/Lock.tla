-------------------------------- MODULE Lock ---------------------------------
(***************************************************************************)
(* What callers of AcpiOsAcquireLock and AcpiOsReleaseLock count on: a     *)
(* lock is taken by one thread at a time, and only its holder gives it     *)
(* back.                                                                   *)
(***************************************************************************)
CONSTANT Thread
VARIABLE holders

Init == holders = {}

Take(t) == holders = {} /\ holders' = {t}
Give(t) == holders = {t} /\ holders' = {}

Next == \E t \in Thread : Take(t) \/ Give(t)

Spec == Init /\ [][Next]_holders
=============================================================================
