---------------------------- MODULE MCScheduler -----------------------------
(* Instances of the scheduler for TLC.                                     *)
EXTENDS SchedulerProps, TLC

AllCalls == {"sleep", "add", "return", "stop"}
ShortSleeps == {0, 1, 2}
OneOrTwo == {1, 2}
OneOrThree == {1, 3}

Symmetry == Permutations(Workers)
=============================================================================
