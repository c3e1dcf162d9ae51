------------------------------- MODULE Vector -------------------------------
(***************************************************************************)
(* std::vector of trivially copyable elements, as the kernel uses it       *)
(* (m_Threads and m_SuspendedThreads in scheduler/scheduler.h, the waiter  *)
(* lists in scheduler/semaphore.h).  The library itself (freecxxlib) is    *)
(* not part of the repository, so this module is external: it is what the  *)
(* calls in scheduler.cpp and semaphore.cpp need of it.                    *)
(*                                                                         *)
(* A vector is its storage and its length.  The slots past the length are  *)
(* kept because the kernel reads them: operator[] is not bounds-checked    *)
(* and m_Index is not adjusted by an erase, so a slot that an erase has    *)
(* vacated is read again with the value the erase left in it.              *)
(***************************************************************************)
EXTENDS Naturals, FiniteSets

VectorOf(S, cap) == [mem : [0 .. cap - 1 -> S], len : 0 .. cap]

EmptyVector(filler, cap) == [mem |-> [i \in 0 .. cap - 1 |-> filler], len |-> 0]

Live(v) == 0 .. v.len - 1

Elements(v) == {v.mem[i] : i \in Live(v)}

PushBack(v, x) == [mem |-> [v.mem EXCEPT ![v.len] = x], len |-> v.len + 1]

(* The positions std::erase(v, x) keeps: those that do not hold x.         *)
Kept(v, x) == {i \in Live(v) : v.mem[i] # x}

(* How many members of K come before k.                                    *)
Rank(K, k) == Cardinality({j \in K : j < k})

(* std::erase(v, x): the kept elements move down to the front in order,    *)
(* and the slots behind them keep their old contents.                      *)
Erase(v, x) ==
    LET K == Kept(v, x)
    IN  [mem |-> [i \in DOMAIN v.mem |->
                    IF i < Cardinality(K)
                      THEN v.mem[CHOOSE k \in K : Rank(K, k) = i]
                      ELSE v.mem[i]],
         len |-> Cardinality(K)]

(* std::find_if over the live elements: the first position in P.           *)
First(P) == CHOOSE p \in P : \A q \in P : p <= q
=============================================================================
