----------------------------- MODULE MCJobQueue -----------------------------
(* JobQueue for TLC: two kinds of job, a heap of HalfSize objects in each half. *)
EXTENDS JobQueue, TLC

CONSTANT HalfSize   \* bound: objects in each half of the heap

MCAddr     == 1 .. 2 * HalfSize
MCLowSpace == 1 .. HalfSize
MCOther    == [a \in MCAddr |-> IF a <= HalfSize THEN a + HalfSize ELSE a - HalfSize]
JobSymmetry == Permutations(Jobs)
=============================================================================
