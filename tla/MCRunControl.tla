----------------------------- MODULE MCRunControl -----------------------------
(* A run takes one unit of each dimension; one of them is the scarcer.     *)
EXTENDS RunControl, TLC

CONSTANTS Slots, Quota

MCNeeds == [d \in Dim |-> 1]
MCLimits == [d \in Dim |-> IF d = "model_concurrency" THEN Slots ELSE Quota]

\* Tasks are interchangeable.
MCSymmetry == Permutations(Task)
===============================================================================
