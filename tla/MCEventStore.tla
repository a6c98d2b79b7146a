----------------------------- MODULE MCEventStore -----------------------------
(* One session, or two, for TLC.                                           *)
EXTENDS EventStore, TLC

CONSTANTS s1, s2, k1, k2, t1

\* k2 is a call of the second session where there is one.
MCSessionOf == [a \in Call \cup Stream |-> IF a = k2 /\ s2 \in Session THEN s2 ELSE s1]

\* Command ids are interchangeable: no definition tells them apart.
MCSymmetry == Permutations(Command)
===============================================================================
