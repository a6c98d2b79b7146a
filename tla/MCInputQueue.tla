----------------------------- MODULE MCInputQueue -----------------------------
(* Two inputs, one of them from a producer; values for the settings.       *)
EXTENDS InputQueue

CONSTANTS x, y

MCTyped == [i \in Input |-> x]
===============================================================================
