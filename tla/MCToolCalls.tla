----------------------------- MODULE MCToolCalls ------------------------------
(* Small instances of ToolCalls: the classes and the ids of the calls.       *)
EXTENDS ToolCalls

ClassProtected == [a \in Intent |-> "ProtectedWrite"]
Ids3 == 1 .. 3
Ids2 == 1 .. 2
=============================================================================
