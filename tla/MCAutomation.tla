---------------------------- MODULE MCAutomation ----------------------------
(* Module Automation for TLC: which firings are of which version.          *)
EXTENDS Automation

KeyVersions == [k \in Key |-> IF k = "b" THEN 2 ELSE 1]

=============================================================================
