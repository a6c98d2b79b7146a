----------------------------- MODULE InputPromise -----------------------------
(***************************************************************************)
(* What the input queue promises the person who types into it, with no     *)
(* log, loop, handler or crash in sight: an input is asked for, may be     *)
(* changed or withdrawn while it waits, and is given to the model at most  *)
(* once, as it was last agreed.                                            *)
(***************************************************************************)
CONSTANTS Input, Text, NoText

VARIABLES
    wanted,   \* wanted[i]: what the person was last told i says, or is
    given     \* given[i]: the text the model was given for i

promiseVars == <<wanted, given>>

Init == /\ wanted = [i \in Input |-> "never asked"]
        /\ given = [i \in Input |-> NoText]

Waiting(i) == wanted[i] \in Text /\ given[i] = NoText

Ask(i, t) == /\ wanted[i] = "never asked"
             /\ wanted' = [wanted EXCEPT ![i] = t]
             /\ UNCHANGED given

Change(i, t) == /\ Waiting(i)
                /\ wanted' = [wanted EXCEPT ![i] = t]
                /\ UNCHANGED given

Withdraw(i) == /\ Waiting(i)
               /\ wanted' = [wanted EXCEPT ![i] = "withdrawn"]
               /\ UNCHANGED given

Give(S) == /\ \A i \in S : Waiting(i)
           /\ given' = [i \in Input |-> IF i \in S THEN wanted[i] ELSE given[i]]
           /\ UNCHANGED wanted

Next == \/ \E i \in Input : \/ \E t \in Text : Ask(i, t) \/ Change(i, t)
                            \/ Withdraw(i)
        \/ \E S \in SUBSET Input : Give(S)

Spec == Init /\ [][Next]_promiseVars
===============================================================================
