---------------------------- MODULE MCSessionLease ----------------------------
(* One session, two clients.                                               *)
EXTENDS SessionLease

CONSTANTS s1, k1, t1, a, b, m0, m1, m2, m3, h1, h2

MCSessionOf == [x \in Call \cup Stream |-> s1]

\* Client a chose every command id but m2; the hashes of two clients differ.
MCIssuer == [m \in Command |-> IF m = m2 THEN b ELSE a]
MCOwnerHash == [c \in Client |-> IF c = a THEN h1 ELSE h2]
===============================================================================
