---------------------------- MODULE MCLogStream ----------------------------
(* Instances of LogStream for TLC.                                         *)
EXTENDS LogStream, TLC

CONSTANTS a1, a2, a3, n1, n2

MCNodes   == {n1, n2}

(* Two calls on two nodes, and two that share a Log and its hint.          *)
MCPair    == {a1, a3}
MCShared  == {a1, a2}

MCNodeOf  == [a \in Appends |-> IF a = a3 THEN n2 ELSE n1]
=============================================================================
