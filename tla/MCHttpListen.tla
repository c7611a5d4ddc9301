---------------------------- MODULE MCHttpListen -----------------------------
(***************************************************************************)
(* Instances of HttpListen for TLC.                                        *)
(***************************************************************************)
EXTENDS HttpListen

(* A counter every request adds to, and a log it may push a line to.       *)
Hits == [r \in Request |-> [k \in Shared |-> IF k = 1 THEN {Add(1)} ELSE {Keep, Push(<<r>>)}]]
NoHits == {[k \in Shared |-> IF k = 1 THEN [num |-> 0] ELSE v] : v \in {[list |-> <<>>], Absent}}
==============================================================================
