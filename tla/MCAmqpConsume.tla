---------------------------- MODULE MCAmqpConsume ----------------------------
(***************************************************************************)
(* Instances of AmqpConsume for TLC.                                       *)
(***************************************************************************)
EXTENDS AmqpConsume

(* A counter, and a log that may not exist yet, which a push then does not *)
(* fit.                                                                    *)
Bodies == [m \in Message |-> [k \in Shared |-> IF k = 1 THEN {Keep, Add(1)} ELSE {Keep, Push(<<m>>)}]]
Outers == {<<[num |-> 0], v>> : v \in {[list |-> <<>>], Absent}}
==============================================================================
