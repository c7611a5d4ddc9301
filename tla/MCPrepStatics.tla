---------------------------- MODULE MCPrepStatics ----------------------------
(***************************************************************************)
(* Instances of PrepStatics for TLC.                                       *)
(***************************************************************************)
EXTENDS PrepStatics

CONSTANTS a, b, alike, broken, f, g

(* In Rust one name reads like a, and one is no name.                      *)
MCReadAs == [n \in Name |-> CASE n = alike -> a [] n = broken -> Unreadable [] OTHER -> n]

Do(op, n, k, o) == [op |-> op, name |-> n, file |-> IF n = b THEN g ELSE f, kind |-> k, other |-> o]
Statements == {Do("set", a, "plain", a), Do("set", b, "plain", a), Do("try", a, "plain", b),
               Do("use", a, "plain", a), Do("exit", a, "plain", a), Do("terminate", a, "plain", a)}
Short  == {<<s>> : s \in Statements}
Pairs  == {<<s, t>> : s, t \in Statements}

(* A static of each kind, then another one, or one of another name.        *)
Kinds    == Kind \ {"altered"}
OneBlock == {<<p>> : p \in {<<Do("set", a, k, a), s>> : k \in Kinds, s \in Statements}
                        \cup {<<Do("set", n, k, n), Do("set", m, "regex", m)>> :
                                 n \in {alike, broken}, m \in {a, b}, k \in {"plain", "digits", "nan_map"}}}
MCPrograms == {<<>>} \cup OneBlock
                \cup {<<x, y>> : x \in Short \cup Pairs, y \in Short \cup Pairs}
==============================================================================
