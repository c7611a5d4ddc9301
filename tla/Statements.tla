----------------------------- MODULE Statements ------------------------------
(***************************************************************************)
(* The statements of Corvo as far as control goes, shared by the machines  *)
(* of the interpreter (ControlFlow) and of the generated Rust code         *)
(* (TranspiledFlow).                                                       *)
(*                                                                         *)
(* A statement is a record [op, name, body, alts]: the body of a loop, a   *)
(* browse, a try, a dont_panic, a called procedure or the then branch of   *)
(* an if; alts holds the fallbacks of a try, or the else branch.           *)
(***************************************************************************)
EXTENDS Integers, Sequences, SequencesExt

CONSTANTS
  Stmt,      \* the statements, closed under taking bodies and alternatives
  Programs,  \* the programs, or REPL inputs, as sequences of statements
  MaxItems   \* bound on the entries a browse iterates over

Op == {"work", "panic", "exit", "terminate", "if", "browse", "call", "try", "loop", "dont_panic"}

(* CorvoError::Runtime, ::ExitRequest, and every other variant.            *)
Error  == {"runtime", "exit", "other"}
Result == {"ok"} \cup Error

ASSUME StmtAssumption ==
  \A s \in Stmt : /\ s.op \in Op
                  /\ s.body \in Seq(Stmt)
                  /\ s.alts \in Seq(Seq(Stmt))
                  /\ s.op = "if" => s.alts # <<>>
ASSUME ProgramAssumption == Programs \subseteq Seq(Stmt)
ASSUME BoundAssumption == MaxItems \in Nat

(* The errors the evaluation of a statement's expressions may end with:    *)
(* any expression may fail, and sys.panic and sys.exit always do.          *)
Failures(s) ==
  CASE s.op = "panic" -> {"runtime"}
    [] s.op = "exit"  -> {"exit"}
    [] s.op \in {"work", "if", "browse", "call"} -> {"runtime", "other"}
    [] OTHER -> {}

(* What a step decided: how a statement named so went, and how many        *)
(* entries a browse has.                                                   *)
Chose(s, c)  == [name |-> s.name, choice |-> c, items |-> 0]
HasItems(s, n) == [name |-> s.name, choice |-> "items", items |-> n]
None == [name |-> "none", choice |-> "none", items |-> 0]
Names  == {s.name : s \in Stmt} \cup {"none"}
Choice == Result \cup {"then", "else", "call", "empty", "items", "none"}
Event  == [name : Names, choice : Choice, items : Nat]
==============================================================================
