----------------------------- MODULE MCStatements ----------------------------
(***************************************************************************)
(* Small programs for the machines of the interpreter and of the generated *)
(* code: every composite statement around every leaf, and around every     *)
(* such statement.  Names tell the statements of a program apart.          *)
(***************************************************************************)
EXTENDS Integers, Sequences

Make(op, name, body, alts) == [op |-> op, name |-> name, body |-> body, alts |-> alts]
Leaf(op, name) == Make(op, name, <<>>, <<>>)

Do  == Leaf("work", "w")
End == Leaf("work", "z")
Pan == Leaf("panic", "p")
Ex  == Leaf("exit", "x")
Ter == Leaf("terminate", "t")
Leaves == {Do, End, Pan, Ex, Ter}

Wrap(op, name, body) == Make(op, name, body, <<>>)
Wraps(name, body) == {Wrap(op, name, body) : op \in {"browse", "call", "loop", "dont_panic"}}

(* One composite statement of each kind with that body.                    *)
Each(name, body) ==
  Wraps(name, body)
    \cup {Make("if", name, body, <<<<>>>>)}
    \cup {Make("try", name, body, alts) : alts \in {<<<<Do>>>>, <<<<Pan>>, <<End>>>>}}

Inner  == UNION {Each("i", b) : b \in {<<Do>>, <<Pan>>, <<Ex>>, <<Ter, Do>>}}
Outer  == UNION {Each("o", <<s, End>>) : s \in Inner}
AllStmt == Leaves \cup Inner \cup Outer
AllPrograms == {<<s, End>> : s \in Outer}

(* REPL inputs.                                                            *)
TerLoop  == Wrap("loop", "o", <<Ter>>)

(* Programs without terminate, and those where it ends a block of ifs in a *)
(* loop: what the generated code does as the interpreter.                  *)
Plain ==
  UNION {Wraps("i", b) \cup {Make("if", "i", b, <<<<Do>>>>)}
           \cup {Make("try", "i", b, <<<<Do>>, <<Pan>>, <<End>>>>)}
         : b \in {<<Do>>, <<Do, Pan>>, <<Ex>>}}
Ifs    == {Make("if", "i", <<Do, Ter>>, <<<<>>>>), Make("if", "i", <<>>, <<<<Do, Ter>>>>)}
LoopStmts  == {Wrap(op, "o", <<Do, s>>) : op \in {"loop", "browse"}, s \in Ifs \cup {Ter}}
Nested ==
  UNION {Wraps("o", <<s, End>>) \cup {Make("try", "o", <<s, End>>, <<<<Do>>, <<Pan>>>>)} : s \in Plain}
    \cup UNION {Wraps("q", <<s>>) \cup {Make("try", "q", <<s>>, <<<<End>>>>)} : s \in LoopStmts}
AgreeStmt == Leaves \cup Plain \cup Ifs \cup LoopStmts \cup Nested
AgreePrograms == {<<s, End>> : s \in Plain \cup LoopStmts \cup Nested}

(* terminate in the body of a try, as examples/loop.corvo has it.          *)
TryTerminate == Make("try", "i", <<Do, Ter>>, <<<<>>>>)
LoopExample  == Wrap("loop", "o", <<Do, TryTerminate>>)
ExampleStmt  == {Do, End, Ter, TryTerminate, LoopExample}
Examples     == {<<LoopExample, End>>, <<End, LoopExample, End>>}
==============================================================================
