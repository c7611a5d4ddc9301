---------------------------- MODULE MCCompileCache ---------------------------
(***************************************************************************)
(* Instances of CompileCache for TLC.                                      *)
(***************************************************************************)
EXTENDS CompileCache, TLC

CONSTANTS p1, p2, p3

Compile(n, l, r) == [op |-> "compile", no_debug |-> n, local |-> l, profile |-> r]
MCJobs == {Compile(FALSE, FALSE, "release"), Compile(TRUE, FALSE, "release"),
           Compile(FALSE, TRUE, "debug"), [op |-> "clean"]}
Symmetry == Permutations(Process)
==============================================================================
