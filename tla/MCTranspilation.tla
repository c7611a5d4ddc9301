--------------------------- MODULE MCTranspilation ---------------------------
(***************************************************************************)
(* Instances of Transpilation for TLC.                                     *)
(***************************************************************************)
EXTENDS Transpilation, MCStatements

(* The programs that are to agree are tame.                                *)
AgreeLeaving == {Ter} \cup Ifs
AgreeQuiet   == AgreeStmt \ AgreeLeaving
ASSUME AgreeAssumption ==
  /\ Tame(AgreeQuiet, AgreeLeaving)
  /\ \A p \in AgreePrograms : All(p, AgreeQuiet)
==============================================================================
