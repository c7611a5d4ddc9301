---------------------------- MODULE MCAsyncBrowse ----------------------------
(***************************************************************************)
(* Instances of AsyncBrowse for TLC.                                       *)
(***************************************************************************)
EXTENDS AsyncBrowse

MCElement == 0 .. MaxItems
MCPiece   == {"x", "y"}

(* A list every thread may push a pair to, and a number it adds to.        *)
GrowthBodies == [t \in Thread |-> [k \in Shared |->
                   IF k = 1 THEN {Keep, Push(<<t, 0>>)} ELSE {Add(t)}]]
GrowthOuter  == {[k \in Shared |-> IF k = 1 THEN [list |-> <<0>>] ELSE [num |-> 5]]}
Interpreted  == {[native |-> FALSE, params |-> SharedCount + 1]}

(* A number that may be replaced by another number or by a map, or be      *)
(* missing at first, and a string that grows.                              *)
MixedBodies == [t \in Thread |-> [k \in Shared |->
                  IF k = 1 THEN {Add(t), Assign([num |-> 7]), Assign([other |-> "map"])}
                           ELSE {Concat(<<"x">>)}]]
MixedOuter  == {[k \in Shared |-> IF k = 1 THEN v ELSE [str |-> <<"y">>]] :
                  v \in {Absent, [num |-> 5]}}
AnyArity    == [native : BOOLEAN, params : 1 .. SharedCount + 2]
==============================================================================
