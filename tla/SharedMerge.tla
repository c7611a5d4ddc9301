----------------------------- MODULE SharedMerge -----------------------------
(***************************************************************************)
(* The values a `shared` variable can hold, and the merge that folds the   *)
(* final value of a concurrent body back into the mutex-protected cell     *)
(* (Value::merge_shared_writeback).  async_browse, http_listen and         *)
(* amqp_consume all write their shared variables back through it.          *)
(*                                                                         *)
(* A value is a record whose single field names its variant.  Numbers are  *)
(* integers (the code has f64), a string is the sequence of its pieces,    *)
(* and every variant the merge treats alike (map, boolean, null, ...) is   *)
(* an opaque value.                                                        *)
(***************************************************************************)
EXTENDS Integers, Sequences, SequencesExt

CONSTANTS Element,  \* what a shared list contains
          Piece,    \* what a shared string is made of
          Opaque,   \* maps, booleans, null, ...: compared, never merged
          Null,     \* the opaque value null
          Absent    \* stands for a variable the state does not have

NumberValue == [num : Int]
ListValue   == [list : Seq(Element)]
StringValue == [str : Seq(Piece)]
OtherValue  == [other : Opaque]
Value       == NumberValue \cup ListValue \cup StringValue \cup OtherValue
NullValue   == [other |-> Null]

ASSUME NullAssumption == Null \in Opaque /\ Absent \notin Value

(* What the Mutex of a shared variable starts from (var_get, else null).   *)
Loaded(v) == IF v = Absent THEN NullValue ELSE v

(* Mutants: no merge at all, and an off-by-one at the start of the tail.   *)
MergeLastWriter(snap, fin, cur) == fin
MergeShortTail(snap, fin, cur) ==
  IF snap \in ListValue /\ fin \in ListValue /\ cur \in ListValue
  THEN [list |-> cur.list \o SubSeq(fin.list, Len(snap.list) + 2, Len(fin.list))]
  ELSE fin

(***************************************************************************)
(* The write-back of one shared variable: snap is what the body started    *)
(* from, fin what it ended with, cur what the cell holds by now.           *)
(***************************************************************************)
MergeSharedWriteback(snap, fin, cur) ==
  CASE /\ snap \in ListValue /\ fin \in ListValue /\ cur \in ListValue
       /\ IsPrefix(snap.list, fin.list)
         -> [list |-> cur.list \o SubSeq(fin.list, Len(snap.list) + 1, Len(fin.list))]
    [] snap \in NumberValue /\ fin \in NumberValue /\ cur \in NumberValue
         -> [num |-> cur.num + (fin.num - snap.num)]
    [] /\ snap \in StringValue /\ fin \in StringValue /\ cur \in StringValue
       /\ IsPrefix(snap.str, fin.str)
         -> [str |-> cur.str \o SubSeq(fin.str, Len(snap.str) + 1, Len(fin.str))]
    [] OTHER -> fin

(***************************************************************************)
(* What a body does to a shared variable: keep it, grow it (`+=` on a      *)
(* number or a string, list.push), or assign a new value.  Grow is what    *)
(* the merge is meant to accumulate.                                       *)
(***************************************************************************)
Keep      == [keep |-> TRUE]
Add(n)    == [add |-> n]
Push(s)   == [push |-> s]
Concat(s) == [concat |-> s]
Assign(v) == [assign |-> v]

Growth == {Keep} \cup [add : Int] \cup [push : Seq(Element)] \cup [concat : Seq(Piece)]
Update == Growth \cup [assign : Value]

(* `+=` and list.push raise a type error on any other variant.             *)
Fits(u, v) ==
  CASE u \in [add : Int]             -> v \in NumberValue
    [] u \in [push : Seq(Element)]   -> v \in ListValue
    [] u \in [concat : Seq(Piece)]   -> v \in StringValue
    [] OTHER                         -> TRUE

Apply(u, v) ==
  CASE u \in [add : Int]             -> [num |-> v.num + u.add]
    [] u \in [push : Seq(Element)]   -> [list |-> v.list \o u.push]
    [] u \in [concat : Seq(Piece)]   -> [str |-> v.str \o u.concat]
    [] u \in [assign : Value]        -> u.assign
    [] OTHER                         -> v

(* An update the merge accumulates on a cell of that variant.              *)
Accumulates(u, v) ==
  /\ u \in Growth
  /\ v \in NumberValue \cup ListValue \cup StringValue
  /\ Fits(u, v)

(* Two values of one mergeable variant.                                    *)
SameVariant(v, w) ==
  \/ v \in NumberValue /\ w \in NumberValue
  \/ v \in ListValue   /\ w \in ListValue
  \/ v \in StringValue /\ w \in StringValue
==============================================================================
