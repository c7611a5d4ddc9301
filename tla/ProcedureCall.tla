---------------------------- MODULE ProcedureCall ----------------------------
(***************************************************************************)
(* Procedure calls: arguments by reference, over the single table of       *)
(* variables of RuntimeState.  An interpreted call (exec_procedure_call)   *)
(* and a call in transpiled code (corvo_method_call! around the generated  *)
(* callback) save the variables named like a parameter, bind the           *)
(* parameters, run the body, and copy back and restore one parameter after *)
(* the other.  The bodies, and the program around them, assign, fail,      *)
(* catch and call in any order.                                            *)
(***************************************************************************)
EXTENDS Integers, Sequences

CONSTANTS
  Names,     \* the variables
  Values,    \* what they hold
  Null,      \* Value::Null
  Absent,    \* no variable of that name
  Params,    \* the parameter lists of the procedures
  Outers,    \* the argument lists: a variable, or Literal for any other expression
  Literal,
  MaxDepth   \* bound on nested calls

ASSUME ValuesAssumption == Null \in Values /\ Absent \notin Values
ASSUME ListsAssumption ==
  /\ Params \subseteq Seq(Names) /\ Outers \subseteq Seq(Names \cup {Literal})
  /\ Literal \notin Names /\ MaxDepth \in Nat

VARIABLES
  native,   \* transpiled code, not the interpreter
  vars,     \* RuntimeState::vars
  calls,    \* the calls under way, innermost last
  failing   \* an error is propagating

state == <<native, vars, calls, failing>>

Slot == Values \cup {Absent}

(* saved: what the parameters' names held.  next: the parameter that is    *)
(* copied back next, 0 while the body runs.  before, after: history, the   *)
(* variables when the call began and when its body had ended.              *)
Call == [params : Seq(Names), outer : Seq(Names \cup {Literal}), saved : Seq(Slot), next : Nat,
         before : [Names -> Slot], after : [Names -> Slot]]

Top == calls[Len(calls)]
Pop == SubSeq(calls, 1, Len(calls) - 1)
Named(params) == {params[i] : i \in 1 .. Len(params)}

CallsTypeOK ==
  /\ native \in BOOLEAN
  /\ vars \in [Names -> Slot]
  /\ calls \in Seq(Call)
  /\ \A i \in 1 .. Len(calls) : /\ calls[i].next <= Len(calls[i].params)
                                /\ Len(calls[i].params) <= Len(calls[i].outer)
                                /\ Len(calls[i].params) = Len(calls[i].saved)
  /\ failing \in BOOLEAN

CallsInit ==
  /\ native \in BOOLEAN
  /\ vars = [n \in Names |-> Absent]
  /\ calls = <<>>
  /\ failing = FALSE
-----------------------------------------------------------------------------
(* What a body, or the program, does between calls.                        *)

Running == calls # <<>> => Top.next = 0

AssignVariable ==
  /\ Running /\ ~failing
  /\ \E n \in Names, v \in Values : vars' = [vars EXCEPT ![n] = v]
  /\ UNCHANGED <<native, calls, failing>>

Raise ==
  /\ Running /\ ~failing
  /\ failing' = TRUE
  /\ UNCHANGED <<native, vars, calls>>

(* A try or a dont_panic around the failing statement.                     *)
Catch ==
  /\ Running /\ failing
  /\ failing' = FALSE
  /\ UNCHANGED <<native, vars, calls>>
-----------------------------------------------------------------------------
(* The call.                                                               *)

(* The values of the arguments, evaluated over the variables given; there  *)
(* are none when an argument is a variable that is not set.                *)
ArgumentValues(outer, table) ==
  {args \in [1 .. Len(outer) -> Values] :
     \A i \in 1 .. Len(outer) : outer[i] # Literal => args[i] = table[outer[i]]}

(* var_remove, parameter after parameter: a name given twice is found once. *)
Saved(params) ==
  [i \in 1 .. Len(params) |->
     IF \E j \in 1 .. i - 1 : params[j] = params[i] THEN Absent ELSE vars[params[i]]]
Removed(params) == [n \in Names |-> IF n \in Named(params) THEN Absent ELSE vars[n]]

(* No later element of the sequence is the same as the i-th.               *)
LastAmong(seq, i, n) == \A j \in i + 1 .. n : seq[j] # seq[i]

(* var_set, parameter after parameter: the variables that result.          *)
AfterBinding(params, args) ==
  {table \in [Names -> Slot] :
     /\ \A n \in Names \ Named(params) : table[n] = vars[n]
     /\ \A i \in 1 .. Len(params) :
          LastAmong(params, i, Len(params)) => table[params[i]] = args[i]}

Enter(params, outer, args) ==
  /\ calls' = Append(calls, [params |-> params, outer |-> outer, saved |-> Saved(params), next |-> 0,
                             before |-> vars, after |-> vars])
  /\ vars' \in AfterBinding(params, args)
  /\ UNCHANGED <<native, failing>>

CallInterpreted(params, outer) ==
  /\ ~native /\ Running /\ ~failing /\ Len(calls) < MaxDepth
  /\ Len(outer) = Len(params)
  /\ \E args \in ArgumentValues(outer, vars) : Enter(params, outer, args)

(* A wrong number of arguments, or an argument that cannot be evaluated.   *)
CallRejected(params, outer) ==
  /\ ~native /\ Running /\ ~failing
  /\ Len(outer) = Len(params) => ArgumentValues(outer, vars) = {}
  /\ failing' = TRUE
  /\ UNCHANGED <<native, vars, calls>>

(* The macro evaluates the arguments after it removed the parameters; the  *)
(* callback asks for enough arguments and ignores those beyond.            *)
CallNative(params, outer) ==
  /\ native /\ Running /\ ~failing /\ Len(calls) < MaxDepth
  /\ Len(outer) >= Len(params)
  /\ \E args \in ArgumentValues(outer, Removed(params)) : Enter(params, outer, args)

(* `?` leaves the macro, and what it saved is gone.                        *)
CallNativeRejected(params, outer) ==
  /\ native /\ Running /\ ~failing
  /\ Len(outer) >= Len(params) => ArgumentValues(outer, Removed(params)) = {}
  /\ vars' = Removed(params)
  /\ failing' = TRUE
  /\ UNCHANGED <<native, calls>>
-----------------------------------------------------------------------------
(* The body has ended, well or with an error.                              *)

(* In the interpreter the error waits until the copy-back is done; in the  *)
(* macro it leaves at once.                                                *)
EndBody ==
  /\ calls # <<>> /\ Top.next = 0
  /\ calls' = IF (native /\ failing) \/ Top.params = <<>>
              THEN Pop
              ELSE Append(Pop, [Top EXCEPT !.next = 1, !.after = vars])
  /\ UNCHANGED <<native, vars, failing>>

(* One iteration of the copy-back loop: the argument's variable gets the   *)
(* parameter's value, then the parameter's name what it held before.       *)
HeldBy(slot) == IF slot = Absent THEN Null ELSE slot

(* Mutant: the name is restored first.                                     *)
CopiedBackLate(param, outer, saved) ==
  LET table == [vars EXCEPT ![param] = saved]
  IN  IF outer = Literal THEN table ELSE [table EXCEPT ![outer] = HeldBy(table[param])]

CopiedBack(param, outer, saved) ==
  LET table == IF outer = Literal THEN vars ELSE [vars EXCEPT ![outer] = HeldBy(vars[param])]
  IN  [table EXCEPT ![param] = saved]

CopyBack ==
  /\ calls # <<>> /\ Top.next > 0
  /\ vars' = CopiedBack(Top.params[Top.next], Top.outer[Top.next], Top.saved[Top.next])
  /\ calls' = IF Top.next = Len(Top.params)
              THEN Pop
              ELSE Append(Pop, [Top EXCEPT !.next = @ + 1])
  /\ UNCHANGED <<native, failing>>

CallsNext ==
  \/ AssignVariable \/ Raise \/ Catch \/ EndBody \/ CopyBack
  \/ \E params \in Params, outer \in Outers :
       \/ CallInterpreted(params, outer) \/ CallRejected(params, outer)
       \/ CallNative(params, outer) \/ CallNativeRejected(params, outer)

CallsSpec == CallsInit /\ [][CallsNext]_state
-----------------------------------------------------------------------------
(* Properties.                                                             *)

Distinct(s) == \A i, j \in 1 .. Len(s) : i # j => s[i] # s[j]

(* The calls the examples recommend: distinct parameters, none of them     *)
(* named like a variable that is passed.                                   *)
Clean(call) ==
  /\ Distinct(call.params)
  /\ \A i \in 1 .. Len(call.params) : call.outer[i] \notin Named(call.params)

(* The variables after the copy-back of the first k parameters: their      *)
(* names are what they were before the call, a variable that was passed    *)
(* has the final value of the last parameter it was passed for, and the    *)
(* rest is as the body left it.                                            *)
CopiedUpTo(call, k, table) ==
  /\ \A i \in 1 .. k : table[call.params[i]] = call.before[call.params[i]]
  /\ \A i \in 1 .. k :
       call.outer[i] # Literal /\ LastAmong(call.outer, i, k) =>
         table[call.outer[i]] = HeldBy(call.after[call.params[i]])
  /\ \A n \in Names :
       (\A i \in 1 .. k : n # call.params[i] /\ n # call.outer[i]) => table[n] = call.after[n]

Returning == calls # <<>> /\ Top.next > 0 /\ Len(calls') < Len(calls)

(* Arguments are passed by reference, and parameters do not leak, through  *)
(* nested and recursive calls and through bodies that fail                 *)
(* (exec_procedure_call).                                                  *)
CallsByReference == [][Returning /\ Clean(Top) => CopiedUpTo(Top, Len(Top.params), vars')]_state
==============================================================================
