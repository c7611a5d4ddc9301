--------------------------- MODULE TranspiledFlow ----------------------------
(***************************************************************************)
(* The control flow of the Rust program that `corvo --transpile` writes    *)
(* (Transpiler::transpile and transpile_stmt, the macros corvo_browse and  *)
(* corvo_method_call): what the generated statements do when they run.     *)
(*                                                                         *)
(* An error leaves the generated function at once (`?` or `return Err`),   *)
(* so it unwinds to the nearest closure (a try body, a fallback, a         *)
(* dont_panic body, a procedure) or to `run`.  `terminate` only sets a     *)
(* variable: the tests of it are those the transpiler writes, after every  *)
(* statement of `run`, of a procedure and of a loop, after each body of a  *)
(* browse, and after each try, fallback and dont_panic.                    *)
(***************************************************************************)
EXTENDS Statements

VARIABLES
  stack,                \* what is running, innermost last
  ret,                  \* "ok": a statement ended; an error: it is unwinding
  terminate_requested,  \* the variable _terminate_requested
  event                 \* history: the choice made by the last step

vars == <<stack, ret, terminate_requested, event>>

(* Frames with statements (pos is the next one): the body of `run`, of a   *)
(* procedure, of a loop, and any other body.  Frames below the body they   *)
(* run: browse (pos entries are left), try (pos fallbacks were tried) and  *)
(* dont_panic.                                                             *)
Bodies == {"run", "call", "loop", "body"}
Frame == [kind : Bodies \cup {"browse", "try", "dont_panic"},
          code : Seq(Stmt), alts : Seq(Seq(Stmt)), pos : Nat]

Body(k, code) == [kind |-> k, code |-> code, alts |-> <<>>, pos |-> 1]
Around(s, n)  == [kind |-> s.op, code |-> s.body, alts |-> s.alts, pos |-> n]

Top     == stack[Len(stack)]
Pop     == SubSeq(stack, 1, Len(stack) - 1)
Push(f) == Append(stack, f)
Swap(f) == Append(Pop, f)

(* The transpiler's closure_depth is positive where frame i was entered.   *)
Closures == {"try", "dont_panic", "call"}
InClosure(i) == \E j \in 1 .. i - 1 : stack[j].kind \in Closures

TypeOK ==
  /\ stack \in Seq(Frame)
  /\ ret \in Result \cup {"none"}
  /\ terminate_requested \in BOOLEAN
  /\ event \in Event

Init ==
  /\ \E p \in Programs : stack = <<Body("run", p)>>
  /\ ret = "none"
  /\ terminate_requested = FALSE
  /\ event = None
-----------------------------------------------------------------------------
Starting == stack # <<>> /\ ret = "none" /\ Top.kind \in Bodies /\ Top.pos <= Len(Top.code)
Current  == Top.code[Top.pos]

Work ==
  /\ Starting /\ Current.op = "work"
  /\ ret' = "ok"
  /\ event' = Chose(Current, "ok")
  /\ UNCHANGED <<stack, terminate_requested>>

Fail ==
  /\ Starting
  /\ ret' \in Failures(Current)
  /\ event' = Chose(Current, ret')
  /\ UNCHANGED <<stack, terminate_requested>>

Terminate ==
  /\ Starting /\ Current.op = "terminate"
  /\ terminate_requested' = TRUE
  /\ ret' = "ok"
  /\ event' = None
  /\ UNCHANGED stack

If ==
  /\ Starting /\ Current.op = "if"
  /\ \/ event' = Chose(Current, "then") /\ stack' = Push(Body("body", Current.body))
     \/ event' = Chose(Current, "else") /\ stack' = Push(Body("body", Current.alts[1]))
  /\ UNCHANGED <<ret, terminate_requested>>

EnterClosure ==
  /\ Starting /\ Current.op \in {"try", "dont_panic"}
  /\ stack' = Append(Push(Around(Current, 0)), Body("body", Current.body))
  /\ event' = None
  /\ UNCHANGED <<ret, terminate_requested>>

Call ==
  /\ Starting /\ Current.op = "call"
  /\ stack' = Push(Body("call", Current.body))
  /\ event' = Chose(Current, "call")
  /\ UNCHANGED <<ret, terminate_requested>>

(* The first statement of the generated loop tests the variable.           *)
EnterLoop ==
  /\ Starting /\ Current.op = "loop"
  /\ IF terminate_requested
     THEN ret' = "ok" /\ UNCHANGED stack
     ELSE stack' = Push(Body("loop", Current.body)) /\ UNCHANGED ret
  /\ terminate_requested' = FALSE
  /\ event' = None

EnterBrowse ==
  /\ Starting /\ Current.op = "browse"
  /\ \/ /\ event' = Chose(Current, "empty")
        /\ terminate_requested' = FALSE
        /\ ret' = "ok"
        /\ UNCHANGED stack
     \/ /\ \E n \in 1 .. MaxItems :
             /\ stack' = Append(Push(Around(Current, n - 1)), Body("body", Current.body))
             /\ event' = HasItems(Current, n)
        /\ UNCHANGED <<ret, terminate_requested>>
-----------------------------------------------------------------------------
Returns(r) == stack' = Pop /\ ret' = r
Runs(f, code) == stack' = Append(Swap(f), Body("body", code)) /\ ret' = "none"

(* The test after a statement of run, of a procedure (both return Ok and   *)
(* reset the variable) or of a loop (which breaks, and resets it).         *)
(* Mutant: the transpiler writes no test after the statements of a loop.   *)
AfterStatementDeaf ==
  /\ stack # <<>> /\ ret = "ok" /\ Top.kind \in Bodies
  /\ IF Top.kind \in {"run", "call"} /\ terminate_requested
     THEN /\ Returns("ok")
          /\ terminate_requested' = FALSE
     ELSE /\ stack' = Swap([Top EXCEPT !.pos = @ + 1]) /\ ret' = "none"
          /\ UNCHANGED terminate_requested
  /\ event' = None

AfterStatement ==
  /\ stack # <<>> /\ ret = "ok" /\ Top.kind \in Bodies
  /\ IF Top.kind # "body" /\ terminate_requested
     THEN /\ Returns("ok")
          /\ terminate_requested' = FALSE
     ELSE /\ stack' = Swap([Top EXCEPT !.pos = @ + 1]) /\ ret' = "none"
          /\ UNCHANGED terminate_requested
  /\ event' = None

(* A loop starts over; everything else ends here.                          *)
EndOfBody ==
  /\ stack # <<>> /\ ret = "none" /\ Top.kind \in Bodies /\ Top.pos > Len(Top.code)
  /\ IF Top.kind = "loop"
     THEN stack' = Swap([Top EXCEPT !.pos = 1]) /\ UNCHANGED ret
     ELSE Returns("ok")
  /\ event' = None
  /\ UNCHANGED terminate_requested

(* `?` leaves every body, loop and browse up to the closure around them.   *)
(* Mutant: an error that leaves run is forgotten.                          *)
UnwindForgets ==
  /\ stack # <<>> /\ ret \in Error /\ Top.kind \notin {"try", "dont_panic"}
  /\ Returns(IF Len(stack) = 1 THEN "ok" ELSE ret)
  /\ event' = None
  /\ UNCHANGED terminate_requested

Unwind ==
  /\ stack # <<>> /\ ret \in Error /\ Top.kind \notin {"try", "dont_panic"}
  /\ Returns(ret)
  /\ event' = None
  /\ UNCHANGED terminate_requested

AfterBrowseBody ==
  /\ stack # <<>> /\ ret = "ok" /\ Top.kind = "browse"
  /\ IF terminate_requested \/ Top.pos = 0
     THEN Returns("ok") /\ terminate_requested' = FALSE
     ELSE Runs([Top EXCEPT !.pos = @ - 1], Top.code) /\ UNCHANGED terminate_requested
  /\ event' = None

(* The test after a closure: the function it is in returns, with an error  *)
(* from a closure or a procedure, and without one from `run`.              *)
LeaveFunction ==
  IF InClosure(Len(stack))
  THEN Returns("runtime") /\ UNCHANGED terminate_requested
  ELSE stack' = <<>> /\ ret' = "ok" /\ terminate_requested' = FALSE

(* After the body or a fallback of a try: an exit request returns from the *)
(* function around the try, `terminate` leaves it too, and a further       *)
(* fallback, if there is one, replaces an error.                           *)
AfterTryClosure ==
  /\ stack # <<>> /\ ret # "none" /\ Top.kind = "try"
  /\ \/ /\ ret = "exit"
        /\ Returns("exit") /\ UNCHANGED terminate_requested
     \/ /\ ret # "exit" /\ terminate_requested
        /\ LeaveFunction
     \/ /\ ret \in {"runtime", "other"} /\ ~terminate_requested /\ Top.pos < Len(Top.alts)
        /\ Runs([Top EXCEPT !.pos = @ + 1], Top.alts[Top.pos + 1])
        /\ UNCHANGED terminate_requested
     \/ /\ ~terminate_requested
        /\ ret = "ok" \/ (ret \in {"runtime", "other"} /\ Top.pos >= Len(Top.alts))
        /\ Returns(ret) /\ UNCHANGED terminate_requested
  /\ event' = None

AfterDontPanic ==
  /\ stack # <<>> /\ ret # "none" /\ Top.kind = "dont_panic"
  /\ IF terminate_requested
     THEN LeaveFunction
     ELSE Returns("ok") /\ UNCHANGED terminate_requested
  /\ event' = None

Done == stack = <<>> /\ UNCHANGED vars

Next ==
  \/ Work \/ Fail \/ Terminate \/ If \/ EnterClosure \/ Call \/ EnterLoop \/ EnterBrowse
  \/ AfterStatement \/ EndOfBody \/ Unwind \/ AfterBrowseBody \/ AfterTryClosure \/ AfterDontPanic
  \/ Done

Spec == Init /\ [][Next]_vars
==============================================================================
