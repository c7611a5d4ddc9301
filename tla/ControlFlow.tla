----------------------------- MODULE ControlFlow -----------------------------
(***************************************************************************)
(* The control statements of the interpreter (Evaluator::run, exec_stmt    *)
(* and execute_block): how completion, errors, `terminate` and the exit    *)
(* request of sys.exit travel through nested blocks, and from one line of  *)
(* the REPL to the next.  The Rust call stack is the stack of frames.      *)
(***************************************************************************)
EXTENDS Statements

CONSTANT MaxLines  \* REPL inputs one evaluator runs; a script is a single one

ASSUME LinesAssumption == MaxLines \in Nat \ {0}

VARIABLES
  stack,                \* the frames, innermost last
  ret,                  \* what the last statement or block returned
  terminate_requested,  \* the evaluator's flag
  line,                 \* which REPL input is running
  event,                \* history: the choice made by the last step
  target                \* history: the frame of the loop `terminate` is for

vars == <<stack, ret, terminate_requested, line, event, target>>

(* A block frame is executing statement pos of code.  A statement frame    *)
(* waits for the block above it: pos is the branch of a try (0: its body)  *)
(* or what is left of a browse, saved the error of a try's body.           *)
Frame == [kind : {"block", "browse", "call", "try", "loop", "dont_panic"},
          code : Seq(Stmt), alts : Seq(Seq(Stmt)), pos : Nat, saved : Result]

Block(code) == [kind |-> "block", code |-> code, alts |-> <<>>, pos |-> 1, saved |-> "ok"]
For(s, n)   == [kind |-> s.op, code |-> s.body, alts |-> s.alts, pos |-> n, saved |-> "ok"]

Top     == stack[Len(stack)]
Pop     == SubSeq(stack, 1, Len(stack) - 1)
Push(f) == Append(stack, f)
Swap(f) == Append(Pop, f)

Loops == {"loop", "browse"}

(* Where the innermost loop or browse is in the stack, if there is one.    *)
InnermostLoop ==
  {i \in 1 .. Len(stack) : /\ stack[i].kind \in Loops
                          /\ \A j \in i + 1 .. Len(stack) : stack[j].kind \notin Loops}

TypeOK ==
  /\ stack \in Seq(Frame)
  /\ ret \in Result \cup {"none"}
  /\ terminate_requested \in BOOLEAN
  /\ line \in 1 .. MaxLines
  /\ target \in SUBSET Nat

Init ==
  /\ \E p \in Programs : stack = <<Block(p)>>
  /\ ret = "none"
  /\ terminate_requested = FALSE
  /\ line = 1
  /\ event = None
  /\ target = {}
-----------------------------------------------------------------------------
(* Starting the next statement of the innermost block.                     *)

Starting == stack # <<>> /\ ret = "none" /\ Top.kind = "block" /\ Top.pos <= Len(Top.code)
Current  == Top.code[Top.pos]

(* A statement without a body: an assignment, a library call, an assertion. *)
Work ==
  /\ Starting /\ Current.op = "work"
  /\ ret' = "ok"
  /\ event' = Chose(Current, "ok")
  /\ UNCHANGED <<stack, terminate_requested, line, target>>

Fail ==
  /\ Starting
  /\ ret' \in Failures(Current)
  /\ event' = Chose(Current, ret')
  /\ UNCHANGED <<stack, terminate_requested, line, target>>

Terminate ==
  /\ Starting /\ Current.op = "terminate"
  /\ terminate_requested' = TRUE
  /\ ret' = "ok"
  /\ target' = InnermostLoop
  /\ event' = None
  /\ UNCHANGED <<stack, line>>

If ==
  /\ Starting /\ Current.op = "if"
  /\ \/ event' = Chose(Current, "then") /\ stack' = Push(Block(Current.body))
     \/ event' = Chose(Current, "else") /\ stack' = Push(Block(Current.alts[1]))
  /\ UNCHANGED <<ret, terminate_requested, line, target>>

Enter ==
  /\ Starting /\ Current.op \in {"try", "dont_panic", "call"}
  /\ stack' = Append(Push(For(Current, 0)), Block(Current.body))
  /\ IF Current.op = "call" THEN event' = Chose(Current, "call") ELSE event' = None
  /\ UNCHANGED <<ret, terminate_requested, line, target>>

(* while !terminate_requested: a pending request skips the loop, and the   *)
(* loop clears it.                                                         *)
EnterLoop ==
  /\ Starting /\ Current.op = "loop"
  /\ IF terminate_requested
     THEN ret' = "ok" /\ UNCHANGED stack
     ELSE stack' = Append(Push(For(Current, 0)), Block(Current.body)) /\ UNCHANGED ret
  /\ terminate_requested' = FALSE
  /\ event' = None
  /\ UNCHANGED <<line, target>>

EnterBrowse ==
  /\ Starting /\ Current.op = "browse"
  /\ \/ /\ event' = Chose(Current, "empty")
        /\ terminate_requested' = FALSE
        /\ ret' = "ok"
        /\ UNCHANGED stack
     \/ /\ \E n \in 1 .. MaxItems :
             /\ stack' = Append(Push(For(Current, n - 1)), Block(Current.body))
             /\ event' = HasItems(Current, n)
        /\ UNCHANGED <<ret, terminate_requested>>
  /\ UNCHANGED <<line, target>>
-----------------------------------------------------------------------------
(* What a block or a statement returned reaches the frame below it.        *)

Returns(r) == stack' = Pop /\ ret' = r
Runs(f, code) == stack' = Append(Swap(f), Block(code)) /\ ret' = "none"
Keeps == event' = None /\ UNCHANGED <<line, target>>

(* The for loop of execute_block, and of run for the outermost block.      *)
EndOfBlock ==
  /\ stack # <<>> /\ ret = "none" /\ Top.kind = "block" /\ Top.pos > Len(Top.code)
  /\ Returns("ok")
  /\ Keeps /\ UNCHANGED terminate_requested

(* Mutant: a block does not look at the request.                           *)
InBlockDeaf ==
  /\ stack # <<>> /\ ret # "none" /\ Top.kind = "block"
  /\ IF ret # "ok"
     THEN Returns(ret)
     ELSE stack' = Swap([Top EXCEPT !.pos = @ + 1]) /\ ret' = "none"
  /\ Keeps /\ UNCHANGED terminate_requested

InBlock ==
  /\ stack # <<>> /\ ret # "none" /\ Top.kind = "block"
  /\ IF ret # "ok" \/ terminate_requested
     THEN Returns(ret)
     ELSE stack' = Swap([Top EXCEPT !.pos = @ + 1]) /\ ret' = "none"
  /\ Keeps /\ UNCHANGED terminate_requested

(* An exit request passes; otherwise the fallbacks are tried in order, and *)
(* if none of them succeeds the try fails with the error of its body.      *)
FirstError == IF Top.pos = 0 THEN ret ELSE Top.saved

(* Mutant: an exit request is an error like any other.                     *)
InTryCatchesExit ==
  /\ stack # <<>> /\ ret # "none" /\ Top.kind = "try"
  /\ \/ ret = "ok" /\ Returns(ret)
     \/ /\ ret # "ok" /\ Top.pos < Len(Top.alts)
        /\ Runs([Top EXCEPT !.pos = @ + 1, !.saved = FirstError], Top.alts[Top.pos + 1])
     \/ /\ ret # "ok" /\ Top.pos >= Len(Top.alts)
        /\ Returns(FirstError)
  /\ Keeps /\ UNCHANGED terminate_requested

InTry ==
  /\ stack # <<>> /\ ret # "none" /\ Top.kind = "try"
  /\ \/ ret \in {"ok", "exit"} /\ Returns(ret)
     \/ /\ ret \in {"runtime", "other"} /\ Top.pos < Len(Top.alts)
        /\ Runs([Top EXCEPT !.pos = @ + 1, !.saved = FirstError], Top.alts[Top.pos + 1])
     \/ /\ ret \in {"runtime", "other"} /\ Top.pos >= Len(Top.alts)
        /\ Returns(FirstError)
  /\ Keeps /\ UNCHANGED terminate_requested

(* Runtime errors of the body start the next iteration.                    *)
InLoop ==
  /\ stack # <<>> /\ ret # "none" /\ Top.kind = "loop"
  /\ \/ /\ ret \in {"exit", "other"}
        /\ Returns(ret) /\ UNCHANGED terminate_requested
     \/ /\ ret \in {"ok", "runtime"} /\ ~terminate_requested
        /\ Runs(Top, Top.code) /\ UNCHANGED terminate_requested
     \/ /\ ret \in {"ok", "runtime"} /\ terminate_requested
        /\ Returns("ok") /\ terminate_requested' = FALSE
  /\ Keeps

(* Mutant: the request is left for the loop around.                        *)
InBrowseForgets ==
  /\ stack # <<>> /\ ret # "none" /\ Top.kind = "browse"
  /\ \/ /\ ret # "ok" \/ terminate_requested \/ Top.pos = 0
        /\ Returns(ret)
     \/ /\ ret = "ok" /\ ~terminate_requested /\ Top.pos > 0
        /\ Runs([Top EXCEPT !.pos = @ - 1], Top.code)
  /\ Keeps /\ UNCHANGED terminate_requested

InBrowse ==
  /\ stack # <<>> /\ ret # "none" /\ Top.kind = "browse"
  /\ \/ /\ ret # "ok"
        /\ Returns(ret) /\ UNCHANGED terminate_requested
     \/ /\ ret = "ok" /\ ~terminate_requested /\ Top.pos > 0
        /\ Runs([Top EXCEPT !.pos = @ - 1], Top.code) /\ UNCHANGED terminate_requested
     \/ /\ ret = "ok" /\ (terminate_requested \/ Top.pos = 0)
        /\ Returns("ok") /\ terminate_requested' = FALSE
  /\ Keeps

InDontPanic ==
  /\ stack # <<>> /\ ret # "none" /\ Top.kind = "dont_panic"
  /\ Returns("ok")
  /\ Keeps /\ UNCHANGED terminate_requested

InCall ==
  /\ stack # <<>> /\ ret # "none" /\ Top.kind = "call"
  /\ Returns(ret)
  /\ Keeps /\ UNCHANGED terminate_requested

(* The REPL runs the next input with the same evaluator.                   *)
NextLine ==
  /\ stack = <<>> /\ line < MaxLines
  /\ \E p \in Programs : stack' = <<Block(p)>>
  /\ ret' = "none"
  /\ line' = line + 1
  /\ event' = None
  /\ UNCHANGED <<terminate_requested, target>>

Done == stack = <<>> /\ line = MaxLines /\ UNCHANGED vars
-----------------------------------------------------------------------------
Step ==
  \/ Work \/ Fail \/ Terminate \/ If \/ Enter \/ EnterLoop \/ EnterBrowse
  \/ EndOfBlock \/ InBlock \/ InTry \/ InLoop \/ InBrowse \/ InDontPanic \/ InCall

Next == Step \/ NextLine \/ Done

Spec == Init /\ [][Next]_vars

-----------------------------------------------------------------------------
(* Properties.                                                             *)

Within(kinds) == \E i \in 1 .. Len(stack) : stack[i].kind \in kinds

(* In a script, as in the first input of a REPL, no statement starts       *)
(* between `terminate` and the end of the loop it is for, through any      *)
(* nesting of if, try, dont_panic and calls, and no error can overtake the *)
(* request (execute_block returns at once).                                *)
TerminateStopsStatements == line = 1 /\ terminate_requested => ret = "ok"

(* The loop or browse that takes the request is the one that was innermost *)
(* when `terminate` ran: neither an inner one that already ended nor an    *)
(* outer one; a request made outside every loop is never taken.            *)
TerminateEndsInnermostLoop ==
  [][line = 1 /\ terminate_requested /\ ~terminate_requested'
       => target = {Len(stack)} /\ stack' = Pop]_vars

(* Once sys.exit was called nothing else runs: no fallback, no further     *)
(* iteration, no statement after it, unless a dont_panic is around it.     *)
ExitUnwinds ==
  [][ret = "exit" /\ stack # <<>> /\ ~Within({"dont_panic"})
       => ret' = "exit" /\ stack' = Pop]_vars

(* A request that nothing took outlives its script: the next input of the  *)
(* REPL starts with it.  However it nests, and whichever input the request *)
(* is from, no block gets past its first statement before a loop or browse *)
(* has taken the request (run and execute_block ask after each statement). *)
PendingStopsBlocks ==
  terminate_requested /\ ret = "none" /\ stack # <<>> /\ Top.kind = "block" => Top.pos = 1
==============================================================================
