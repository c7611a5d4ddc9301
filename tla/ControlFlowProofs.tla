-------------------------- MODULE ControlFlowProofs --------------------------
(***************************************************************************)
(* Proofs about the control flow of scripts, for every set of statements   *)
(* and programs: first the interpreter (ControlFlow), then the Rust        *)
(* program generated from a script next to it (Transpilation).             *)
(*                                                                         *)
(* The interpreter's invariant IInv strengthens TypeOK with two facts: the *)
(* position of a block is past its first statement or on it, so that       *)
(* Current is one; and in a script a pending request is pending only while *)
(* a statement returns "ok", and its target still is the innermost loop,   *)
(* since frames of loops are neither pushed nor popped under a pending     *)
(* request except by the loop that takes it.                               *)
(*                                                                         *)
(* That the two machines agree is a simulation.  The interpreter is done   *)
(* before the generated program starts, so the invariant Replays carries   *)
(* its whole execution along, as a function, and says that the program     *)
(* stands at one of its states (Sim: the same frames in the same places).  *)
(* StepFollows is the heart of it: a step of the program is none, one or   *)
(* two of the interpreter.                                                 *)
(***************************************************************************)
EXTENDS ControlFlow, Transpilation, SequenceTheorems, TLAPS

Positioned(f) == f.kind = "block" => f.pos >= 1

(* A frame that execution produces.                                        *)
GoodFrame(f) == f \in Frame /\ Positioned(f)

BlocksPositioned == \A i \in 1 .. Len(stack) : Positioned(stack[i])

RequestTargets ==
  line = 1 /\ terminate_requested => ret = "ok" /\ target = InnermostLoop

IInv == TypeOK /\ BlocksPositioned /\ RequestTargets

LEMMA PopIs ==
  ASSUME TypeOK, stack # <<>>
  PROVE  /\ Len(stack) \in Nat /\ Len(stack) >= 1 /\ stack \in Seq(Frame)
         /\ Pop \in Seq(Frame) /\ Len(Pop) = Len(stack) - 1
         /\ \A i \in 1 .. Len(stack) - 1 : Pop[i] = stack[i]
<1>1. stack \in Seq(Frame) /\ Len(stack) \in Nat /\ Len(stack) >= 1
  BY DEF TypeOK
<1>2. \A i \in 1 .. Len(stack) - 1 : stack[i] \in Frame
  BY <1>1
<1>3. /\ Pop \in Seq(Frame)
      /\ Len(Pop) = IF 1 <= Len(stack) - 1 THEN Len(stack) - 1 - 1 + 1 ELSE 0
      /\ \A i \in 1 .. Len(stack) - 1 - 1 + 1 : Pop[i] = stack[1 + i - 1]
  <2> DEFINE n == Len(stack) - 1
  <2>1. n \in Int /\ \A i \in 1 .. n : stack[i] \in Frame
    BY <1>1, <1>2
  <2> HIDE DEF n
  <2>2. /\ SubSeq(stack, 1, n) \in Seq(Frame)
        /\ Len(SubSeq(stack, 1, n)) = IF 1 <= n THEN n - 1 + 1 ELSE 0
        /\ \A i \in 1 .. n - 1 + 1 : SubSeq(stack, 1, n)[i] = stack[1 + i - 1]
    BY <2>1, SubSeqProperties
  <2> QED BY <2>2 DEF n, Pop
<1>4. Len(Pop) = Len(stack) - 1
  <2> DEFINE n == Len(stack)
  <2>1. n \in Nat /\ n >= 1 /\ Len(Pop) = IF 1 <= n - 1 THEN n - 1 - 1 + 1 ELSE 0
    BY <1>1, <1>3
  <2> HIDE DEF n
  <2>2. Len(Pop) = n - 1
    BY <2>1
  <2> QED BY <2>2 DEF n
<1>5. ASSUME NEW i \in 1 .. Len(stack) - 1 PROVE Pop[i] = stack[i]
  <2>1. 1 + i - 1 = i /\ i \in 1 .. Len(stack) - 1 - 1 + 1
    BY <1>1
  <2> QED BY <1>3, <2>1
<1> QED BY <1>1, <1>3, <1>4, <1>5

(* The frames that statements and blocks push are well formed.             *)
LEMMA BlockGood == ASSUME NEW code \in Seq(Stmt) PROVE GoodFrame(Block(code))
BY DEF GoodFrame, Frame, Positioned, Block, Result

LEMMA ForGood ==
  ASSUME NEW s \in Stmt, s.op \in {"browse", "call", "try", "loop", "dont_panic"}, NEW n \in Nat
  PROVE  GoodFrame(For(s, n))
BY StmtAssumption DEF GoodFrame, Frame, Positioned, For, Result

LEMMA MovedGood ==
  ASSUME NEW f \in Frame, NEW p \in Nat, NEW e \in Result, f.kind = "block" => p >= 1
  PROVE  GoodFrame([f EXCEPT !.pos = p]) /\ GoodFrame([f EXCEPT !.pos = p, !.saved = e])
<1>1. [f EXCEPT !.pos = p] \in Frame
  BY DEF Frame
<1>2. [f EXCEPT !.pos = p, !.saved = e] \in Frame
  BY DEF Frame
<1>3. /\ [f EXCEPT !.pos = p].kind = f.kind /\ [f EXCEPT !.pos = p].pos = p
      /\ [f EXCEPT !.pos = p, !.saved = e].kind = f.kind
      /\ [f EXCEPT !.pos = p, !.saved = e].pos = p
  BY DEF Frame
<1> QED BY <1>1, <1>2, <1>3 DEF GoodFrame, Positioned

(* Pushing, replacing and popping good frames keeps the stack good.        *)
LEMMA PushGood ==
  ASSUME TypeOK, BlocksPositioned, NEW f, GoodFrame(f), stack' = Push(f)
  PROVE  stack' \in Seq(Frame) /\ BlocksPositioned'
<1>1. stack' \in Seq(Frame)
  BY DEF TypeOK, Push, GoodFrame
<1>2. ASSUME NEW i \in 1 .. Len(stack') PROVE Positioned(stack'[i])
  <2>1. CASE i = Len(stack') BY <2>1 DEF TypeOK, Push, GoodFrame
  <2>2. CASE i # Len(stack')
    <3>1. i \in 1 .. Len(stack) /\ stack'[i] = stack[i]
      BY <1>2, <2>2 DEF TypeOK, Push
    <3> QED BY <3>1 DEF BlocksPositioned
  <2> QED BY <2>1, <2>2
<1> QED BY <1>1, <1>2 DEF BlocksPositioned

LEMMA PopGood ==
  ASSUME TypeOK, BlocksPositioned, stack # <<>>, stack' = Pop
  PROVE  stack' \in Seq(Frame) /\ BlocksPositioned'
<1> QED BY PopIs DEF BlocksPositioned

LEMMA SwapGood ==
  ASSUME TypeOK, BlocksPositioned, stack # <<>>, NEW f, GoodFrame(f), stack' = Swap(f)
  PROVE  stack' \in Seq(Frame) /\ BlocksPositioned'
<1>3. /\ stack' \in Seq(Frame) /\ Len(stack') = Len(stack)
      /\ stack'[Len(stack)] = f
      /\ \A i \in 1 .. Len(stack) - 1 : stack'[i] = stack[i]
  BY PopIs DEF Swap, GoodFrame
<1> QED BY PopIs, <1>3 DEF BlocksPositioned, GoodFrame

(* A frame and the block it runs.                                          *)
LEMMA PushBodyGood ==
  ASSUME TypeOK, BlocksPositioned, NEW f, GoodFrame(f), NEW code \in Seq(Stmt),
         stack' = Append(Push(f), Block(code))
  PROVE  stack' \in Seq(Frame) /\ BlocksPositioned'
<1> DEFINE b == Block(code)
<1>0. GoodFrame(b)
  BY BlockGood
<1> HIDE DEF b
<1>1. /\ stack' \in Seq(Frame) /\ Len(stack') = Len(stack) + 2
      /\ stack'[Len(stack) + 1] = f /\ stack'[Len(stack) + 2] = b
      /\ \A i \in 1 .. Len(stack) : stack'[i] = stack[i]
  BY <1>0 DEF TypeOK, Push, GoodFrame, b
<1>2. Len(stack) \in Nat
  BY DEF TypeOK
<1>3. \A i \in 1 .. Len(stack') : GoodFrame(stack'[i])
  <2> TAKE i \in 1 .. Len(stack')
  <2>1. CASE i \in 1 .. Len(stack)
    BY <1>1, <2>1 DEF TypeOK, BlocksPositioned, GoodFrame
  <2>2. CASE i \notin 1 .. Len(stack)
    <3>1. i = Len(stack) + 1 \/ i = Len(stack) + 2
      BY <1>1, <1>2, <2>2
    <3> QED BY <1>0, <1>1, <3>1
  <2> QED BY <2>1, <2>2
<1> QED BY <1>1, <1>3 DEF BlocksPositioned, GoodFrame

LEMMA RunsGood ==
  ASSUME TypeOK, BlocksPositioned, stack # <<>>, NEW f, GoodFrame(f), NEW code \in Seq(Stmt),
         stack' = Append(Swap(f), Block(code))
  PROVE  stack' \in Seq(Frame) /\ BlocksPositioned'
<1> DEFINE b == Block(code)
<1>0. GoodFrame(b)
  BY BlockGood
<1> HIDE DEF b
<1>2. /\ Swap(f) \in Seq(Frame) /\ Len(Swap(f)) = Len(stack)
      /\ Swap(f)[Len(stack)] = f
      /\ \A i \in 1 .. Len(stack) - 1 : Swap(f)[i] = stack[i]
  BY PopIs DEF Swap, GoodFrame
<1>3. /\ stack' \in Seq(Frame) /\ Len(stack') = Len(stack) + 1
      /\ stack'[Len(stack)] = f /\ stack'[Len(stack) + 1] = b
      /\ \A i \in 1 .. Len(stack) - 1 : stack'[i] = stack[i]
  BY <1>0, <1>2, PopIs DEF GoodFrame, b
<1>4. ASSUME NEW i \in 1 .. Len(stack') PROVE Positioned(stack'[i])
  <2>1. i \in 1 .. Len(stack) - 1 \/ i = Len(stack) \/ i = Len(stack) + 1
    BY PopIs, <1>3
  <2>2. i \in 1 .. Len(stack) - 1 => Positioned(stack'[i])
    BY PopIs, <1>3 DEF BlocksPositioned
  <2> QED BY <2>1, <2>2, <1>0, <1>3 DEF GoodFrame
<1> QED BY <1>3, <1>4 DEF BlocksPositioned

(* The statement about to start is one.                                    *)
LEMMA CurrentIsStmt == ASSUME IInv, Starting PROVE Current \in Stmt
<1>1. Len(stack) \in 1 .. Len(stack) /\ Top \in Frame
  BY DEF IInv, TypeOK, Starting, Top
<1>2. Top.pos >= 1
  BY <1>1 DEF IInv, BlocksPositioned, Positioned, Top, Starting
<1> QED BY <1>1, <1>2 DEF Starting, Current, Frame

(* A loop frame is the innermost loop when it is on top, and other frames  *)
(* are of no concern to the innermost loop.                                *)
LEMMA LoopOnTop ==
  ASSUME TypeOK, stack # <<>>, Top.kind \in Loops
  PROVE  InnermostLoop = {Len(stack)}
BY DEF TypeOK, Top, InnermostLoop

LEMMA PopKeepsLoop ==
  ASSUME TypeOK, stack # <<>>, Top.kind \notin Loops, stack' = Pop
  PROVE  InnermostLoop' = InnermostLoop
<1> DEFINE n == Len(stack)
<1>1. /\ n \in Nat /\ n >= 1 /\ Len(stack') = n - 1 /\ stack[n].kind \notin Loops
      /\ \A i \in 1 .. n - 1 : stack'[i] = stack[i]
  BY PopIs DEF Top
<1>2. /\ InnermostLoop = {i \in 1 .. n : /\ stack[i].kind \in Loops
                                      /\ \A j \in i + 1 .. n : stack[j].kind \notin Loops}
      /\ InnermostLoop' = {i \in 1 .. Len(stack') :
                             /\ stack'[i].kind \in Loops
                             /\ \A j \in i + 1 .. Len(stack') : stack'[j].kind \notin Loops}
  BY DEF InnermostLoop
<1> HIDE DEF n
<1>3. ASSUME NEW i PROVE i \in InnermostLoop <=> i \in InnermostLoop'
  BY <1>1, <1>2
<1> QED BY <1>3

LEMMA TopIsFrame == ASSUME IInv, stack # <<>> PROVE Top \in Frame /\ Len(stack) \in Nat \ {0}
BY DEF IInv, TypeOK, Top

THEOREM InitIInv == Init => IInv
<1> SUFFICES ASSUME Init PROVE IInv
  OBVIOUS
<1>1. PICK p \in Programs : stack = <<Block(p)>>
  BY DEF Init
<1>2. GoodFrame(Block(p))
  BY BlockGood, ProgramAssumption
<1>3. stack \in Seq(Frame) /\ BlocksPositioned
  BY <1>1, <1>2 DEF GoodFrame, BlocksPositioned
<1>4. ret \in Result \cup {"none"} /\ terminate_requested \in BOOLEAN /\ target \in SUBSET Nat
  BY DEF Init
<1>5. line \in 1 .. MaxLines
  BY LinesAssumption DEF Init
<1>6. TypeOK
  BY <1>3, <1>4, <1>5 DEF TypeOK
<1> QED BY <1>3, <1>6 DEF Init, IInv, RequestTargets

(* While a statement is starting no request of a script is pending.        *)
LEMMA NoneIsQuiet == ASSUME IInv, ret = "none", line = 1 PROVE ~terminate_requested
BY DEF IInv, RequestTargets

LEMMA StepIInv == ASSUME IInv, Step PROVE IInv'
<1> USE DEF IInv
<1>1. TypeOK /\ BlocksPositioned /\ stack \in Seq(Frame)
  BY DEF TypeOK
<1>s. stack # <<>>
  BY DEF Step, Work, Fail, Terminate, If, Enter, EnterLoop, EnterBrowse, Starting, EndOfBlock,
         InBlock, InTry, InLoop, InBrowse, InDontPanic, InCall
<1>t. Top \in Frame /\ Len(stack) \in Nat \ {0} /\ Positioned(Top)
  BY <1>s, TopIsFrame DEF BlocksPositioned, Top
<1>2. CASE Work
  BY <1>1, <1>2, NoneIsQuiet DEF Work, Starting, TypeOK, BlocksPositioned, RequestTargets, Result
<1>3. CASE Fail
  <2>1. Failures(Current) \subseteq Error
    BY DEF Failures, Error
  <2> QED BY <1>1, <1>3, <2>1, NoneIsQuiet
          DEF Fail, Starting, TypeOK, BlocksPositioned, RequestTargets, Result
<1>4. CASE Terminate
  <2>1. InnermostLoop' = InnermostLoop /\ InnermostLoop \in SUBSET Nat
    BY <1>1, <1>4 DEF Terminate, InnermostLoop, TypeOK
  <2> QED BY <1>1, <1>4, <2>1
          DEF Terminate, TypeOK, BlocksPositioned, RequestTargets, Result
<1>5. CASE If
  <2>1. PICK code \in Seq(Stmt) : stack' = Push(Block(code))
    BY <1>5, CurrentIsStmt, StmtAssumption DEF If, Starting
  <2>2. stack' \in Seq(Frame) /\ BlocksPositioned'
    BY <1>1, <2>1, BlockGood, PushGood
  <2> QED BY <1>1, <1>5, <2>2, NoneIsQuiet DEF If, Starting, TypeOK, RequestTargets
<1>6. CASE Enter
  <2>1. stack' \in Seq(Frame) /\ BlocksPositioned'
    <3>1. Current \in Stmt /\ Current.body \in Seq(Stmt)
      BY <1>6, CurrentIsStmt, StmtAssumption DEF Enter
    <3>2. GoodFrame(For(Current, 0))
      BY <1>6, <3>1, ForGood DEF Enter
    <3> QED BY <1>1, <1>6, <3>1, <3>2, PushBodyGood DEF Enter
  <2> QED BY <1>1, <1>6, <2>1, NoneIsQuiet DEF Enter, Starting, TypeOK, RequestTargets
<1>7. CASE EnterLoop
  <2>1. stack' \in Seq(Frame) /\ BlocksPositioned'
    <3>1. Current \in Stmt /\ Current.body \in Seq(Stmt)
      BY <1>7, CurrentIsStmt, StmtAssumption DEF EnterLoop
    <3>2. GoodFrame(For(Current, 0))
      BY <1>7, <3>1, ForGood DEF EnterLoop
    <3>3. CASE terminate_requested
      BY <1>1, <1>7, <3>3 DEF EnterLoop, BlocksPositioned
    <3>4. CASE ~terminate_requested
      BY <1>1, <1>7, <3>1, <3>2, <3>4, PushBodyGood DEF EnterLoop
    <3> QED BY <3>3, <3>4
  <2>2. ret' \in Result \cup {"none"} /\ terminate_requested' = FALSE /\ UNCHANGED <<line, target>>
    BY <1>1, <1>7 DEF EnterLoop, TypeOK, Result
  <2> QED BY <1>1, <2>1, <2>2 DEF TypeOK, RequestTargets
<1>8. CASE EnterBrowse
  <2>1. stack' \in Seq(Frame) /\ BlocksPositioned'
    <3>1. Current \in Stmt /\ Current.body \in Seq(Stmt)
      BY <1>8, CurrentIsStmt, StmtAssumption DEF EnterBrowse
    <3>2. ASSUME NEW n \in 1 .. MaxItems PROVE GoodFrame(For(Current, n - 1))
      <4>1. n - 1 \in Nat
        BY BoundAssumption
      <4> QED BY <1>8, <3>1, <4>1, ForGood DEF EnterBrowse
    <3>3. UNCHANGED stack
            \/ \E n \in 1 .. MaxItems :
                 stack' = Append(Push(For(Current, n - 1)), Block(Current.body))
      BY <1>8 DEF EnterBrowse
    <3>4. ASSUME NEW n \in 1 .. MaxItems,
                 stack' = Append(Push(For(Current, n - 1)), Block(Current.body))
          PROVE  stack' \in Seq(Frame) /\ BlocksPositioned'
      BY <1>1, <3>1, <3>2, <3>4, PushBodyGood
    <3>5. UNCHANGED stack => stack' \in Seq(Frame) /\ BlocksPositioned'
      BY <1>1 DEF BlocksPositioned
    <3> QED BY <3>3, <3>4, <3>5
  <2>2. /\ ret' \in {ret, "ok"} /\ terminate_requested' \in {terminate_requested, FALSE}
        /\ ret = "none" /\ UNCHANGED <<line, target>>
    BY <1>8 DEF EnterBrowse, Starting
  <2>3. line = 1 => ~terminate_requested'
    BY <2>2, NoneIsQuiet
  <2> QED BY <1>1, <2>1, <2>2, <2>3 DEF TypeOK, RequestTargets, Result
<1>9. CASE EndOfBlock
  <2>1. stack' \in Seq(Frame) /\ BlocksPositioned'
    BY <1>1, <1>9, PopGood DEF EndOfBlock, Returns
  <2> QED BY <1>1, <1>9, <2>1, NoneIsQuiet
          DEF EndOfBlock, Returns, Keeps, TypeOK, RequestTargets, Result
<1>10. CASE InBlock
  <2>1. CASE ret # "ok" \/ terminate_requested
    <3>1. stack' = Pop /\ ret' = ret /\ UNCHANGED <<terminate_requested, line, target>>
      BY <1>10, <2>1 DEF InBlock, Returns, Keeps
    <3>2. stack' \in Seq(Frame) /\ BlocksPositioned'
      BY <1>1, <1>s, <3>1, PopGood
    <3>3. InnermostLoop' = InnermostLoop
      BY <1>1, <1>s, <1>10, <3>1, PopKeepsLoop DEF InBlock, Loops
    <3> QED BY <1>1, <3>1, <3>2, <3>3 DEF TypeOK, RequestTargets
  <2>2. CASE ~(ret # "ok" \/ terminate_requested)
    <3> DEFINE f == [Top EXCEPT !.pos = @ + 1]
    <3>1. stack' = Swap(f) /\ ret' = "none" /\ UNCHANGED <<terminate_requested, line, target>>
      BY <1>10, <2>2 DEF InBlock, Keeps
    <3>2. GoodFrame(f)
      <4>1. Top.pos + 1 \in Nat /\ (Top.kind = "block" => Top.pos + 1 >= 1) /\ Top.saved \in Result
        BY <1>t DEF Frame
      <4> QED BY <1>t, <4>1, MovedGood
    <3>3. stack' \in Seq(Frame) /\ BlocksPositioned'
      BY <1>1, <1>s, <3>1, <3>2, SwapGood
    <3> QED BY <1>1, <2>2, <3>1, <3>3 DEF TypeOK, RequestTargets
  <2> QED BY <2>1, <2>2
<1>11. CASE InTry
  <2>0. ret \in Result /\ FirstError \in Result
    BY <1>t, <1>1, <1>11 DEF InTry, TypeOK, FirstError, Frame
  <2>1. CASE ret \in {"ok", "exit"} /\ Returns(ret)
    <3>1. stack' \in Seq(Frame) /\ BlocksPositioned'
      BY <1>1, <1>s, <2>1, PopGood DEF Returns
    <3>2. InnermostLoop' = InnermostLoop
      BY <1>1, <1>s, <1>11, <2>1, PopKeepsLoop DEF InTry, Loops, Returns
    <3> QED BY <1>1, <1>11, <2>1, <3>1, <3>2 DEF InTry, Keeps, Returns, TypeOK, RequestTargets
  <2>2. CASE /\ ret \in {"runtime", "other"} /\ Top.pos < Len(Top.alts)
             /\ Runs([Top EXCEPT !.pos = @ + 1, !.saved = FirstError], Top.alts[Top.pos + 1])
    <3> DEFINE f == [Top EXCEPT !.pos = @ + 1, !.saved = FirstError]
               code == Top.alts[Top.pos + 1]
    <3>1. GoodFrame(f)
      <4>1. Top.pos + 1 \in Nat /\ (Top.kind = "block" => Top.pos + 1 >= 1)
        BY <1>t DEF Frame
      <4> QED BY <1>t, <2>0, <4>1, MovedGood
    <3>2. code \in Seq(Stmt)
      BY <1>t, <2>2 DEF Frame
    <3>3. stack' = Append(Swap(f), Block(code)) /\ ret' = "none"
      BY <2>2 DEF Runs
    <3> HIDE DEF f, code
    <3>4. stack' \in Seq(Frame) /\ BlocksPositioned'
      BY <1>1, <1>s, <3>1, <3>2, <3>3, RunsGood
    <3> QED BY <1>1, <1>11, <2>2, <3>3, <3>4 DEF InTry, Keeps, TypeOK, RequestTargets
  <2>3. CASE /\ ret \in {"runtime", "other"} /\ Top.pos >= Len(Top.alts)
             /\ Returns(FirstError)
    <3>1. stack' \in Seq(Frame) /\ BlocksPositioned'
      BY <1>1, <1>s, <2>3, PopGood DEF Returns
    <3> QED BY <1>1, <1>11, <2>0, <2>3, <3>1 DEF InTry, Keeps, Returns, TypeOK, RequestTargets
  <2> QED BY <1>11, <2>1, <2>2, <2>3 DEF InTry
<1>12. CASE InLoop
  <2>1. CASE ret \in {"exit", "other"} /\ Returns(ret) /\ UNCHANGED terminate_requested
    <3>1. stack' \in Seq(Frame) /\ BlocksPositioned'
      BY <1>1, <1>s, <2>1, PopGood DEF Returns
    <3> QED BY <1>1, <1>12, <2>1, <3>1 DEF InLoop, Keeps, Returns, TypeOK, RequestTargets
  <2>2. CASE /\ ret \in {"ok", "runtime"} /\ ~terminate_requested
             /\ Runs(Top, Top.code) /\ UNCHANGED terminate_requested
    <3>1. stack' \in Seq(Frame) /\ BlocksPositioned'
      BY <1>1, <1>s, <1>t, <2>2, RunsGood DEF Runs, GoodFrame, Frame
    <3> QED BY <1>1, <1>12, <2>2, <3>1 DEF InLoop, Keeps, Runs, TypeOK, RequestTargets
  <2>3. CASE /\ ret \in {"ok", "runtime"} /\ terminate_requested
             /\ Returns("ok") /\ terminate_requested' = FALSE
    <3>1. stack' \in Seq(Frame) /\ BlocksPositioned'
      BY <1>1, <1>s, <2>3, PopGood DEF Returns
    <3> QED BY <1>1, <1>12, <2>3, <3>1 DEF InLoop, Keeps, Returns, TypeOK, RequestTargets, Result
  <2> QED BY <1>12, <2>1, <2>2, <2>3 DEF InLoop
<1>13. CASE InBrowse
  <2>1. CASE ret # "ok" /\ Returns(ret) /\ UNCHANGED terminate_requested
    <3>1. stack' \in Seq(Frame) /\ BlocksPositioned'
      BY <1>1, <1>s, <2>1, PopGood DEF Returns
    <3> QED BY <1>1, <1>13, <2>1, <3>1 DEF InBrowse, Keeps, Returns, TypeOK, RequestTargets
  <2>2. CASE /\ ret = "ok" /\ ~terminate_requested /\ Top.pos > 0
             /\ Runs([Top EXCEPT !.pos = @ - 1], Top.code) /\ UNCHANGED terminate_requested
    <3> DEFINE f == [Top EXCEPT !.pos = @ - 1]
    <3>1. GoodFrame(f) /\ Top.code \in Seq(Stmt)
      <4>1. /\ Top.pos - 1 \in Nat /\ Top.kind # "block" /\ Top.saved \in Result
            /\ Top.code \in Seq(Stmt)
        BY <1>t, <1>13, <2>2 DEF Frame, InBrowse
      <4> QED BY <1>t, <4>1, MovedGood
    <3>2. stack' = Append(Swap(f), Block(Top.code)) /\ ret' = "none"
      BY <2>2 DEF Runs
    <3> HIDE DEF f
    <3>3. stack' \in Seq(Frame) /\ BlocksPositioned'
      BY <1>1, <1>s, <3>1, <3>2, RunsGood
    <3> QED BY <1>1, <1>13, <2>2, <3>2, <3>3 DEF InBrowse, Keeps, TypeOK, RequestTargets
  <2>3. CASE /\ ret = "ok" /\ (terminate_requested \/ Top.pos = 0)
             /\ Returns("ok") /\ terminate_requested' = FALSE
    <3>1. stack' \in Seq(Frame) /\ BlocksPositioned'
      BY <1>1, <1>s, <2>3, PopGood DEF Returns
    <3> QED BY <1>1, <1>13, <2>3, <3>1 DEF InBrowse, Keeps, Returns, TypeOK, RequestTargets, Result
  <2> QED BY <1>13, <2>1, <2>2, <2>3 DEF InBrowse
<1>14. CASE InDontPanic
  <2>1. stack' \in Seq(Frame) /\ BlocksPositioned' /\ InnermostLoop' = InnermostLoop
    BY <1>1, <1>s, <1>14, PopGood, PopKeepsLoop DEF InDontPanic, Returns, Loops
  <2> QED BY <1>1, <1>14, <2>1 DEF InDontPanic, Keeps, Returns, TypeOK, RequestTargets, Result
<1>15. CASE InCall
  <2>1. stack' \in Seq(Frame) /\ BlocksPositioned' /\ InnermostLoop' = InnermostLoop
    BY <1>1, <1>s, <1>15, PopGood, PopKeepsLoop DEF InCall, Returns, Loops
  <2> QED BY <1>1, <1>15, <2>1 DEF InCall, Keeps, Returns, TypeOK, RequestTargets
<1> QED BY <1>2, <1>3, <1>4, <1>5, <1>6, <1>7, <1>8, <1>9, <1>10, <1>11, <1>12, <1>13,
           <1>14, <1>15 DEF Step

LEMMA NextIInv == ASSUME IInv, [Next]_vars PROVE IInv'
<1>1. CASE Step
  BY <1>1, StepIInv
<1>2. CASE NextLine
  <2>1. PICK p \in Programs : stack' = <<Block(p)>>
    BY <1>2 DEF NextLine
  <2>2. GoodFrame(Block(p))
    BY BlockGood, ProgramAssumption
  <2>3. stack' \in Seq(Frame) /\ BlocksPositioned'
    BY <2>1, <2>2 DEF GoodFrame, BlocksPositioned
  <2>4. line' \in 1 .. MaxLines /\ line' # 1
    BY <1>2, LinesAssumption DEF NextLine, IInv, TypeOK
  <2> QED BY <1>2, <2>3, <2>4 DEF NextLine, IInv, TypeOK, RequestTargets
<1>3. CASE Done \/ UNCHANGED vars
  <2>1. UNCHANGED vars
    BY <1>3 DEF Done
  <2> QED BY <2>1 DEF vars, IInv, TypeOK, BlocksPositioned, RequestTargets, InnermostLoop
<1> QED BY <1>1, <1>2, <1>3 DEF Next

THEOREM Invariance == Spec => []IInv
BY InitIInv, NextIInv, PTL DEF Spec

(* The machine's variables keep their types: in particular a browse never  *)
(* goes past its last entry and a block never past its end, for programs   *)
(* of every shape and depth (exec_stmt, execute_block).                    *)
THEOREM TypeCorrect == Spec => []TypeOK
<1>1. IInv => TypeOK
  BY DEF IInv
<1> QED BY <1>1, Invariance, PTL

(* Between `terminate` and the end of its loop no statement of a script    *)
(* starts and nothing fails, whatever the nesting (execute_block's return  *)
(* after each statement).                                                  *)
THEOREM TerminateStops == Spec => []TerminateStopsStatements
<1>1. IInv => TerminateStopsStatements
  BY DEF IInv, RequestTargets, TerminateStopsStatements
<1> QED BY <1>1, Invariance, PTL

(* The request is taken by the loop or browse that was innermost when it   *)
(* was made, and by no other (the two resets of the flag in exec_stmt).    *)
THEOREM TerminateTargets == Spec => TerminateEndsInnermostLoop
<1> DEFINE A == line = 1 /\ terminate_requested /\ ~terminate_requested'
                  => target = {Len(stack)} /\ stack' = Pop
<1>1. ASSUME IInv, [Next]_vars PROVE [A]_vars
  <2> SUFFICES ASSUME line = 1, terminate_requested, ~terminate_requested', Next
               PROVE  target = {Len(stack)} /\ stack' = Pop
    BY <1>1 DEF vars
  <2>1. ret = "ok" /\ target = InnermostLoop
    BY <1>1 DEF IInv, RequestTargets
  <2>2. InLoop \/ InBrowse
    BY <2>1 DEF Next, Step, Work, Fail, Terminate, If, Enter, EnterLoop, EnterBrowse, Starting,
                EndOfBlock, InBlock, InTry, InDontPanic, InCall, NextLine, Done, vars
  <2>3. stack # <<>> /\ Top.kind \in Loops /\ stack' = Pop
    BY <2>1, <2>2 DEF InLoop, InBrowse, Loops, Returns
  <2> QED BY <1>1, <2>1, <2>3, LoopOnTop DEF IInv
<1>2. [][A]_vars => TerminateEndsInnermostLoop
  BY DEF TerminateEndsInnermostLoop
<1> QED BY <1>1, <1>2, Invariance, PTL DEF Spec

(* An exit request passes every frame but that of a dont_panic: no         *)
(* fallback, iteration or statement runs on its way (TryBlock and Loop).   *)
THEOREM ExitPasses == Spec => ExitUnwinds
<1> DEFINE A == ret = "exit" /\ stack # <<>> /\ ~Within({"dont_panic"})
                  => ret' = "exit" /\ stack' = Pop
<1>1. ASSUME IInv, [Next]_vars PROVE [A]_vars
  <2> SUFFICES ASSUME ret = "exit", stack # <<>>, ~Within({"dont_panic"}), Next
               PROVE  ret' = "exit" /\ stack' = Pop
    BY <1>1 DEF vars
  <2>1. Top.kind # "dont_panic"
    BY <1>1, TopIsFrame DEF Within, Top
  <2>2. InBlock \/ InTry \/ InLoop \/ InBrowse \/ InCall
    BY <2>1 DEF Next, Step, Work, Fail, Terminate, If, Enter, EnterLoop, EnterBrowse, Starting,
                EndOfBlock, InDontPanic, NextLine, Done
  <2> QED BY <2>2 DEF InBlock, InTry, InLoop, InBrowse, InCall, Returns
<1>2. [][A]_vars => ExitUnwinds
  BY DEF ExitUnwinds
<1> QED BY <1>1, <1>2, Invariance, PTL DEF Spec

(* Whichever input a pending request is from, no block gets past its first *)
(* statement before the request is taken (the return of run and            *)
(* execute_block after each statement).                                    *)
THEOREM PendingStops == Spec => []PendingStopsBlocks
<1>1. Init => PendingStopsBlocks
  BY DEF Init, PendingStopsBlocks
<1>2. ASSUME NEW s \in Seq(Frame), NEW code \in Seq(Stmt), stack' = Append(s, Block(code))
      PROVE  PendingStopsBlocks'
  <2>1. Block(code) \in Frame
    BY BlockGood DEF GoodFrame
  <2>2. Len(stack') = Len(s) + 1 /\ stack'[Len(s) + 1] = Block(code)
    BY <1>2, <2>1
  <2> QED BY <2>2 DEF PendingStopsBlocks, Block, Top
<1>3. ASSUME IInv, PendingStopsBlocks, Step PROVE PendingStopsBlocks'
  <2>1. stack \in Seq(Frame) /\ stack # <<>> /\ Top \in Frame
    <3>1. stack # <<>>
      BY <1>3 DEF Step, Work, Fail, Terminate, If, Enter, EnterLoop, EnterBrowse, Starting, EndOfBlock,
                  InBlock, InTry, InLoop, InBrowse, InDontPanic, InCall
    <3> QED BY <1>3, <3>1, TopIsFrame DEF IInv, TypeOK
  <2>2. CASE If
    <3>1. Current \in Stmt
      BY <1>3, <2>2, CurrentIsStmt DEF If
    <3>2. PICK code \in Seq(Stmt) : stack' = Append(stack, Block(code))
      BY <2>2, <3>1, StmtAssumption DEF If, Push
    <3> QED BY <1>2, <2>1, <3>2
  <2>3. CASE Enter \/ EnterBrowse
    <3>1. Current \in Stmt /\ Current.body \in Seq(Stmt)
      BY <1>3, <2>3, CurrentIsStmt, StmtAssumption DEF Enter, EnterBrowse
    <3>2. CASE \E n \in Nat : stack' = Append(Push(For(Current, n)), Block(Current.body))
      <4>1. PICK n \in Nat : stack' = Append(Push(For(Current, n)), Block(Current.body))
        BY <3>2
      <4>2. For(Current, n) \in Frame
        BY <2>3, <3>1, ForGood DEF Enter, EnterBrowse, GoodFrame
      <4>3. Push(For(Current, n)) \in Seq(Frame)
        BY <2>1, <4>2 DEF Push
      <4> QED BY <1>2, <3>1, <4>1, <4>3
    <3>3. CASE ret' = "ok"
      BY <3>3 DEF PendingStopsBlocks
    <3>4. \A n \in 1 .. MaxItems : n - 1 \in Nat
      BY BoundAssumption
    <3> QED BY <2>3, <3>2, <3>3, <3>4 DEF Enter, EnterBrowse
  <2>4. CASE InTry
    <3>1. CASE ret' # "none"
      BY <3>1 DEF PendingStopsBlocks
    <3>2. CASE ret' = "none"
      <4> DEFINE f    == [Top EXCEPT !.pos = @ + 1, !.saved = FirstError]
                 code == Top.alts[Top.pos + 1]
      <4>1. ret \in {"runtime", "other"} /\ Top.pos < Len(Top.alts) /\ stack' = Append(Swap(f), Block(code))
        <5>1. FirstError # "none"
          BY <2>1, <2>4 DEF InTry, FirstError, Frame, Result, Error
        <5> QED BY <2>4, <3>2, <5>1 DEF InTry, Returns, Runs
      <4>2. f \in Frame
        <5>1. Top.pos + 1 \in Nat /\ (Top.kind = "block" => Top.pos + 1 >= 1) /\ Top.saved \in Result
          BY <2>1 DEF Frame
        <5>2. FirstError \in Result
          BY <4>1, <5>1 DEF FirstError, Result, Error
        <5> QED BY <2>1, <5>1, <5>2, MovedGood DEF GoodFrame
      <4>3. code \in Seq(Stmt)
        BY <2>1, <4>1 DEF Frame
      <4> HIDE DEF f, code
      <4>4. Swap(f) \in Seq(Frame)
        BY <1>3, <2>1, <4>2, PopIs DEF Swap, IInv
      <4> QED BY <1>2, <4>1, <4>3, <4>4
    <3> QED BY <3>1, <3>2
  <2>5. CASE ret' # "none" \/ ~terminate_requested'
    BY <2>5 DEF PendingStopsBlocks
  <2>6. Work \/ Fail \/ Terminate \/ EnterLoop \/ EndOfBlock \/ InBlock \/ InLoop \/ InBrowse \/ InDontPanic \/ InCall
          => ret' # "none" \/ ~terminate_requested'
    BY DEF Work, Fail, Failures, Terminate, EnterLoop, EndOfBlock, InBlock, InLoop, InBrowse, InDontPanic, InCall,
           Returns, Runs, Keeps
  <2> QED BY <1>3, <2>2, <2>3, <2>4, <2>5, <2>6 DEF Step
<1>4. ASSUME NextLine PROVE PendingStopsBlocks'
  BY <1>4 DEF NextLine, PendingStopsBlocks, Top, Block
<1>5. ASSUME PendingStopsBlocks, Done \/ UNCHANGED vars PROVE PendingStopsBlocks'
  BY <1>5 DEF Done, vars, PendingStopsBlocks, Top
<1>6. IInv /\ PendingStopsBlocks /\ [Next]_vars => PendingStopsBlocks'
  BY <1>3, <1>4, <1>5 DEF Next
<1> QED BY <1>1, <1>6, Invariance, PTL DEF Spec

-----------------------------------------------------------------------------
(* A state of the interpreter, and its steps as a relation between states. *)
IFrame == {f \in I!Frame : f.kind = "block" => f.pos # 0}
Config == [stack : Seq(IFrame), ret : Result \cup {"none"}, flag : BOOLEAN]
Conf(s, r, x) == [stack |-> s, ret |-> r, flag |-> x]
Now == Conf(istack, iret, iterminate)

Starts(c) ==
  /\ c.stack # <<>> /\ c.ret = "none"
  /\ Last(c.stack).kind = "block" /\ Last(c.stack).pos <= Len(Last(c.stack).code)
First(c) == Last(c.stack).code[Last(c.stack).pos]

(* It starts statement s. *)
Begins(c, d, e, s) ==
  \/ s.op = "work" /\ d = Conf(c.stack, "ok", c.flag) /\ e = Chose(s, "ok")
  \/ \E r \in Failures(s) : d = Conf(c.stack, r, c.flag) /\ e = Chose(s, r)
  \/ s.op = "terminate" /\ d = Conf(c.stack, "ok", TRUE) /\ e = None
  \/ s.op = "if" /\ d = Conf(Append(c.stack, I!Block(s.body)), c.ret, c.flag) /\ e = Chose(s, "then")
  \/ s.op = "if" /\ d = Conf(Append(c.stack, I!Block(s.alts[1])), c.ret, c.flag) /\ e = Chose(s, "else")
  \/ /\ s.op \in {"try", "dont_panic", "call"}
     /\ d = Conf(Append(Append(c.stack, I!For(s, 0)), I!Block(s.body)), c.ret, c.flag)
     /\ e = IF s.op = "call" THEN Chose(s, "call") ELSE None
  \/ s.op = "loop" /\ c.flag /\ d = Conf(c.stack, "ok", FALSE) /\ e = None
  \/ /\ s.op = "loop" /\ ~c.flag
     /\ d = Conf(Append(Append(c.stack, I!For(s, 0)), I!Block(s.body)), c.ret, FALSE) /\ e = None
  \/ s.op = "browse" /\ d = Conf(c.stack, "ok", FALSE) /\ e = Chose(s, "empty")
  \/ /\ s.op = "browse"
     /\ \E n \in 1 .. MaxItems :
          /\ d = Conf(Append(Append(c.stack, I!For(s, n - 1)), I!Block(s.body)), c.ret, c.flag)
          /\ e = HasItems(s, n)

(* What a block or a statement returned reaches the frame f below it; no   *)
(* loop goes on after a runtime error.                                     *)
Back(c, r, x) == Conf(Front(c.stack), r, x)
Again(c, f, code) == Conf(Append(Append(Front(c.stack), f), I!Block(code)), "none", c.flag)
Original(c, f) == IF f.pos = 0 THEN c.ret ELSE f.saved
Resumes(c, d, f) ==
  \/ /\ c.ret = "none" /\ f.kind = "block" /\ f.pos > Len(f.code)
     /\ d = Back(c, "ok", c.flag)
  \/ /\ c.ret # "none" /\ f.kind = "block" /\ (c.ret # "ok" \/ c.flag)
     /\ d = Back(c, c.ret, c.flag)
  \/ /\ c.ret = "ok" /\ f.kind = "block" /\ ~c.flag
     /\ d = Conf(Append(Front(c.stack), [f EXCEPT !.pos = @ + 1]), "none", c.flag)
  \/ /\ c.ret \in {"ok", "exit"} /\ f.kind = "try"
     /\ d = Back(c, c.ret, c.flag)
  \/ /\ c.ret \in {"runtime", "other"} /\ f.kind = "try" /\ f.pos < Len(f.alts)
     /\ d = Again(c, [f EXCEPT !.pos = @ + 1, !.saved = Original(c, f)], f.alts[f.pos + 1])
  \/ /\ c.ret \in {"runtime", "other"} /\ f.kind = "try" /\ f.pos >= Len(f.alts)
     /\ d = Back(c, Original(c, f), c.flag)
  \/ /\ c.ret \in {"exit", "other"} /\ f.kind = "loop"
     /\ d = Back(c, c.ret, c.flag)
  \/ /\ c.ret = "ok" /\ f.kind = "loop" /\ ~c.flag
     /\ d = Again(c, f, f.code)
  \/ /\ c.ret = "ok" /\ f.kind = "loop" /\ c.flag
     /\ d = Back(c, "ok", FALSE)
  \/ /\ c.ret # "none" /\ c.ret # "ok" /\ f.kind = "browse"
     /\ d = Back(c, c.ret, c.flag)
  \/ /\ c.ret = "ok" /\ f.kind = "browse" /\ ~c.flag /\ f.pos > 0
     /\ d = Again(c, [f EXCEPT !.pos = @ - 1], f.code)
  \/ /\ c.ret = "ok" /\ f.kind = "browse" /\ (c.flag \/ f.pos = 0)
     /\ d = Back(c, "ok", FALSE)
  \/ c.ret # "none" /\ f.kind = "dont_panic" /\ d = Back(c, "ok", c.flag)
  \/ c.ret # "none" /\ f.kind = "call" /\ d = Back(c, c.ret, c.flag)

Goes(c, d, e) ==
  \/ Starts(c) /\ Begins(c, d, e, First(c))
  \/ c.stack # <<>> /\ Resumes(c, d, Last(c.stack)) /\ e = None

(* Both machines are about the same statements.                            *)
LEMMA SameNames ==
  /\ \A s, x : I!Chose(s, x) = Chose(s, x) /\ T!Chose(s, x) = Chose(s, x)
  /\ \A s, n : I!HasItems(s, n) = HasItems(s, n) /\ T!HasItems(s, n) = HasItems(s, n)
  /\ \A s : I!Failures(s) = Failures(s) /\ T!Failures(s) = Failures(s)
  /\ I!None = None /\ T!None = None
  /\ I!Result = Result /\ T!Result = Result /\ T!Error = Error
BY DEF I!Chose, T!Chose, Chose, I!HasItems, T!HasItems, HasItems, I!None, T!None, None, I!Failures,
     T!Failures, Failures, I!Result, T!Result, Result, I!Error, T!Error, Error

LEMMA StepGoes ==
  ASSUME I!Step, ~(I!InLoop /\ iret = "runtime")
  PROVE  Goes(Now, Now', ievent')
<1> DEFINE c == Now
           d == Now'
           e == ievent'
           s == I!Current
           f == I!Top
<1>1. c.stack = istack /\ c.ret = iret /\ c.flag = iterminate
  BY DEF Now, Conf
<1>2. d = Conf(istack', iret', iterminate')
  BY DEF Now, Conf
<1>3. f = Last(c.stack) /\ I!Pop = Front(c.stack)
  BY <1>1 DEF I!Top, I!Pop, Last, Front
<1>4. I!Starting => Starts(c) /\ s = First(c)
  BY <1>1, <1>3 DEF Starts, First, I!Starting, I!Current
<1>5. I!Starting /\ Begins(c, d, e, s) => Goes(c, d, e)
  BY <1>4 DEF Goes
<1>6. istack # <<>> /\ Resumes(c, d, f) /\ e = None => Goes(c, d, e)
  BY <1>1, <1>3 DEF Goes
<1>7. SUFFICES Goes(c, d, e)
  OBVIOUS
<1> HIDE DEF c, d, e, s, f
<1>8. ASSUME I!Starting, Begins(c, d, e, s) PROVE Goes(c, d, e)
  BY <1>5, <1>8
<1>9. ASSUME istack # <<>>, Resumes(c, d, f), e = None PROVE Goes(c, d, e)
  BY <1>6, <1>9
<1>10. CASE I!Work
  BY SameNames, <1>1, <1>2, <1>5, <1>10 DEF I!Work, Begins, e, s
<1>11. CASE I!Fail
  BY SameNames, <1>1, <1>2, <1>5, <1>11 DEF I!Fail, Begins, e, s
<1>12. CASE I!Terminate
  BY SameNames, <1>1, <1>2, <1>5, <1>12 DEF I!Terminate, Begins, e, s
<1>13. CASE I!If
  BY SameNames, <1>1, <1>2, <1>5, <1>13 DEF I!If, I!Push, I!Starting, Begins, e, s
<1>14. CASE I!Enter
  BY SameNames, <1>1, <1>2, <1>5, <1>14 DEF I!Enter, I!Push, Begins, e, s
<1>15. CASE I!EnterLoop
  BY SameNames, <1>1, <1>2, <1>5, <1>15 DEF I!EnterLoop, I!Push, Begins, e, s
<1>16. CASE I!EnterBrowse
  BY SameNames, <1>1, <1>2, <1>5, <1>16 DEF I!EnterBrowse, I!Push, Begins, e, s
<1>17. CASE I!EndOfBlock
  BY SameNames, <1>1, <1>2, <1>3, <1>6, <1>17 DEF I!EndOfBlock, I!Returns, I!Keeps, Resumes, Back, e, f
<1>18. CASE I!InBlock
  BY SameNames, <1>1, <1>2, <1>3, <1>6, <1>18 DEF I!InBlock, I!Returns, I!Swap, I!Keeps, Resumes, Back, e, f
<1>19. CASE I!InTry
  BY SameNames, <1>1, <1>2, <1>3, <1>6, <1>19
  DEF I!InTry, I!FirstError, Original, I!Returns, I!Runs, I!Swap, I!Keeps, Resumes, Back, Again, e, f
<1>20. CASE I!InLoop
  BY SameNames, <1>1, <1>2, <1>3, <1>6, <1>20 DEF I!InLoop, I!Returns, I!Runs, I!Swap, I!Keeps, Resumes, Back, Again, e, f
<1>21. CASE I!InBrowse
  BY SameNames, <1>1, <1>2, <1>3, <1>6, <1>21 DEF I!InBrowse, I!Returns, I!Runs, I!Swap, I!Keeps, Resumes, Back, Again, e, f
<1>22. CASE I!InDontPanic
  BY SameNames, <1>1, <1>2, <1>3, <1>6, <1>22 DEF I!InDontPanic, I!Returns, I!Keeps, Resumes, Back, e, f
<1>23. CASE I!InCall
  BY SameNames, <1>1, <1>2, <1>3, <1>6, <1>23 DEF I!InCall, I!Returns, I!Keeps, Resumes, Back, e, f
<1> QED
  BY <1>10, <1>11, <1>12, <1>13, <1>14, <1>15, <1>16, <1>17, <1>18, <1>19, <1>20, <1>21, <1>22, <1>23
  DEF I!Step
(* Only statements that leave a choice are logged.                         *)
LEMMA ChoicesNotNone ==
  /\ \A s, x : x # "none" => Chose(s, x) # None
  /\ \A s, n : HasItems(s, n) # None
  /\ \A s : \A r \in Failures(s) : r # "none" /\ r # "ok" /\ r \in Result
BY DEF Chose, HasItems, None, Failures, Result, Error

LEMMA FrameTypes ==
  /\ \A code \in Seq(Stmt) : I!Block(code) \in IFrame
  /\ \A s \in Stmt : \A n \in Nat : s.op \in {"browse", "call", "try", "loop", "dont_panic"} => I!For(s, n) \in IFrame
<1>1. <<>> \in Seq(Seq(Stmt)) /\ "ok" \in I!Result
  BY DEF I!Result
<1>2. \A code \in Seq(Stmt) : I!Block(code) \in IFrame
  BY <1>1 DEF I!Block, IFrame, I!Frame
<1>3. ASSUME NEW s \in Stmt, NEW n \in Nat, s.op \in {"browse", "call", "try", "loop", "dont_panic"}
      PROVE  I!For(s, n) \in IFrame
  BY <1>1, <1>3, StmtAssumption DEF I!For, IFrame, I!Frame
<1> QED BY <1>2, <1>3

LEMMA ConfTyped ==
  ASSUME NEW s \in Seq(IFrame), NEW r \in Result \cup {"none"}, NEW x \in BOOLEAN
  PROVE  Conf(s, r, x) \in Config
BY DEF Conf, Config

LEMMA NoneIsEvent == None \in Event
<1>1. "none" \in Names /\ "none" \in Choice
  BY DEF Names, Choice
<1> QED BY <1>1 DEF None, Event

LEMMA BeginsTyped ==
  ASSUME NEW c \in Config, NEW d, NEW e, NEW s \in Stmt, Begins(c, d, e, s)
  PROVE  d \in Config /\ e \in Event
<1>1. c.stack \in Seq(IFrame) /\ c.ret \in Result \cup {"none"} /\ c.flag \in BOOLEAN
  BY DEF Config
<1>2. s.body \in Seq(Stmt) /\ s.alts \in Seq(Seq(Stmt)) /\ (s.op = "if" => s.alts[1] \in Seq(Stmt))
  BY StmtAssumption
<1>3. "ok" \in Result /\ Failures(s) \subseteq Result
  BY ChoicesNotNone DEF Result
<1>4. /\ \A x \in Choice : Chose(s, x) \in Event
      /\ \A n \in Nat : HasItems(s, n) \in Event
      /\ None \in Event
      /\ Result \subseteq Choice /\ {"then", "else", "call", "empty"} \subseteq Choice
  <2>1. s.name \in Names /\ "items" \in Choice
    BY DEF Names, Choice
  <2> HIDE DEF None
  <2>2. \A x \in Choice : Chose(s, x) \in Event
    BY <2>1 DEF Event, Chose
  <2>3. \A n \in Nat : HasItems(s, n) \in Event
    BY <2>1 DEF Event, HasItems
  <2> QED BY <2>2, <2>3, NoneIsEvent DEF Choice
<1>5. \A f \in IFrame : Append(c.stack, f) \in Seq(IFrame)
  BY <1>1
<1>6. \A f \in IFrame : \A g \in IFrame : Append(Append(c.stack, f), g) \in Seq(IFrame)
  BY <1>5
<1>7. e \in Event
  <2>1. \A n \in 1 .. MaxItems : n \in Nat
    BY BoundAssumption
  <2>2. \/ e = None
        \/ \E x \in Choice : e = Chose(s, x)
        \/ \E n \in Nat : e = HasItems(s, n)
    <3>1. "call" \in Choice /\ "ok" \in Choice /\ "then" \in Choice /\ "else" \in Choice /\ "empty" \in Choice
      BY DEF Choice, Result
    <3>2. \A r \in Failures(s) : r \in Choice
      BY <1>3, <1>4
    <3> QED BY <2>1, <3>1, <3>2 DEF Begins
  <2> QED BY <1>4, <2>2
<1>8. d \in Config
  <2>1. \A n \in 1 .. MaxItems : n - 1 \in Nat
    BY BoundAssumption
  <2>2. I!Block(s.body) \in IFrame /\ (s.op = "if" => I!Block(s.alts[1]) \in IFrame)
    BY <1>2, FrameTypes
  <2>3. /\ s.op \in {"try", "dont_panic", "call", "loop"} => I!For(s, 0) \in IFrame
        /\ s.op = "browse" => \A n \in 1 .. MaxItems : I!For(s, n - 1) \in IFrame
    BY <2>1, FrameTypes
  <2>4. \E t \in Seq(IFrame), r \in Result \cup {"none"}, x \in BOOLEAN : d = Conf(t, r, x)
    BY <1>1, <1>3, <1>5, <1>6, <2>2, <2>3 DEF Begins
  <2> QED BY <2>4, ConfTyped
<1> QED BY <1>7, <1>8

LEMMA ResumesTyped ==
  ASSUME NEW c \in Config, NEW d, c.stack # <<>>, Resumes(c, d, Last(c.stack))
  PROVE  d \in Config
<1> DEFINE f == Last(c.stack)
           u == Front(c.stack)
<1>1. c.stack \in Seq(IFrame) /\ c.ret \in Result \cup {"none"} /\ c.flag \in BOOLEAN
  BY DEF Config
<1>2. f \in IFrame
  BY <1>1 DEF Last
<1>3. u \in Seq(IFrame)
  BY <1>1, SubSeqProperties, LenProperties DEF Front
<1>4. /\ f.code \in Seq(Stmt) /\ f.alts \in Seq(Seq(Stmt)) /\ f.pos \in Nat /\ f.saved \in Result
      /\ "ok" \in Result
  BY <1>2, SameNames DEF IFrame, I!Frame, Result
<1> HIDE DEF f, u
<1>5. /\ \A n \in Nat : (n # 0 \/ f.kind # "block") => [f EXCEPT !.pos = n] \in IFrame
      /\ \A n \in Nat, r \in Result : f.kind # "block" => [f EXCEPT !.pos = n, !.saved = r] \in IFrame
  BY <1>2, SameNames DEF IFrame, I!Frame
<1>6. \A g \in IFrame : Append(u, g) \in Seq(IFrame) /\ \A code \in Seq(Stmt) : Append(Append(u, g), I!Block(code)) \in Seq(IFrame)
  BY <1>3, FrameTypes
<1>7. \A r \in Result \cup {"none"}, x \in BOOLEAN : Back(c, r, x) \in Config
  BY <1>3, ConfTyped DEF Back, u
<1>8. \A g \in IFrame, code \in Seq(Stmt) : Again(c, g, code) \in Config
  BY <1>1, <1>6, ConfTyped DEF Again, u
<1>9. c.ret # "none" => Original(c, f) \in Result
  BY <1>1, <1>4 DEF Original
<1>10. Conf(Append(u, [f EXCEPT !.pos = @ + 1]), "none", c.flag) \in Config
  <2>1. f.pos + 1 \in Nat /\ f.pos + 1 # 0
    BY <1>4
  <2>2. [f EXCEPT !.pos = f.pos + 1] \in IFrame
    BY <1>5, <2>1
  <2>3. Append(u, [f EXCEPT !.pos = @ + 1]) \in Seq(IFrame)
    BY <1>6, <2>2
  <2> QED BY <1>1, <2>3, ConfTyped
<1>11. f.pos < Len(f.alts) => f.alts[f.pos + 1] \in Seq(Stmt)
  BY <1>4
<1>12. f.kind = "try" /\ f.pos < Len(f.alts) /\ c.ret # "none" => Again(c, [f EXCEPT !.pos = @ + 1, !.saved = Original(c, f)], f.alts[f.pos + 1]) \in Config
  <2>1. f.pos + 1 \in Nat
    BY <1>4
  <2>2. f.kind = "try" /\ c.ret # "none" => [f EXCEPT !.pos = @ + 1, !.saved = Original(c, f)] \in IFrame
    BY <1>5, <1>9, <2>1
  <2> QED BY <1>8, <1>11, <2>2
<1>13. f.kind = "browse" /\ f.pos > 0 => Again(c, [f EXCEPT !.pos = @ - 1], f.code) \in Config
  <2>1. f.pos > 0 => f.pos - 1 \in Nat
    BY <1>4
  <2>2. f.kind = "browse" /\ f.pos > 0 => [f EXCEPT !.pos = @ - 1] \in IFrame
    BY <1>4, <1>5, <2>1
  <2> QED BY <1>4, <1>8, <2>2
<1>14. Resumes(c, d, f)
  BY DEF f
<1> QED
  BY <1>1, <1>2, <1>4, <1>7, <1>8, <1>9, <1>10, <1>12, <1>13, <1>14 DEF Resumes, u

LEMMA GoesTyped ==
  ASSUME NEW c \in Config, NEW d, NEW e, Goes(c, d, e)
  PROVE  d \in Config /\ e \in Event
<1>1. CASE Starts(c) /\ Begins(c, d, e, First(c))
  <2>1. Last(c.stack) \in IFrame /\ Last(c.stack).pos \in Nat
    BY <1>1 DEF Starts, Config, Last, IFrame, I!Frame
  <2>2. First(c) \in Stmt
    BY <1>1, <2>1 DEF Starts, First, IFrame, I!Frame
  <2> QED BY <1>1, <2>2, BeginsTyped
<1>2. CASE c.stack # <<>> /\ Resumes(c, d, Last(c.stack)) /\ e = None
  BY <1>2, ResumesTyped, NoneIsEvent
<1> QED BY <1>1, <1>2 DEF Goes
-----------------------------------------------------------------------------
(* Frame for frame: a frame of the generated program is one frame of the   *)
(* interpreter, but a called procedure and a loop are two, the statement   *)
(* and its block.                                                          *)
TFrame == {f \in T!Frame : f.kind \in T!Bodies => f.pos # 0}
Caught == {"runtime", "other"}
Width(f) == IF f.kind \in {"call", "loop"} THEN 2 ELSE 1

Stands(f, s, p) ==
  /\ p \in 1 .. Len(s)
  /\ s[p].code = f.code
  /\ f.kind \in T!Bodies => s[p].kind = "block"
  /\ f.kind \notin T!Bodies => s[p].kind = f.kind /\ s[p].alts = f.alts
  /\ f.kind \in {"call", "loop"} => p # 1 /\ s[p - 1].kind = f.kind /\ s[p - 1].code = f.code
  /\ f.kind = "try" /\ f.pos # 0 => s[p].saved \in Caught

LEMMA TFrameTypes ==
  /\ \A k \in T!Bodies, code \in Seq(Stmt) : T!Body(k, code) \in TFrame
  /\ \A code \in Seq(Stmt) : T!Body("body", code) \in TFrame
  /\ \A s \in Stmt, n \in Nat : s.op \in {"try", "browse", "dont_panic"} => T!Around(s, n) \in TFrame
  /\ \A s \in Stmt : s.op \in {"call", "loop"} => T!Body(s.op, s.body) \in TFrame
<1>1. <<>> \in Seq(Seq(Stmt))
  OBVIOUS
<1>2. \A k \in T!Bodies, code \in Seq(Stmt) : T!Body(k, code) \in TFrame
  BY <1>1 DEF TFrame, T!Frame, T!Body
<1>3. ASSUME NEW s \in Stmt, NEW n \in Nat, s.op \in {"try", "browse", "dont_panic"}
      PROVE  T!Around(s, n) \in TFrame
  BY <1>3, StmtAssumption DEF TFrame, T!Frame, T!Around, T!Bodies
<1>4. {"body", "call", "loop"} \subseteq T!Bodies
  BY DEF T!Bodies
<1> QED BY <1>2, <1>3, <1>4, StmtAssumption

(* Frame j of t stands at m[j] in s, in the same position, that of the top *)
(* only if x.                                                              *)
Mapped(t, s, m, x) ==
  /\ m \in [1 .. Len(t) -> 1 .. Len(s)]
  /\ Len(s) = IF t = <<>> THEN 0 ELSE m[Len(t)]
  /\ \A j \in 1 .. Len(t) : m[j] = (IF j = 1 THEN 0 ELSE m[j - 1]) + Width(t[j])
  /\ \A i, j \in 1 .. Len(t) : i <= j => m[i] <= m[j]
  /\ \A j \in 1 .. Len(t) : Stands(t[j], s, m[j])
  /\ \A j \in 1 .. Len(t) : (j # Len(t) \/ x) => s[m[j]].pos = t[j].pos
Matched(t, s, x) == \E m : Mapped(t, s, m, x)

LEMMA Beginning ==
  ASSUME NEW S, NEW s \in Seq(S), NEW n \in Nat, n <= Len(s)
  PROVE  /\ SubSeq(s, 1, n) \in Seq(S) /\ Len(SubSeq(s, 1, n)) = n
         /\ \A i \in 1 .. n : SubSeq(s, 1, n)[i] = s[i]
<1>1. Len(s) \in Nat /\ 1 \in Int /\ n \in Int /\ \A i \in 1 .. n : s[i] \in S
  BY LenProperties
<1>2. /\ SubSeq(s, 1, n) \in Seq(S)
      /\ Len(SubSeq(s, 1, n)) = IF 1 <= n THEN n - 1 + 1 ELSE 0
      /\ \A i \in 1 .. n - 1 + 1 : SubSeq(s, 1, n)[i] = s[1 + i - 1]
  BY <1>1, SubSeqProperties
<1> QED BY <1>1, <1>2

LEMMA FrontLast ==
  ASSUME NEW S, NEW s \in Seq(S), s # <<>>
  PROVE  /\ Len(s) \in Nat \ {0} /\ Last(s) = s[Len(s)] /\ Last(s) \in S
         /\ Front(s) \in Seq(S) /\ Len(Front(s)) = Len(s) - 1
         /\ \A i \in 1 .. Len(s) - 1 : Front(s)[i] = s[i]
         /\ s = Append(Front(s), Last(s))
<1>1. Len(s) \in Nat /\ Len(s) # 0 /\ \A i \in 1 .. Len(s) : s[i] \in S
  BY LenProperties, EmptySeq
<1>2. Front(s) = SubSeq(s, 1, Len(s) - 1) /\ Last(s) = s[Len(s)]
  BY DEF Front, Last
<1>3. /\ Front(s) \in Seq(S) /\ Len(Front(s)) = Len(s) - 1
      /\ \A i \in 1 .. Len(s) - 1 : Front(s)[i] = s[i]
  <2> DEFINE n == Len(s) - 1
  <2>1. n \in Nat /\ n <= Len(s) /\ Front(s) = SubSeq(s, 1, n)
    BY <1>1, <1>2
  <2> HIDE DEF n
  <2>2. SubSeq(s, 1, n) \in Seq(S) /\ Len(SubSeq(s, 1, n)) = n /\ \A i \in 1 .. n : SubSeq(s, 1, n)[i] = s[i]
    BY <2>1, Beginning
  <2>3. Front(s) \in Seq(S) /\ Len(Front(s)) = n /\ \A i \in 1 .. n : Front(s)[i] = s[i]
    BY <2>1, <2>2
  <2> QED BY <2>3 DEF n
<1>4. s = Append(Front(s), Last(s))
  BY <1>1, <1>2, <1>3, AppendProperties, SeqEqual
<1> QED BY <1>1, <1>2, <1>3, <1>4

LEMMA MatchRead ==
  ASSUME NEW t \in Seq(TFrame), NEW s \in Seq(IFrame), NEW x, Matched(t, s, x), t # <<>>
  PROVE  /\ s # <<>> /\ Len(s) - Width(Last(t)) \in Nat
         /\ Stands(Last(t), s, Len(s))
         /\ x => Last(s).pos = Last(t).pos
<1>1. PICK m : Mapped(t, s, m, x)
  BY DEF Matched
<1>2. Len(t) \in Nat /\ Len(t) # 0 /\ Last(t) = t[Len(t)] /\ Len(s) \in Nat
  BY LenProperties, FrontLast
<1>3. Len(s) = m[Len(t)] /\ Stands(Last(t), s, Len(s)) /\ (x => s[Len(s)].pos = Last(t).pos)
  BY <1>1, <1>2 DEF Mapped
<1>4. Len(s) # 0 /\ s # <<>>
  BY <1>2, <1>3, EmptySeq DEF Stands
<1>5. Len(s) - Width(Last(t)) \in Nat
  BY <1>2, <1>3, <1>4 DEF Stands, Width
<1> QED BY <1>3, <1>4, <1>5 DEF Last

LEMMA MatchPush ==
  ASSUME NEW t \in Seq(TFrame), NEW s \in Seq(IFrame), Matched(t, s, TRUE),
         NEW f \in TFrame, NEW u \in Seq(IFrame), Len(u) = Len(s) + Width(f),
         \A i \in 1 .. Len(s) : u[i] = s[i],
         Stands(f, u, Len(u)), NEW x, x => Last(u).pos = f.pos
  PROVE  Matched(Append(t, f), u, x)
<1>1. PICK m : Mapped(t, s, m, TRUE)
  BY DEF Matched
<1> DEFINE w == Append(t, f)
           k == [j \in 1 .. Len(w) |-> IF j = Len(w) THEN Len(u) ELSE m[j]]
<1>2. Len(t) \in Nat /\ Len(s) \in Nat /\ Len(u) \in Nat /\ Width(f) \in {1, 2}
  BY LenProperties DEF Width
<1>3. /\ Len(w) = Len(t) + 1 /\ w # <<>> /\ w[Len(w)] = f
      /\ \A j \in 1 .. Len(t) : w[j] = t[j]
  BY <1>2, AppendProperties
<1>4. \A j \in 1 .. Len(t) : m[j] \in 1 .. Len(s) /\ m[j] \in 1 .. Len(u) /\ u[m[j]] = s[m[j]] /\ (m[j] # 1 => u[m[j] - 1] = s[m[j] - 1])
  <2> TAKE j \in 1 .. Len(t)
  <2>1. m[j] \in 1 .. Len(s)
    BY <1>1 DEF Mapped
  <2>2. m[j] \in Int /\ 1 <= m[j] /\ m[j] <= Len(s) /\ Len(s) <= Len(u)
    BY <1>2, <2>1
  <2>3. m[j] \in 1 .. Len(u) /\ (m[j] # 1 => m[j] - 1 \in 1 .. Len(s))
    BY <1>2, <2>2
  <2> QED BY <2>1, <2>3
<1> HIDE DEF w
<1>5. k \in [1 .. Len(w) -> 1 .. Len(u)] /\ Len(u) = k[Len(w)]
  BY <1>2, <1>3, <1>4 DEF Stands
<1>6. \A j \in 1 .. Len(t) : k[j] = m[j]
  BY <1>2, <1>3
<1>7. k[Len(w)] = Len(u)
  BY <1>2, <1>3
<1> HIDE DEF k
<1>8. \A j \in 1 .. Len(w) : k[j] = (IF j = 1 THEN 0 ELSE k[j - 1]) + Width(w[j])
  <2> TAKE j \in 1 .. Len(w)
  <2>1. CASE j # Len(w)
    <3>1. j \in 1 .. Len(t) /\ (j # 1 => j - 1 \in 1 .. Len(t))
      BY <1>2, <1>3, <2>1
    <3> QED BY <1>1, <1>3, <1>6, <3>1 DEF Mapped
  <2>2. CASE j = Len(w) /\ Len(t) # 0
    <3>1. t # <<>> /\ Len(s) = m[Len(t)] /\ Len(t) \in 1 .. Len(t) /\ j - 1 = Len(t) /\ j # 1
      BY <1>1, <1>2, <1>3, <2>2 DEF Mapped
    <3> QED BY <1>2, <1>3, <1>6, <1>7, <2>2, <3>1
  <2>3. CASE j = Len(w) /\ Len(t) = 0
    <3>1. t = <<>> /\ Len(s) = 0 /\ j = 1
      BY <1>1, <1>2, <1>3, <2>3, EmptySeq DEF Mapped
    <3> QED BY <1>2, <1>3, <1>7, <2>3, <3>1
  <2> QED BY <2>1, <2>2, <2>3
<1>9. \A i, j \in 1 .. Len(w) : i <= j => k[i] <= k[j]
  <2> TAKE i, j \in 1 .. Len(w)
  <2>1. k[i] \in 1 .. Len(u)
    BY <1>5
  <2>2. CASE j = Len(w)
    BY <1>2, <1>7, <2>1, <2>2
  <2>3. CASE j # Len(w)
    <3>1. i <= j => i \in 1 .. Len(t) /\ j \in 1 .. Len(t)
      BY <1>2, <1>3, <2>3
    <3> QED BY <1>1, <1>6, <3>1 DEF Mapped
  <2> QED BY <2>2, <2>3
<1>10. \A j \in 1 .. Len(w) : Stands(w[j], u, k[j])
  <2> TAKE j \in 1 .. Len(w)
  <2>1. CASE j = Len(w)
    BY <1>3, <1>7, <2>1
  <2>2. CASE j # Len(w)
    <3>1. j \in 1 .. Len(t)
      BY <1>2, <1>3, <2>2
    <3>2. Stands(t[j], s, m[j])
      BY <1>1, <3>1 DEF Mapped
    <3>3. w[j] = t[j] /\ k[j] = m[j]
      BY <1>3, <1>4, <1>6, <3>1
    <3> QED BY <1>3, <1>4, <1>6, <3>1, <3>2, <3>3 DEF Stands
  <2> QED BY <2>1, <2>2
<1>11. \A j \in 1 .. Len(w) : (j # Len(w) \/ x) => u[k[j]].pos = w[j].pos
  <2> TAKE j \in 1 .. Len(w)
  <2>1. CASE j = Len(w)
    BY <1>3, <1>7, <2>1 DEF Last
  <2>2. CASE j # Len(w)
    <3>1. j \in 1 .. Len(t)
      BY <1>2, <1>3, <2>2
    <3>2. s[m[j]].pos = t[j].pos
      BY <1>1, <3>1 DEF Mapped
    <3> QED BY <1>3, <1>4, <1>6, <3>1, <3>2
  <2> QED BY <2>1, <2>2
<1>12. Mapped(w, u, k, x)
  BY <1>3, <1>5, <1>8, <1>9, <1>10, <1>11 DEF Mapped
<1> QED BY <1>12 DEF Matched, w

LEMMA MatchPop ==
  ASSUME NEW t \in Seq(TFrame), NEW s \in Seq(IFrame), NEW x, Matched(t, s, x), t # <<>>
  PROVE  Matched(Front(t), SubSeq(s, 1, Len(s) - Width(Last(t))), TRUE)
<1>1. PICK m : Mapped(t, s, m, x)
  BY DEF Matched
<1> DEFINE w == Front(t)
           n == Len(s) - Width(Last(t))
           u == SubSeq(s, 1, n)
           k == [j \in 1 .. Len(w) |-> m[j]]
<1>2. Len(t) \in Nat /\ Len(s) \in Nat /\ n \in Nat /\ n <= Len(s)
  BY LenProperties, MatchRead DEF Width
<1>3. /\ Len(w) = Len(t) - 1 /\ Len(t) # 0 /\ Last(t) = t[Len(t)]
      /\ \A j \in 1 .. Len(w) : w[j] = t[j]
  BY FrontLast
<1>4. Len(u) = n /\ \A i \in 1 .. n : u[i] = s[i]
  BY <1>2, SubSeqProperties
<1>5. Len(s) = m[Len(t)] /\ Len(t) \in 1 .. Len(t)
  BY <1>1, <1>2, <1>3 DEF Mapped
<1>6. n = IF Len(t) = 1 THEN 0 ELSE m[Len(t) - 1]
  <2>1. m[Len(t)] = (IF Len(t) = 1 THEN 0 ELSE m[Len(t) - 1]) + Width(t[Len(t)])
    BY <1>1, <1>5 DEF Mapped
  <2>2. Len(t) # 1 => m[Len(t) - 1] \in 1 .. Len(s)
    <3>1. Len(t) # 1 => Len(t) - 1 \in 1 .. Len(t)
      BY <1>2, <1>3
    <3>2. m \in [1 .. Len(t) -> 1 .. Len(s)]
      BY <1>1 DEF Mapped
    <3> QED BY <3>1, <3>2
  <2>3. Width(t[Len(t)]) \in Nat
    BY DEF Width
  <2>4. m[Len(t)] - Width(t[Len(t)]) = IF Len(t) = 1 THEN 0 ELSE m[Len(t) - 1]
    BY <1>2, <2>1, <2>2, <2>3
  <2> QED BY <1>3, <1>5, <2>4
<1> HIDE DEF w, n, u
<1>7. \A j \in 1 .. Len(w) : j \in 1 .. Len(t) /\ j # Len(t) /\ (j # 1 => j - 1 \in 1 .. Len(w)) /\ m[j] \in 1 .. n
  <2> TAKE j \in 1 .. Len(w)
  <2>1. j \in 1 .. Len(t) /\ j # Len(t) /\ j <= Len(t) - 1 /\ Len(t) - 1 \in 1 .. Len(t) /\ Len(t) # 1
    BY <1>2, <1>3
  <2>2. m[j] \in 1 .. Len(s) /\ m[j] <= m[Len(t) - 1] /\ m[Len(t) - 1] \in 1 .. Len(s)
    BY <1>1, <2>1 DEF Mapped
  <2> QED BY <1>2, <1>3, <1>6, <2>1, <2>2
<1>8. k \in [1 .. Len(w) -> 1 .. Len(u)]
  BY <1>4, <1>7
<1>9. Len(u) = IF w = <<>> THEN 0 ELSE k[Len(w)]
  <2>1. CASE Len(t) = 1
    BY <1>2, <1>3, <1>4, <1>6, <2>1 DEF w
  <2>2. CASE Len(t) # 1
    <3>1. Len(w) \in 1 .. Len(w) /\ w # <<>>
      BY <1>2, <1>3, <2>2
    <3> QED BY <1>2, <1>3, <1>4, <1>6, <2>2, <3>1
  <2> QED BY <2>1, <2>2
<1>10. \A j \in 1 .. Len(w) : k[j] = (IF j = 1 THEN 0 ELSE k[j - 1]) + Width(w[j])
  BY <1>1, <1>3, <1>7 DEF Mapped
<1>11. \A i, j \in 1 .. Len(w) : i <= j => k[i] <= k[j]
  BY <1>1, <1>7 DEF Mapped
<1>12. \A j \in 1 .. Len(w) : Stands(w[j], u, k[j])
  <2> TAKE j \in 1 .. Len(w)
  <2>1. Stands(t[j], s, m[j]) /\ w[j] = t[j] /\ k[j] = m[j] /\ m[j] \in 1 .. n
    BY <1>1, <1>3, <1>7 DEF Mapped
  <2>2. u[m[j]] = s[m[j]] /\ (m[j] # 1 => u[m[j] - 1] = s[m[j] - 1])
    BY <1>2, <1>4, <2>1
  <2> QED BY <1>4, <2>1, <2>2 DEF Stands
<1>13. \A j \in 1 .. Len(w) : u[k[j]].pos = w[j].pos
  BY <1>1, <1>3, <1>4, <1>7 DEF Mapped
<1>14. Mapped(w, u, k, TRUE)
  BY <1>8, <1>9, <1>10, <1>11, <1>12, <1>13 DEF Mapped
<1> QED BY <1>14 DEF Matched, w, n, u
LEMMA MatchTop ==
  ASSUME NEW t \in Seq(TFrame), NEW s \in Seq(IFrame), NEW x, Matched(t, s, x), t # <<>>,
         NEW f \in TFrame, NEW g \in IFrame, f.kind = Last(t).kind, f.code = Last(t).code, g.code = f.code,
         IF f.kind \in T!Bodies THEN g.kind = "block" ELSE g.kind = f.kind /\ g.alts = f.alts,
         f.kind = "try" /\ f.pos # 0 => g.saved \in Caught,
         NEW y, y => g.pos = f.pos
  PROVE  Matched(Append(Front(t), f), Append(Front(s), g), y)
<1> DEFINE u == SubSeq(s, 1, Len(s) - Width(Last(t)))
           w == Append(Front(s), g)
<1>1. Len(s) \in Nat /\ Width(f) = Width(Last(t)) /\ Width(f) \in {1, 2}
  BY LenProperties DEF Width
<1>2. s # <<>> /\ Len(s) - Width(f) \in Nat /\ Stands(Last(t), s, Len(s))
  BY <1>1, MatchRead
<1>3. /\ Front(t) \in Seq(TFrame) /\ Front(s) \in Seq(IFrame) /\ Len(Front(s)) = Len(s) - 1
      /\ \A i \in 1 .. Len(s) - 1 : Front(s)[i] = s[i]
  BY <1>2, FrontLast
<1>4. Matched(Front(t), u, TRUE)
  BY MatchPop
<1>5. /\ u \in Seq(IFrame) /\ Len(u) = Len(s) - Width(f)
      /\ \A i \in 1 .. Len(u) : u[i] = s[i]
  <2> DEFINE n == Len(s) - Width(f)
  <2>1. n \in Nat /\ n <= Len(s) /\ u = SubSeq(s, 1, n)
    BY <1>1, <1>2
  <2> HIDE DEF n
  <2>2. SubSeq(s, 1, n) \in Seq(IFrame) /\ Len(SubSeq(s, 1, n)) = n /\ \A i \in 1 .. n : SubSeq(s, 1, n)[i] = s[i]
    BY <2>1, Beginning
  <2> HIDE DEF u
  <2>3. u \in Seq(IFrame) /\ Len(u) = n /\ \A i \in 1 .. n : u[i] = s[i]
    BY <2>1, <2>2
  <2> QED BY <2>3 DEF n
<1>6. /\ w \in Seq(IFrame) /\ Len(w) = Len(s) /\ w[Len(s)] = g /\ Last(w) = g
      /\ \A i \in 1 .. Len(s) - 1 : w[i] = s[i]
  BY <1>1, <1>3, AppendProperties DEF Last
<1> HIDE DEF u, w
<1>7. \A i \in 1 .. Len(u) : w[i] = u[i]
  <2>1. Len(u) \in Nat /\ Len(u) <= Len(s) - 1
    BY <1>1, <1>2, <1>5
  <2>2. 1 .. Len(u) \subseteq 1 .. Len(s) - 1
    BY <1>1, <2>1
  <2> QED BY <1>5, <1>6, <2>2
<1>8. Stands(f, w, Len(w))
  <2>1. Len(s) # 0 /\ (f.kind \in {"call", "loop"} => Len(s) # 1)
    BY <1>1, <1>2 DEF Stands
  <2>2. f.kind \in {"call", "loop"} => Len(s) - 1 \in 1 .. Len(s) - 1
    <3>1. \A n \in Nat : n # 0 /\ n # 1 => n - 1 \in 1 .. n - 1
      OBVIOUS
    <3> QED BY <1>1, <2>1, <3>1
  <2> QED BY <1>1, <1>2, <1>6, <2>1, <2>2 DEF Stands
<1>9. Len(w) = Len(u) + Width(f)
  BY <1>1, <1>5, <1>6
<1>10. Matched(Append(Front(t), f), w, y)
  BY <1>3, <1>4, <1>5, <1>6, <1>7, <1>8, <1>9, MatchPush
<1> QED BY <1>10 DEF w

LEMMA MatchLess ==
  ASSUME NEW t, NEW s, NEW x, Matched(t, s, TRUE)
  PROVE  Matched(t, s, x)
BY DEF Matched, Mapped

LEMMA MatchBody ==
  ASSUME NEW t \in Seq(TFrame), NEW s \in Seq(IFrame), Matched(t, s, TRUE), NEW code \in Seq(Stmt)
  PROVE  Matched(Append(t, T!Body("body", code)), Append(s, I!Block(code)), TRUE)
<1> DEFINE f == T!Body("body", code)
           w == Append(s, I!Block(code))
<1>1. f.kind = "body" /\ f.code = code /\ f.pos = 1 /\ I!Block(code).kind = "block" /\ I!Block(code).code = code
      /\ I!Block(code).pos = 1
  BY DEF T!Body, I!Block
<1>2. f \in TFrame /\ I!Block(code) \in IFrame
  BY FrameTypes, TFrameTypes
<1>3. /\ w \in Seq(IFrame) /\ Len(w) = Len(s) + 1 /\ Last(w) = I!Block(code) /\ w[Len(w)] = I!Block(code)
      /\ \A i \in 1 .. Len(s) : w[i] = s[i]
      /\ Len(w) \in 1 .. Len(w)
  BY <1>2, LenProperties, AppendProperties DEF Last
<1> HIDE DEF f, w
<1>4. Stands(f, w, Len(w)) /\ Width(f) = 1
  BY <1>1, <1>3 DEF Stands, Width, T!Bodies
<1>5. Matched(Append(t, f), w, TRUE)
  BY <1>1, <1>2, <1>3, <1>4, MatchPush
<1> QED BY <1>5 DEF f, w

LEMMA MatchWide ==
  ASSUME NEW t \in Seq(TFrame), NEW s \in Seq(IFrame), Matched(t, s, TRUE), NEW st \in Stmt,
         st.op \in {"call", "loop"}
  PROVE  Matched(Append(t, T!Body(st.op, st.body)), Append(Append(s, I!For(st, 0)), I!Block(st.body)), TRUE)
<1> DEFINE f == T!Body(st.op, st.body)
           v == Append(s, I!For(st, 0))
           w == Append(v, I!Block(st.body))
<1>1. f.kind = st.op /\ f.code = st.body /\ f.pos = 1 /\ I!Block(st.body).kind = "block" /\ I!Block(st.body).code = st.body
      /\ I!Block(st.body).pos = 1 /\ I!For(st, 0).kind = st.op /\ I!For(st, 0).code = st.body
  BY DEF T!Body, I!Block, I!For
<1>2. f \in TFrame /\ I!Block(st.body) \in IFrame /\ I!For(st, 0) \in IFrame
  BY FrameTypes, TFrameTypes, StmtAssumption
<1>3. /\ v \in Seq(IFrame) /\ Len(v) = Len(s) + 1 /\ v[Len(v)] = I!For(st, 0)
      /\ \A i \in 1 .. Len(s) : v[i] = s[i]
      /\ Len(s) \in Nat
  BY <1>2, LenProperties, AppendProperties
<1> HIDE DEF v
<1>4. /\ w \in Seq(IFrame) /\ Len(w) = Len(v) + 1 /\ Last(w) = I!Block(st.body) /\ w[Len(w)] = I!Block(st.body)
      /\ \A i \in 1 .. Len(v) : w[i] = v[i]
  BY <1>2, <1>3, AppendProperties DEF Last
<1> HIDE DEF f, w
<1>5. /\ Len(w) = Len(s) + 2 /\ Len(w) \in 1 .. Len(w) /\ Len(w) # 1 /\ w[Len(w) - 1] = I!For(st, 0)
      /\ \A i \in 1 .. Len(s) : w[i] = s[i]
  BY <1>3, <1>4
<1>6. Stands(f, w, Len(w)) /\ Width(f) = 2
  BY <1>1, <1>4, <1>5 DEF Stands, Width, T!Bodies
<1>7. Matched(Append(t, f), w, TRUE)
  BY <1>1, <1>2, <1>4, <1>5, <1>6, MatchPush
<1> QED BY <1>7 DEF f, v, w

LEMMA MatchAround ==
  ASSUME NEW t \in Seq(TFrame), NEW s \in Seq(IFrame), Matched(t, s, TRUE), NEW st \in Stmt, NEW n \in Nat,
         st.op \in {"try", "browse", "dont_panic"}, st.op = "try" => n = 0
  PROVE  Matched(Append(t, T!Around(st, n)), Append(s, I!For(st, n)), TRUE)
<1> DEFINE f == T!Around(st, n)
           w == Append(s, I!For(st, n))
<1>1. /\ f.kind = st.op /\ f.code = st.body /\ f.pos = n /\ f.alts = st.alts
      /\ I!For(st, n).kind = st.op /\ I!For(st, n).code = st.body /\ I!For(st, n).pos = n /\ I!For(st, n).alts = st.alts
  BY DEF T!Around, I!For
<1>2. f \in TFrame /\ I!For(st, n) \in IFrame
  BY FrameTypes, TFrameTypes
<1>3. /\ w \in Seq(IFrame) /\ Len(w) = Len(s) + 1 /\ Last(w) = I!For(st, n) /\ w[Len(w)] = I!For(st, n)
      /\ \A i \in 1 .. Len(s) : w[i] = s[i]
      /\ Len(w) \in 1 .. Len(w)
  BY <1>2, LenProperties, AppendProperties DEF Last
<1> HIDE DEF f, w
<1>4. Stands(f, w, Len(w)) /\ Width(f) = 1
  BY <1>1, <1>3 DEF Stands, Width, T!Bodies
<1>5. Matched(Append(t, f), w, TRUE)
  BY <1>1, <1>2, <1>3, <1>4, MatchPush
<1> QED BY <1>5 DEF f, w
-----------------------------------------------------------------------------
(* Where a terminate may leave the body f: it is the end of a browse's     *)
(* body or of a branch that escapes, or a statement of a loop.             *)
Loose(f, Q) == f.kind = "body" /\ ~All(f.code, Q)
Escapes(f, Q) == f.kind \in {"loop", "browse"} \/ (Loose(f, Q) /\ f.pos = Len(f.code))
Holds(f, Q, L) ==
  /\ f.kind \in {"run", "call"} => All(f.code, Q)
  /\ f.kind = "loop" => All(f.code, Q \cup L)
  /\ f.kind = "browse" => EndsIn(f.code, Q, L)
  /\ f.kind = "try" => \A i \in 1 .. Len(f.alts) : All(f.alts[i], Q)
  /\ Loose(f, Q) => EndsIn(f.code, Q, L)
Chain(t, Q, L) ==
  \A j \in 1 .. Len(t) : /\ Holds(t[j], Q, L)
                         /\ Loose(t[j], Q) => j # 1 /\ Escapes(t[j - 1], Q)

LEMMA ChainPush ==
  ASSUME NEW Q, NEW L, NEW t \in Seq(TFrame), Chain(t, Q, L), NEW f \in TFrame, Holds(f, Q, L),
         Loose(f, Q) => t # <<>> /\ Escapes(Last(t), Q)
  PROVE  Chain(Append(t, f), Q, L)
<1> DEFINE w == Append(t, f)
<1>1. /\ Len(t) \in Nat /\ Len(w) = Len(t) + 1 /\ w[Len(w)] = f
      /\ \A j \in 1 .. Len(t) : w[j] = t[j]
  BY LenProperties, AppendProperties
<1> HIDE DEF w
<1>2. ASSUME NEW j \in 1 .. Len(w)
      PROVE  Holds(w[j], Q, L) /\ (Loose(w[j], Q) => j # 1 /\ Escapes(w[j - 1], Q))
  <2>1. CASE j = Len(w)
    <3>1. t # <<>> => Len(t) # 0 /\ Last(t) = t[Len(t)]
      BY FrontLast
    <3>2. t # <<>> => j # 1 /\ w[j - 1] = Last(t)
      BY <1>1, <2>1, <3>1
    <3> QED BY <1>1, <2>1, <3>2
  <2>2. CASE j # Len(w)
    <3>1. j \in 1 .. Len(t) /\ (j # 1 => j - 1 \in 1 .. Len(t))
      BY <1>1, <2>2
    <3> QED BY <1>1, <3>1 DEF Chain
  <2> QED BY <2>1, <2>2
<1> QED BY <1>2 DEF Chain, w

LEMMA ChainPop ==
  ASSUME NEW Q, NEW L, NEW t \in Seq(TFrame), Chain(t, Q, L), t # <<>>
  PROVE  /\ Chain(Front(t), Q, L)
         /\ Holds(Last(t), Q, L)
         /\ Loose(Last(t), Q) => Front(t) # <<>> /\ Escapes(Last(Front(t)), Q)
<1>1. /\ Len(t) \in Nat /\ Len(t) # 0 /\ Last(t) = t[Len(t)] /\ Len(Front(t)) = Len(t) - 1
      /\ Front(t) \in Seq(TFrame)
      /\ \A i \in 1 .. Len(t) - 1 : Front(t)[i] = t[i]
  BY FrontLast
<1>2. ASSUME NEW j \in 1 .. Len(Front(t))
      PROVE  Holds(Front(t)[j], Q, L) /\ (Loose(Front(t)[j], Q) => j # 1 /\ Escapes(Front(t)[j - 1], Q))
  <2>1. j \in 1 .. Len(t) /\ j \in 1 .. Len(t) - 1 /\ (j # 1 => j - 1 \in 1 .. Len(t) - 1)
    BY <1>1
  <2> QED BY <1>1, <2>1 DEF Chain
<1>3. Holds(Last(t), Q, L) /\ (Loose(Last(t), Q) => Len(t) # 1 /\ Escapes(t[Len(t) - 1], Q))
  BY <1>1 DEF Chain
<1>4. Len(t) # 1 => Front(t) # <<>> /\ Last(Front(t)) = t[Len(t) - 1]
  <2>1. Len(t) # 1 => Len(Front(t)) # 0 /\ Len(t) - 1 \in 1 .. Len(t) - 1
    BY <1>1
  <2>2. Len(t) # 1 => Front(t) # <<>>
    BY <2>1, EmptySeq
  <2> QED BY <1>1, <2>1, <2>2 DEF Last
<1> QED BY <1>2, <1>3, <1>4 DEF Chain

LEMMA ChainTop ==
  ASSUME NEW Q, NEW L, NEW t \in Seq(TFrame), Chain(t, Q, L), t # <<>>,
         NEW f \in TFrame, f.kind = Last(t).kind, f.code = Last(t).code, f.alts = Last(t).alts
  PROVE  Chain(Append(Front(t), f), Q, L) /\ Holds(f, Q, L)
<1>1. /\ Chain(Front(t), Q, L) /\ Holds(Last(t), Q, L)
      /\ Loose(Last(t), Q) => Front(t) # <<>> /\ Escapes(Last(Front(t)), Q)
      /\ Front(t) \in Seq(TFrame)
  BY ChainPop, FrontLast
<1>2. Holds(f, Q, L) /\ (Loose(f, Q) => Loose(Last(t), Q))
  BY <1>1 DEF Holds, Loose
<1> QED BY <1>1, <1>2, ChainPush
-----------------------------------------------------------------------------
(* The states t, r, x of the generated program and c of the interpreter    *)
(* are at the same point.  While a terminate is on its way the program may *)
(* still be closing a block the interpreter left.                          *)
Alike(r, s) == r = s \/ (r \in Caught /\ s \in Caught)
Pending(t, r, Q) ==
  /\ t # <<>>
  /\ \/ r = "ok" /\ Escapes(Last(t), Q)
     \/ r = "none" /\ Loose(Last(t), Q) /\ Last(t).pos > Len(Last(t).code)
Sim(t, r, x, c, Q, L) ==
  /\ t \in Seq(TFrame) /\ r \in Result \cup {"none"} /\ x \in BOOLEAN /\ c \in Config
  /\ Matched(t, c.stack, ~x)
  /\ Chain(t, Q, L)
  /\ c.flag = x
  /\ x => c.ret = "ok" /\ Pending(t, r, Q)
  /\ ~x => Alike(r, c.ret)

(* What a step of the generated program does, the interpreter does in no   *)
(* step, in one or in two.                                                 *)
Same(c, Q, L) == Sim(tstack', tret', tterminate', c, Q, L)
InOne(c, Q, L) ==
  \A d, e : Goes(c, d, e) => (e = None <=> tevent' = None) /\ (e = tevent' => Same(d, Q, L))
InTwo(c, Q, L) ==
  /\ tevent' = None
  /\ \A d, e : Goes(c, d, e) =>
       /\ e = None /\ d.stack # <<>>
       /\ \A g, h : Goes(d, g, h) => h = None /\ Same(g, Q, L)
Follows(c, Q, L) == (tevent' = None /\ Same(c, Q, L)) \/ InOne(c, Q, L) \/ InTwo(c, Q, L)

Here(c, Q, L) == Sim(tstack, tret, tterminate, c, Q, L)

(* Both are about to start the same statement.                             *)
LEMMA SameStart ==
  ASSUME NEW Q, NEW L, Tame(Q, L), NEW c, Here(c, Q, L), T!Starting
  PROVE  /\ tterminate = FALSE /\ c.flag = FALSE /\ c.ret = "none" /\ tret = "none"
         /\ Matched(tstack, c.stack, TRUE) /\ Chain(tstack, Q, L)
         /\ c \in Config /\ c.stack \in Seq(IFrame) /\ tstack \in Seq(TFrame)
         /\ Starts(c) /\ First(c) = T!Current /\ T!Current \in Stmt
         /\ \A d, e : Goes(c, d, e) => Begins(c, d, e, T!Current)
         /\ T!Current \in Q \/ (T!Current \in L /\ tstack # <<>> /\ Escapes(Last(tstack), Q))
<1> DEFINE t == tstack
           f == Last(tstack)
<1>1. t # <<>> /\ tret = "none" /\ T!Top = f /\ f.kind \in T!Bodies /\ f.pos <= Len(f.code) /\ T!Current = f.code[f.pos]
  BY DEF T!Starting, T!Top, T!Current, Last
<1>2. /\ t \in Seq(TFrame) /\ c \in Config /\ Chain(t, Q, L) /\ c.stack \in Seq(IFrame) /\ f \in TFrame
      /\ tterminate \in BOOLEAN
  BY <1>1, FrontLast DEF Here, Sim, Config
<1>3. f.code \in Seq(Stmt) /\ f.pos \in Nat /\ f.pos # 0 /\ f.pos \in 1 .. Len(f.code)
  BY <1>1, <1>2 DEF TFrame, T!Frame
<1>4. ~tterminate
  BY <1>1, <1>3 DEF Here, Sim, Pending
<1>5. /\ tterminate = FALSE /\ c.flag = FALSE /\ c.ret = "none"
      /\ Matched(t, c.stack, TRUE)
  BY <1>1, <1>2, <1>4 DEF Here, Sim, Alike, Caught
<1>6. /\ c.stack # <<>> /\ Last(c.stack).code = f.code /\ Last(c.stack).kind = "block" /\ Last(c.stack).pos = f.pos
  BY <1>1, <1>2, <1>5, MatchRead DEF Stands, Last
<1> HIDE DEF f
<1>7. Starts(c) /\ First(c) = T!Current
  BY <1>1, <1>5, <1>6 DEF Starts, First
<1>8. T!Current \in Stmt
  BY <1>1, <1>3
<1>9. ASSUME NEW d, NEW e, Goes(c, d, e) PROVE Begins(c, d, e, T!Current)
  <2>1. ~Resumes(c, d, Last(c.stack))
    BY <1>1, <1>3, <1>5, <1>6 DEF Resumes
  <2> QED BY <1>7, <1>9, <2>1 DEF Goes
<1>10. T!Current \in Q \/ (T!Current \in L /\ Escapes(f, Q))
  <2>1. Holds(f, Q, L)
    BY <1>1, <1>2, ChainPop DEF f
  <2>2. CASE f.kind = "loop"
    BY <1>1, <1>3, <2>1, <2>2 DEF Holds, All, Escapes
  <2>3. CASE All(f.code, Q)
    BY <1>1, <1>3, <2>3 DEF All
  <2>4. CASE Loose(f, Q)
    BY <1>1, <1>3, <2>1, <2>4 DEF Holds, EndsIn, Escapes
  <2> QED BY <1>1, <2>1, <2>2, <2>3, <2>4 DEF Holds, Loose, T!Bodies
<1> QED BY <1>1, <1>2, <1>5, <1>7, <1>8, <1>9, <1>10 DEF f
LEMMA SimCalm ==
  ASSUME NEW Q, NEW L, NEW t \in Seq(TFrame), NEW s \in Seq(IFrame), Matched(t, s, TRUE), Chain(t, Q, L),
         NEW r \in Result \cup {"none"}, NEW y \in Result \cup {"none"}, Alike(r, y)
  PROVE  Sim(t, r, FALSE, Conf(s, y, FALSE), Q, L)
<1>1. Conf(s, y, FALSE) \in Config
  BY ConfTyped
<1>2. Conf(s, y, FALSE).stack = s /\ Conf(s, y, FALSE).ret = y /\ Conf(s, y, FALSE).flag = FALSE
  BY DEF Conf
<1> HIDE DEF Conf
<1>3. Matched(t, Conf(s, y, FALSE).stack, ~FALSE)
  BY <1>2, MatchLess
<1> QED BY <1>1, <1>2, <1>3 DEF Sim

LEMMA WorkFollows ==
  ASSUME NEW Q, NEW L, Tame(Q, L), NEW c, Here(c, Q, L), T!Work
  PROVE  Follows(c, Q, L)
<1> DEFINE s == T!Current
<1>1. T!Starting
  BY DEF T!Work
<1>2. s.op = "work" /\ tret' = "ok" /\ tevent' = Chose(s, "ok") /\ tstack' = tstack /\ tterminate' = tterminate
  BY SameNames DEF T!Work
<1>3. "ok" \in Result
  BY DEF Result
<1> HIDE DEF s
<1>4. ASSUME NEW d, NEW e, Goes(c, d, e)
      PROVE  (e = None <=> tevent' = None) /\ (e = tevent' => Same(d, Q, L))
  <2>1. Begins(c, d, e, s)
    BY <1>1, <1>4, SameStart DEF s
  <2>2. e # None /\ tevent' # None
    BY <1>2, <2>1, ChoicesNotNone DEF Begins
  <2>3. ASSUME e = tevent' PROVE Same(d, Q, L)
    <3>1. \A r \in Failures(s) : Chose(s, r) # Chose(s, "ok")
      BY ChoicesNotNone DEF Chose
    <3>2. d = Conf(c.stack, "ok", c.flag)
      BY <1>2, <2>1, <2>3, <3>1 DEF Begins
    <3>3. Sim(tstack, "ok", FALSE, Conf(c.stack, "ok", FALSE), Q, L)
      BY <1>1, <1>3, SameStart, SimCalm DEF Alike
    <3> QED BY <1>1, <1>2, <3>2, <3>3, SameStart DEF Same
  <2> QED BY <2>2, <2>3
<1> QED BY <1>4 DEF Follows, InOne

LEMMA FailFollows ==
  ASSUME NEW Q, NEW L, Tame(Q, L), NEW c, Here(c, Q, L), T!Fail
  PROVE  Follows(c, Q, L)
<1> DEFINE s == T!Current
<1>1. T!Starting
  BY DEF T!Fail
<1>2. tret' \in Failures(s) /\ tevent' = Chose(s, tret') /\ tstack' = tstack /\ tterminate' = tterminate
  BY SameNames DEF T!Fail
<1>3. tret' \in Result /\ tret' # "ok" /\ s.op \in {"panic", "exit", "work", "if", "browse", "call"}
      /\ tret' \in {"runtime", "exit", "other"}
  BY <1>2, ChoicesNotNone DEF Failures, Result, Error
<1> HIDE DEF s
<1>4. ASSUME NEW d, NEW e, Goes(c, d, e)
      PROVE  (e = None <=> tevent' = None) /\ (e = tevent' => Same(d, Q, L))
  <2>1. Begins(c, d, e, s)
    BY <1>1, <1>4, SameStart DEF s
  <2>2. e # None /\ tevent' # None
    BY <1>2, <1>3, <2>1, ChoicesNotNone DEF Begins
  <2>3. ASSUME e = tevent' PROVE Same(d, Q, L)
    <3>1. e.choice = tret'
      BY <1>2, <2>3 DEF Chose
    <3>2. \A r : Chose(s, r).choice = r
      BY DEF Chose
    <3>3. \A n : HasItems(s, n).choice = "items"
      BY DEF HasItems
    <3>4. d = Conf(c.stack, tret', c.flag)
      BY <1>3, <2>1, <2>2, <3>1, <3>2, <3>3 DEF Begins
    <3>5. Sim(tstack, tret', FALSE, Conf(c.stack, tret', FALSE), Q, L)
      BY <1>1, <1>3, SameStart, SimCalm DEF Alike
    <3> QED BY <1>1, <1>2, <3>4, <3>5, SameStart DEF Same
  <2> QED BY <2>2, <2>3
<1> QED BY <1>4 DEF Follows, InOne

LEMMA TerminateFollows ==
  ASSUME NEW Q, NEW L, Tame(Q, L), NEW c, Here(c, Q, L), T!Terminate
  PROVE  Follows(c, Q, L)
<1> DEFINE s == T!Current
           d1 == Conf(c.stack, "ok", TRUE)
<1>1. T!Starting
  BY DEF T!Terminate
<1>2. s.op = "terminate" /\ tret' = "ok" /\ tevent' = None /\ tstack' = tstack /\ tterminate' = TRUE
  BY SameNames DEF T!Terminate
<1>3. tstack # <<>> /\ Escapes(Last(tstack), Q)
  BY <1>1, <1>2, SameStart DEF Tame
<1>4. Sim(tstack, "ok", TRUE, d1, Q, L)
  <2>1. d1.stack = c.stack /\ d1.ret = "ok" /\ d1.flag = TRUE
    BY DEF Conf
  <2>2. "ok" \in Result
    BY DEF Result
  <2>3. d1 \in Config
    BY <1>1, <2>2, SameStart, ConfTyped
  <2>4. Matched(tstack, c.stack, ~TRUE)
    BY <1>1, SameStart, MatchLess
  <2> HIDE DEF d1
  <2> QED BY <1>1, <1>3, <2>1, <2>2, <2>3, <2>4, SameStart DEF Sim, Pending
<1> HIDE DEF s, d1
<1>5. ASSUME NEW d, NEW e, Goes(c, d, e)
      PROVE  (e = None <=> tevent' = None) /\ (e = tevent' => Same(d, Q, L))
  <2>1. Begins(c, d, e, s)
    BY <1>1, <1>5, SameStart DEF s
  <2>2. Failures(s) = {}
    BY <1>2 DEF Failures
  <2>3. e = None /\ d = d1
    BY <1>2, <2>1, <2>2 DEF Begins, d1
  <2> QED BY <1>2, <1>4, <2>3 DEF Same
<1> QED BY <1>5 DEF Follows, InOne

LEMMA BranchOf ==
  ASSUME NEW Q, NEW L, Tame(Q, L), NEW t \in Seq(TFrame), NEW s \in Stmt, s.op = "if",
         s \in Q \/ (s \in L /\ t # <<>> /\ Escapes(Last(t), Q)),
         NEW code, code = s.body \/ code = s.alts[1]
  PROVE  /\ code \in Seq(Stmt) /\ Holds(T!Body("body", code), Q, L)
         /\ Loose(T!Body("body", code), Q) => t # <<>> /\ Escapes(Last(t), Q)
<1> DEFINE f == T!Body("body", code)
<1>1. f.kind = "body" /\ f.code = code
  BY DEF T!Body
<1>2. s.body \in Seq(Stmt) /\ s.alts \in Seq(Seq(Stmt)) /\ 1 \in 1 .. Len(s.alts) /\ s.alts[1] \in Seq(Stmt)
  BY StmtAssumption
<1>3. s \in Q => All(code, Q)
  BY <1>2 DEF Tame
<1>4. s \in L => EndsIn(code, Q, L)
  BY DEF Tame
<1> HIDE DEF f
<1> QED BY <1>1, <1>2, <1>3, <1>4 DEF Holds, Loose, f

LEMMA IfFollows ==
  ASSUME NEW Q, NEW L, Tame(Q, L), NEW c, Here(c, Q, L), T!If
  PROVE  Follows(c, Q, L)
<1> DEFINE s == T!Current
<1>1. T!Starting
  BY DEF T!If
<1>2. /\ s.op = "if" /\ tret' = tret /\ tterminate' = tterminate
      /\ \/ tevent' = Chose(s, "then") /\ tstack' = Append(tstack, T!Body("body", s.body))
         \/ tevent' = Chose(s, "else") /\ tstack' = Append(tstack, T!Body("body", s.alts[1]))
  BY SameNames DEF T!If, T!Push
<1> HIDE DEF s
<1>3. /\ tstack \in Seq(TFrame) /\ c.stack \in Seq(IFrame) /\ Matched(tstack, c.stack, TRUE) /\ Chain(tstack, Q, L)
      /\ s \in Stmt /\ (s \in Q \/ (s \in L /\ tstack # <<>> /\ Escapes(Last(tstack), Q)))
  BY <1>1, SameStart DEF s
<1>4. ASSUME NEW code, code = s.body \/ code = s.alts[1]
      PROVE  Sim(Append(tstack, T!Body("body", code)), "none", FALSE, Conf(Append(c.stack, I!Block(code)), "none", FALSE), Q, L)
  <2>1. /\ code \in Seq(Stmt) /\ Holds(T!Body("body", code), Q, L)
        /\ Loose(T!Body("body", code), Q) => tstack # <<>> /\ Escapes(Last(tstack), Q)
    BY <1>3, <1>2, <1>4, BranchOf
  <2>2. T!Body("body", code) \in TFrame /\ I!Block(code) \in IFrame
    BY <2>1, FrameTypes, TFrameTypes
  <2>3. Append(tstack, T!Body("body", code)) \in Seq(TFrame) /\ Append(c.stack, I!Block(code)) \in Seq(IFrame)
    BY <1>3, <2>2
  <2>4. Matched(Append(tstack, T!Body("body", code)), Append(c.stack, I!Block(code)), TRUE)
    BY <1>3, <2>1, MatchBody
  <2>5. Chain(Append(tstack, T!Body("body", code)), Q, L)
    BY <1>3, <2>1, <2>2, ChainPush
  <2> QED BY <2>3, <2>4, <2>5, SimCalm DEF Alike
<1>5. ASSUME NEW d, NEW e, Goes(c, d, e)
      PROVE  (e = None <=> tevent' = None) /\ (e = tevent' => Same(d, Q, L))
  <2>1. Begins(c, d, e, s)
    BY <1>1, <1>5, SameStart DEF s
  <2>2. e # None /\ tevent' # None
    BY <1>2, <2>1, ChoicesNotNone DEF Begins
  <2>3. ASSUME e = tevent' PROVE Same(d, Q, L)
    <3>1. \A r : Chose(s, r).choice = r
      BY DEF Chose
    <3>2. Failures(s) = {"runtime", "other"} /\ c.ret = "none" /\ c.flag = FALSE /\ tret = "none" /\ tterminate = FALSE
      BY <1>1, <1>2, SameStart DEF Failures
    <3>3. CASE tevent' = Chose(s, "then") /\ tstack' = Append(tstack, T!Body("body", s.body))
      <4>1. d = Conf(Append(c.stack, I!Block(s.body)), "none", FALSE)
        BY <1>2, <2>1, <2>3, <3>1, <3>2, <3>3 DEF Begins
      <4> QED BY <1>2, <1>4, <3>2, <3>3, <4>1 DEF Same
    <3>4. CASE tevent' = Chose(s, "else") /\ tstack' = Append(tstack, T!Body("body", s.alts[1]))
      <4>1. d = Conf(Append(c.stack, I!Block(s.alts[1])), "none", FALSE)
        BY <1>2, <2>1, <2>3, <3>1, <3>2, <3>4 DEF Begins
      <4> QED BY <1>2, <1>4, <3>2, <3>4, <4>1 DEF Same
    <3> QED BY <1>2, <3>3, <3>4
  <2> QED BY <2>2, <2>3
<1> QED BY <1>5 DEF Follows, InOne
LEMMA ClosureFollows ==
  ASSUME NEW Q, NEW L, Tame(Q, L), NEW c, Here(c, Q, L), T!EnterClosure
  PROVE  Follows(c, Q, L)
<1> DEFINE s == T!Current
           a == T!Around(s, 0)
           b == T!Body("body", s.body)
           t1 == Append(tstack, a)
           t2 == Append(t1, b)
           s1 == Append(c.stack, I!For(s, 0))
           s2 == Append(s1, I!Block(s.body))
<1>1. T!Starting
  BY DEF T!EnterClosure
<1>2. /\ s.op \in {"try", "dont_panic"} /\ tret' = tret /\ tterminate' = tterminate
      /\ tevent' = None /\ tstack' = t2
  BY SameNames DEF T!EnterClosure, T!Push
<1>3. /\ tstack \in Seq(TFrame) /\ c.stack \in Seq(IFrame) /\ Matched(tstack, c.stack, TRUE) /\ Chain(tstack, Q, L)
      /\ s \in Stmt /\ s \in Q
  BY <1>1, <1>2, SameStart DEF Tame
<1>4. /\ s.body \in Seq(Stmt) /\ All(s.body, Q)
      /\ \A i \in 1 .. Len(s.alts) : All(s.alts[i], Q)
  BY <1>2, <1>3, StmtAssumption DEF Tame
<1>5. /\ a \in TFrame /\ a.kind = s.op /\ a.alts = s.alts
      /\ b \in TFrame /\ b.kind = "body" /\ b.code = s.body
      /\ I!For(s, 0) \in IFrame /\ I!Block(s.body) \in IFrame
  BY <1>2, <1>3, <1>4, FrameTypes, TFrameTypes DEF T!Around, T!Body
<1> HIDE DEF s
<1>6. Matched(t1, s1, TRUE)
  BY <1>2, <1>3, MatchAround
<1> HIDE DEF a, b
<1>7. t1 \in Seq(TFrame) /\ s1 \in Seq(IFrame)
  BY <1>3, <1>5
<1>8. Chain(t1, Q, L)
  <2>1. Holds(a, Q, L) /\ ~Loose(a, Q)
    BY <1>2, <1>4, <1>5 DEF Holds, Loose
  <2> QED BY <1>3, <1>5, <2>1, ChainPush
<1> HIDE DEF t1, s1
<1>9. Matched(t2, s2, TRUE)
  BY <1>4, <1>6, <1>7, MatchBody DEF b
<1>10. t2 \in Seq(TFrame) /\ s2 \in Seq(IFrame)
  BY <1>5, <1>7
<1>11. Chain(t2, Q, L)
  <2>1. Holds(b, Q, L) /\ ~Loose(b, Q)
    BY <1>4, <1>5 DEF Holds, Loose
  <2> QED BY <1>5, <1>7, <1>8, <2>1, ChainPush
<1> HIDE DEF t2, s2
<1>12. Sim(t2, "none", FALSE, Conf(s2, "none", FALSE), Q, L)
  BY <1>9, <1>10, <1>11, SimCalm DEF Alike
<1>13. ASSUME NEW d, NEW e, Goes(c, d, e)
       PROVE  (e = None <=> tevent' = None) /\ (e = tevent' => Same(d, Q, L))
  <2>1. /\ Begins(c, d, e, s)
        /\ c.ret = "none" /\ c.flag = FALSE /\ tret = "none" /\ tterminate = FALSE
    BY <1>1, <1>13, SameStart DEF s
  <2>2. Failures(s) = {}
    BY <1>2 DEF Failures
  <2>3. e = None /\ d = Conf(s2, "none", FALSE)
    BY <1>2, <2>1, <2>2 DEF Begins, s1, s2
  <2> QED BY <1>2, <1>12, <2>1, <2>3 DEF Same
<1> QED BY <1>13 DEF Follows, InOne

(* Entering a procedure or a loop.                                         *)
LEMMA WideEntered ==
  ASSUME NEW Q, NEW L, Tame(Q, L), NEW c, Here(c, Q, L), T!Starting, T!Current.op \in {"call", "loop"}
  PROVE  Sim(Append(tstack, T!Body(T!Current.op, T!Current.body)), "none", FALSE,
             Conf(Append(Append(c.stack, I!For(T!Current, 0)), I!Block(T!Current.body)), "none", FALSE), Q, L)
<1> DEFINE s == T!Current
           b == T!Body(s.op, s.body)
           t2 == Append(tstack, b)
           s1 == Append(c.stack, I!For(s, 0))
           s2 == Append(s1, I!Block(s.body))
<1>1. /\ tstack \in Seq(TFrame) /\ c.stack \in Seq(IFrame) /\ Matched(tstack, c.stack, TRUE) /\ Chain(tstack, Q, L)
      /\ s \in Stmt /\ s \in Q
  BY SameStart DEF Tame
<1>2. /\ s.body \in Seq(Stmt)
      /\ s.op = "call" => All(s.body, Q)
      /\ s.op = "loop" => All(s.body, Q \cup L)
  BY <1>1, StmtAssumption DEF Tame
<1>3. /\ b \in TFrame /\ b.kind = s.op /\ b.code = s.body
      /\ I!For(s, 0) \in IFrame /\ I!Block(s.body) \in IFrame
  BY <1>1, <1>2, FrameTypes, TFrameTypes DEF T!Body
<1>4. s.op \in {"call", "loop"}
  OBVIOUS
<1> HIDE DEF s
<1>5. Matched(t2, s2, TRUE)
  BY <1>1, <1>4, MatchWide
<1> HIDE DEF b
<1>6. t2 \in Seq(TFrame) /\ s1 \in Seq(IFrame)
  BY <1>1, <1>3
<1> HIDE DEF s1
<1>7. s2 \in Seq(IFrame)
  BY <1>3, <1>6
<1>8. Holds(b, Q, L) /\ ~Loose(b, Q)
  BY <1>2, <1>3, <1>4 DEF Holds, Loose
<1>9. Chain(t2, Q, L)
  BY <1>1, <1>3, <1>8, ChainPush
<1> HIDE DEF t2, s2
<1>10. Sim(t2, "none", FALSE, Conf(s2, "none", FALSE), Q, L)
  BY <1>5, <1>6, <1>7, <1>9, SimCalm DEF Alike
<1> QED BY <1>10 DEF s, b, t2, s1, s2

LEMMA CallFollows ==
  ASSUME NEW Q, NEW L, Tame(Q, L), NEW c, Here(c, Q, L), T!Call
  PROVE  Follows(c, Q, L)
<1> DEFINE s == T!Current
           s2 == Append(Append(c.stack, I!For(s, 0)), I!Block(s.body))
<1>1. T!Starting
  BY DEF T!Call
<1>2. /\ s.op = "call" /\ tret' = tret /\ tterminate' = tterminate
      /\ tevent' = Chose(s, "call") /\ tstack' = Append(tstack, T!Body(s.op, s.body))
  BY SameNames DEF T!Call, T!Push
<1>3. Sim(Append(tstack, T!Body(s.op, s.body)), "none", FALSE, Conf(s2, "none", FALSE), Q, L)
  BY <1>1, <1>2, WideEntered
<1> HIDE DEF s, s2
<1>4. ASSUME NEW d, NEW e, Goes(c, d, e)
      PROVE  (e = None <=> tevent' = None) /\ (e = tevent' => Same(d, Q, L))
  <2>1. /\ Begins(c, d, e, s)
        /\ c.ret = "none" /\ c.flag = FALSE /\ tret = "none" /\ tterminate = FALSE
    BY <1>1, <1>4, SameStart DEF s
  <2>2. e # None /\ tevent' # None
    BY <1>2, <2>1, ChoicesNotNone DEF Begins
  <2>3. ASSUME e = tevent' PROVE Same(d, Q, L)
    <3>1. \A r : Chose(s, r).choice = r
      BY DEF Chose
    <3>2. Failures(s) = {"runtime", "other"}
      BY <1>2 DEF Failures
    <3>3. d = Conf(s2, "none", FALSE)
      BY <1>2, <2>1, <2>3, <3>1, <3>2 DEF Begins, s2
    <3> QED BY <1>2, <1>3, <2>1, <3>3 DEF Same
  <2> QED BY <2>2, <2>3
<1> QED BY <1>4 DEF Follows, InOne

LEMMA LoopFollows ==
  ASSUME NEW Q, NEW L, Tame(Q, L), NEW c, Here(c, Q, L), T!EnterLoop
  PROVE  Follows(c, Q, L)
<1> DEFINE s == T!Current
           s2 == Append(Append(c.stack, I!For(s, 0)), I!Block(s.body))
<1>1. T!Starting
  BY DEF T!EnterLoop
<1>2. c.ret = "none" /\ c.flag = FALSE /\ tret = "none" /\ tterminate = FALSE
  BY <1>1, SameStart
<1>3. /\ s.op = "loop" /\ tret' = tret /\ tterminate' = FALSE
      /\ tevent' = None /\ tstack' = Append(tstack, T!Body(s.op, s.body))
  BY <1>2, SameNames DEF T!EnterLoop, T!Push
<1>4. Sim(Append(tstack, T!Body(s.op, s.body)), "none", FALSE, Conf(s2, "none", FALSE), Q, L)
  BY <1>1, <1>3, WideEntered
<1> HIDE DEF s, s2
<1>5. ASSUME NEW d, NEW e, Goes(c, d, e)
      PROVE  (e = None <=> tevent' = None) /\ (e = tevent' => Same(d, Q, L))
  <2>1. Begins(c, d, e, s)
    BY <1>1, <1>5, SameStart DEF s
  <2>2. Failures(s) = {}
    BY <1>3 DEF Failures
  <2>3. e = None /\ d = Conf(s2, "none", FALSE)
    BY <1>2, <1>3, <2>1, <2>2 DEF Begins, s2
  <2> QED BY <1>2, <1>3, <1>4, <2>3 DEF Same
<1> QED BY <1>5 DEF Follows, InOne
LEMMA BrowseFollows ==
  ASSUME NEW Q, NEW L, Tame(Q, L), NEW c, Here(c, Q, L), T!EnterBrowse
  PROVE  Follows(c, Q, L)
<1> DEFINE s == T!Current
           t2(n) == Append(Append(tstack, T!Around(s, n - 1)), T!Body("body", s.body))
           s2(n) == Append(Append(c.stack, I!For(s, n - 1)), I!Block(s.body))
<1>1. T!Starting
  BY DEF T!EnterBrowse
<1>2. /\ c.ret = "none" /\ c.flag = FALSE /\ tret = "none" /\ tterminate = FALSE
      /\ tstack \in Seq(TFrame) /\ c.stack \in Seq(IFrame) /\ Matched(tstack, c.stack, TRUE) /\ Chain(tstack, Q, L)
      /\ s \in Stmt
  BY <1>1, SameStart
<1>3. /\ s.op = "browse" /\ tterminate' = FALSE
      /\ \/ tevent' = Chose(s, "empty") /\ tret' = "ok" /\ tstack' = tstack
         \/ \E n \in 1 .. MaxItems : tstack' = t2(n) /\ tevent' = HasItems(s, n) /\ tret' = "none"
  BY <1>2, SameNames DEF T!EnterBrowse, T!Push
<1>4. s \in Q /\ s.body \in Seq(Stmt) /\ EndsIn(s.body, Q, L)
  BY <1>1, <1>2, <1>3, SameStart, StmtAssumption DEF Tame
<1> HIDE DEF s
<1>5. ASSUME NEW n \in 1 .. MaxItems
      PROVE  Sim(t2(n), "none", FALSE, Conf(s2(n), "none", FALSE), Q, L)
  <2> DEFINE a == T!Around(s, n - 1)
             b == T!Body("body", s.body)
             ta == Append(tstack, a)
             tb == Append(ta, b)
             sa == Append(c.stack, I!For(s, n - 1))
             sb == Append(sa, I!Block(s.body))
  <2>1. n - 1 \in Nat
    BY BoundAssumption
  <2>2. /\ a \in TFrame /\ a.kind = "browse" /\ a.code = s.body
        /\ b \in TFrame /\ b.kind = "body" /\ b.code = s.body
        /\ I!For(s, n - 1) \in IFrame /\ I!Block(s.body) \in IFrame
    BY <1>2, <1>3, <1>4, <2>1, FrameTypes, TFrameTypes DEF T!Around, T!Body
  <2>3. Matched(ta, sa, TRUE)
    BY <1>2, <1>3, <2>1, MatchAround
  <2> HIDE DEF a, b
  <2>4. ta \in Seq(TFrame) /\ sa \in Seq(IFrame) /\ ta # <<>> /\ Last(ta) = a
    BY <1>2, <2>2 DEF Last
  <2>5. Chain(ta, Q, L)
    <3>1. Holds(a, Q, L) /\ ~Loose(a, Q)
      BY <1>4, <2>2 DEF Holds, Loose
    <3> QED BY <1>2, <2>2, <3>1, ChainPush
  <2> HIDE DEF ta, sa
  <2>6. Matched(tb, sb, TRUE)
    BY <1>4, <2>3, <2>4, MatchBody DEF b
  <2>7. tb \in Seq(TFrame) /\ sb \in Seq(IFrame)
    BY <2>2, <2>4
  <2>8. Chain(tb, Q, L)
    <3>1. Holds(b, Q, L) /\ Escapes(a, Q)
      BY <1>4, <2>2 DEF Holds, Loose, Escapes
    <3> QED BY <2>2, <2>4, <2>5, <3>1, ChainPush
  <2> HIDE DEF tb, sb
  <2>9. Sim(tb, "none", FALSE, Conf(sb, "none", FALSE), Q, L)
    BY <2>6, <2>7, <2>8, SimCalm DEF Alike
  <2> QED BY <2>9 DEF a, b, ta, tb, sa, sb
<1>6. Sim(tstack, "ok", FALSE, Conf(c.stack, "ok", FALSE), Q, L)
  <2>1. "ok" \in Result
    BY DEF Result
  <2> QED BY <1>2, <2>1, SimCalm DEF Alike
<1>7. ASSUME NEW d, NEW e, Goes(c, d, e)
      PROVE  (e = None <=> tevent' = None) /\ (e = tevent' => Same(d, Q, L))
  <2>1. Begins(c, d, e, s)
    BY <1>1, <1>7, SameStart DEF s
  <2>2. e # None /\ tevent' # None
    BY <1>3, <2>1, ChoicesNotNone DEF Begins
  <2>3. ASSUME e = tevent' PROVE Same(d, Q, L)
    <3>1. /\ \A r : Chose(s, r).choice = r /\ Chose(s, r).items = 0
          /\ \A n : HasItems(s, n).choice = "items" /\ HasItems(s, n).items = n
      BY DEF Chose, HasItems
    <3>2. Failures(s) = {"runtime", "other"}
      BY <1>3 DEF Failures
    <3>3. CASE tevent' = Chose(s, "empty") /\ tret' = "ok" /\ tstack' = tstack
      <4>1. d = Conf(c.stack, "ok", FALSE)
        <5>1. /\ \A x : Chose(s, "empty") = Chose(s, x) => x = "empty"
              /\ \A n : Chose(s, "empty") # HasItems(s, n)
              /\ Chose(s, "empty") # None
          BY DEF Chose, HasItems, None
        <5>2. e = Chose(s, "empty") /\ s.op = "browse"
          BY <1>3, <2>3, <3>3
        <5>3. \A r \in Failures(s) : e # Chose(s, r)
          BY <3>2, <5>1, <5>2
        <5> QED BY <2>1, <5>1, <5>2, <5>3 DEF Begins
      <4> QED BY <1>3, <1>6, <3>3, <4>1 DEF Same
    <3>4. ASSUME NEW n \in 1 .. MaxItems, tstack' = t2(n), tevent' = HasItems(s, n), tret' = "none"
          PROVE  Same(d, Q, L)
      <4> HIDE DEF t2
      <4>1. /\ \A x : HasItems(s, n) # Chose(s, x)
            /\ \A k : HasItems(s, n) = HasItems(s, k) => n = k
            /\ HasItems(s, n) # None
        <5>1. n \in Int /\ n # 0
          BY BoundAssumption
        <5> QED BY <5>1 DEF HasItems, Chose, None
      <4>2. d = Conf(s2(n), "none", FALSE)
        <5>1. e = HasItems(s, n)
          BY <2>3, <3>4
        <5>2. s.op = "browse" /\ c.ret = "none" /\ c.flag = FALSE
          BY <1>2, <1>3
        <5>3. \E k \in 1 .. MaxItems : d = Conf(Append(Append(c.stack, I!For(s, k - 1)), I!Block(s.body)), c.ret, c.flag) /\ e = HasItems(s, k)
          BY <2>1, <4>1, <5>1, <5>2 DEF Begins
        <5>4. PICK k \in 1 .. MaxItems : d = Conf(Append(Append(c.stack, I!For(s, k - 1)), I!Block(s.body)), c.ret, c.flag) /\ e = HasItems(s, k)
          BY <5>3
        <5>5. k = n
          BY <4>1, <5>1, <5>4
        <5> QED BY <5>2, <5>4, <5>5
      <4> QED BY <1>3, <1>5, <3>4, <4>2 DEF Same
    <3> QED BY <1>3, <3>3, <3>4
  <2> QED BY <2>2, <2>3
<1> QED BY <1>7 DEF Follows, InOne
-----------------------------------------------------------------------------
(* What is on top of both stacks, and what is below.                       *)
LEMMA OnTop ==
  ASSUME NEW Q, NEW L, NEW c, Here(c, Q, L), tstack # <<>>,
         NEW f, f = Last(tstack), NEW g, g = Last(c.stack)
  PROVE  /\ tstack \in Seq(TFrame) /\ f \in TFrame /\ T!Top = f /\ T!Pop = Front(tstack) /\ Front(tstack) \in Seq(TFrame)
         /\ tret \in Result \cup {"none"} /\ tterminate \in BOOLEAN
         /\ c.stack \in Seq(IFrame) /\ c.stack # <<>> /\ g \in IFrame /\ Front(c.stack) \in Seq(IFrame)
         /\ c.ret \in Result \cup {"none"} /\ c.flag = tterminate
         /\ Matched(tstack, c.stack, ~tterminate) /\ Stands(f, c.stack, Len(c.stack))
         /\ g.code = f.code
         /\ f.kind \in T!Bodies => g.kind = "block"
         /\ f.kind \notin T!Bodies => g.kind = f.kind /\ g.alts = f.alts
         /\ f.kind = "try" /\ f.pos # 0 => g.saved \in Caught
         /\ tterminate => c.ret = "ok" /\ Pending(tstack, tret, Q)
         /\ ~tterminate => g.pos = f.pos /\ Alike(tret, c.ret)
         /\ Chain(tstack, Q, L) /\ Chain(Front(tstack), Q, L) /\ Holds(f, Q, L)
         /\ Loose(f, Q) => Front(tstack) # <<>> /\ Escapes(Last(Front(tstack)), Q)
<1> USE DEF Here, Sim
<1>1. /\ tstack \in Seq(TFrame) /\ c \in Config /\ Matched(tstack, c.stack, ~tterminate) /\ Chain(tstack, Q, L)
      /\ tret \in Result \cup {"none"} /\ tterminate \in BOOLEAN /\ c.flag = tterminate
      /\ tterminate => c.ret = "ok" /\ Pending(tstack, tret, Q)
      /\ ~tterminate => Alike(tret, c.ret)
  OBVIOUS
<1>2. c.stack \in Seq(IFrame) /\ c.ret \in Result \cup {"none"}
  BY <1>1 DEF Config
<1>3. T!Top = f /\ T!Pop = Front(tstack) /\ f \in TFrame /\ Front(tstack) \in Seq(TFrame)
  BY <1>1, FrontLast DEF T!Top, T!Pop, Last, Front
<1>4. /\ c.stack # <<>> /\ Stands(f, c.stack, Len(c.stack))
      /\ ~tterminate => g.pos = f.pos
  BY <1>1, <1>2, MatchRead
<1>5. g = c.stack[Len(c.stack)] /\ g \in IFrame /\ Front(c.stack) \in Seq(IFrame)
  BY <1>2, <1>4, FrontLast
<1>6. /\ g.code = f.code
      /\ f.kind \in T!Bodies => g.kind = "block"
      /\ f.kind \notin T!Bodies => g.kind = f.kind /\ g.alts = f.alts
      /\ f.kind = "try" /\ f.pos # 0 => g.saved \in Caught
  BY <1>4, <1>5 DEF Stands
<1>7. /\ Chain(Front(tstack), Q, L) /\ Holds(f, Q, L)
      /\ Loose(f, Q) => Front(tstack) # <<>> /\ Escapes(Last(Front(tstack)), Q)
  BY <1>1, ChainPop
<1> QED BY <1>1, <1>2, <1>3, <1>4, <1>5, <1>6, <1>7

LEMMA MatchBelow ==
  ASSUME NEW t \in Seq(TFrame), NEW s \in Seq(IFrame), NEW x, Matched(t, s, x), t # <<>>
  PROVE  /\ Last(t).kind \notin {"call", "loop"} => Matched(Front(t), Front(s), TRUE)
         /\ Last(t).kind \in {"call", "loop"} =>
              /\ Front(s) # <<>> /\ Last(Front(s)).kind = Last(t).kind /\ Last(Front(s)).code = Last(t).code
              /\ Last(Front(s)) \in IFrame /\ Front(Front(s)) \in Seq(IFrame)
              /\ Matched(Front(t), Front(Front(s)), TRUE)
              /\ Front(s) = Append(Front(Front(s)), Last(Front(s)))
<1> DEFINE u == SubSeq(s, 1, Len(s) - Width(Last(t)))
<1>1. Matched(Front(t), u, TRUE)
  BY MatchPop
<1>2. s # <<>> /\ Len(s) \in Nat /\ Stands(Last(t), s, Len(s)) /\ Len(s) - Width(Last(t)) \in Nat
  BY MatchRead, LenProperties
<1>3. /\ Front(s) \in Seq(IFrame) /\ Len(Front(s)) = Len(s) - 1
      /\ \A i \in 1 .. Len(s) - 1 : Front(s)[i] = s[i]
  BY <1>2, FrontLast
<1>4. CASE Last(t).kind \notin {"call", "loop"}
  <2>1. u = Front(s)
    BY <1>4 DEF Width, Front
  <2> QED BY <1>1, <1>4, <2>1
<1>5. CASE Last(t).kind \in {"call", "loop"}
  <2>1. Len(s) - 2 \in Nat /\ u = SubSeq(s, 1, Len(s) - 2)
    BY <1>2, <1>5 DEF Width
  <2>2. Front(s) # <<>> /\ Last(Front(s)) = s[Len(s) - 1]
    <3>1. Len(Front(s)) # 0 /\ Len(Front(s)) \in 1 .. Len(s) - 1
      <4>1. \A n \in Nat : n - 2 \in Nat => n - 1 # 0 /\ n - 1 \in 1 .. n - 1
        OBVIOUS
      <4> QED BY <1>2, <1>3, <2>1, <4>1
    <3> QED BY <1>3, <3>1, EmptySeq DEF Last
  <2>3. /\ Front(Front(s)) \in Seq(IFrame) /\ Len(Front(Front(s))) = Len(s) - 2 /\ Last(Front(s)) \in IFrame
        /\ \A i \in 1 .. Len(Front(s)) - 1 : Front(Front(s))[i] = Front(s)[i]
        /\ Front(s) = Append(Front(Front(s)), Last(Front(s)))
    <3>1. /\ Front(Front(s)) \in Seq(IFrame) /\ Len(Front(Front(s))) = Len(Front(s)) - 1 /\ Last(Front(s)) \in IFrame
          /\ \A i \in 1 .. Len(Front(s)) - 1 : Front(Front(s))[i] = Front(s)[i]
          /\ Front(s) = Append(Front(Front(s)), Last(Front(s)))
      BY <1>3, <2>2, FrontLast
    <3> QED BY <1>2, <1>3, <3>1
  <2>4. Front(Front(s)) = u
    <3> DEFINE n == Len(s) - 2
               w == Front(Front(s))
    <3>1. n \in Nat /\ n <= Len(s) /\ u = SubSeq(s, 1, n) /\ Len(w) = n /\ w \in Seq(IFrame)
      BY <1>2, <2>1, <2>3
    <3>2. \A i \in 1 .. n : w[i] = s[i]
      <4> TAKE i \in 1 .. n
      <4>1. i \in 1 .. Len(s) - 1 /\ i \in 1 .. Len(Front(s)) - 1
        BY <1>2, <1>3, <2>1
      <4> QED BY <1>3, <2>3, <4>1
    <3> HIDE DEF n, w, u
    <3>3. SubSeq(s, 1, n) \in Seq(IFrame) /\ Len(SubSeq(s, 1, n)) = n /\ \A i \in 1 .. n : SubSeq(s, 1, n)[i] = s[i]
      BY <3>1, Beginning
    <3>4. w = SubSeq(s, 1, n)
      BY <3>1, <3>2, <3>3, SeqEqual
    <3> QED BY <3>1, <3>4 DEF w
  <2>5. s[Len(s) - 1].kind = Last(t).kind /\ s[Len(s) - 1].code = Last(t).code
    BY <1>2, <1>5 DEF Stands
  <2> QED BY <1>1, <1>5, <2>2, <2>3, <2>4, <2>5
<1> QED BY <1>4, <1>5
-----------------------------------------------------------------------------
(* What the interpreter does next, by the frame on top.                    *)
Asked(s) == Conf(s, "ok", TRUE)
Quiet(s, r) == Conf(s, r, FALSE)
At(f, p) == [f EXCEPT !.pos = p]

LEMMA PassesRequest ==
  ASSUME NEW s, s # <<>>, NEW d, NEW e, Goes(Asked(s), d, e)
  PROVE  /\ e = None
         /\ Last(s).kind = "block" => d = Asked(Front(s))
         /\ Last(s).kind \in {"loop", "browse"} => d = Quiet(Front(s), "ok")
<1> DEFINE c == Asked(s)
           g == Last(s)
<1>1. c.stack = s /\ c.ret = "ok" /\ c.flag = TRUE
  BY DEF Conf, Asked
<1> HIDE DEF c
<1>2. Resumes(c, d, g) /\ e = None
  BY <1>1 DEF Goes, Starts, c
<1> QED BY <1>1, <1>2 DEF Resumes, Back, Again, Asked, Quiet

LEMMA PassesOk ==
  ASSUME NEW s, s # <<>>, Last(s) \in IFrame, NEW d, NEW e, Goes(Quiet(s, "ok"), d, e)
  PROVE  /\ e = None
         /\ Last(s).kind = "block" => d = Quiet(Append(Front(s), At(Last(s), Last(s).pos + 1)), "none")
         /\ Last(s).kind \in {"call", "dont_panic", "try"} => d = Quiet(Front(s), "ok")
         /\ Last(s).kind = "loop" => d = Quiet(Append(Append(Front(s), Last(s)), I!Block(Last(s).code)), "none")
         /\ Last(s).kind = "browse" /\ Last(s).pos = 0 => d = Quiet(Front(s), "ok")
         /\ Last(s).kind = "browse" /\ Last(s).pos # 0
              => d = Quiet(Append(Append(Front(s), At(Last(s), Last(s).pos - 1)), I!Block(Last(s).code)), "none")
<1> DEFINE c == Quiet(s, "ok")
           g == Last(s)
<1>1. c.stack = s /\ c.ret = "ok" /\ c.flag = FALSE
  BY DEF Conf, Quiet
<1> HIDE DEF c
<1>2. Resumes(c, d, g) /\ e = None
  BY <1>1 DEF Goes, Starts, c
<1>3. g.pos \in Nat
  BY DEF IFrame, I!Frame
<1> HIDE DEF g
<1>4. CASE g.kind \in {"block", "call", "dont_panic", "try", "loop"}
  BY <1>1, <1>2, <1>4 DEF Resumes, Back, Again, g, Quiet, At
<1>5. CASE g.kind = "browse"
  <2>1. \/ g.pos > 0 /\ d = Again(c, At(g, g.pos - 1), g.code)
        \/ g.pos = 0 /\ d = Back(c, "ok", FALSE)
    BY <1>1, <1>2, <1>3, <1>5 DEF Resumes, At
  <2>2. /\ \A x, code : Again(c, x, code) = Quiet(Append(Append(Front(s), x), I!Block(code)), "none")
        /\ \A r : Back(c, r, FALSE) = Quiet(Front(s), r)
    BY <1>1 DEF Again, Back, Quiet
  <2>3. g.pos > 0 <=> g.pos # 0
    BY <1>3
  <2> QED BY <1>2, <1>5, <2>1, <2>2, <2>3 DEF g
<1>6. g.kind \in {"block", "browse", "call", "try", "loop", "dont_panic"}
  BY DEF IFrame, I!Frame, g
<1> QED BY <1>4, <1>5, <1>6

LEMMA PassesError ==
  ASSUME NEW s, s # <<>>, Last(s) \in IFrame, NEW r \in Error, NEW d, NEW e, Goes(Quiet(s, r), d, e)
  PROVE  /\ e = None
         /\ Last(s).kind \in {"block", "call", "browse", "loop"} => d = Quiet(Front(s), r)
         /\ Last(s).kind = "dont_panic" => d = Quiet(Front(s), "ok")
         /\ Last(s).kind = "try" /\ r = "exit" => d = Quiet(Front(s), r)
<1> DEFINE c == Quiet(s, r)
           g == Last(s)
<1>1. c.stack = s /\ c.ret = r /\ c.flag = FALSE /\ r # "none" /\ r # "ok"
  BY DEF Conf, Quiet, Error
<1> HIDE DEF c
<1>2. Resumes(c, d, g) /\ e = None
  BY <1>1 DEF Goes, Starts, c
<1> QED BY <1>1, <1>2 DEF Resumes, Back, Again, Quiet

Fault(r, g) == IF g.pos = 0 THEN r ELSE g.saved
Retry(g, o) == [g EXCEPT !.pos = @ + 1, !.saved = o]

LEMMA PassesCaught ==
  ASSUME NEW s, s # <<>>, Last(s) \in IFrame, Last(s).kind = "try", NEW r, r \in Caught,
         NEW d, NEW e, Goes(Quiet(s, r), d, e)
  PROVE  /\ e = None
         /\ Last(s).pos < Len(Last(s).alts)
              => d = Quiet(Append(Append(Front(s), Retry(Last(s), Fault(r, Last(s)))), I!Block(Last(s).alts[Last(s).pos + 1])), "none")
         /\ ~(Last(s).pos < Len(Last(s).alts)) => d = Quiet(Front(s), Fault(r, Last(s)))
<1> DEFINE c == Quiet(s, r)
           g == Last(s)
           o == Fault(r, g)
<1>1. c.stack = s /\ c.ret = r /\ c.flag = FALSE /\ r # "none" /\ r # "ok" /\ r # "exit" /\ r \in {"runtime", "other"}
  BY DEF Conf, Quiet, Caught
<1>2. o = Original(c, g)
  BY <1>1 DEF Original, Fault
<1> HIDE DEF c
<1>3. Resumes(c, d, g) /\ e = None
  BY <1>1 DEF Goes, Starts, c
<1>4. g.pos \in Nat /\ Len(g.alts) \in Nat
  BY DEF IFrame, I!Frame
<1> HIDE DEF g, o
<1>5. \/ g.pos < Len(g.alts) /\ d = Again(c, Retry(g, o), g.alts[g.pos + 1])
      \/ g.pos >= Len(g.alts) /\ d = Back(c, o, c.flag)
  BY <1>1, <1>2, <1>3 DEF Resumes, g, Retry
<1>6. /\ \A x, code : Again(c, x, code) = Quiet(Append(Append(Front(s), x), I!Block(code)), "none")
      /\ \A y : Back(c, y, c.flag) = Quiet(Front(s), y)
  BY <1>1 DEF Again, Back, Quiet
<1>7. g.pos < Len(g.alts) <=> ~(g.pos >= Len(g.alts))
  BY <1>4
<1> QED BY <1>3, <1>5, <1>6, <1>7 DEF g, o

LEMMA PassesEnd ==
  ASSUME NEW s, s # <<>>, NEW g \in IFrame, g = Last(s), g.kind = "block", g.pos > Len(g.code),
         NEW d, NEW e, Goes(Quiet(s, "none"), d, e)
  PROVE  e = None /\ d = Quiet(Front(s), "ok")
<1> DEFINE c == Quiet(s, "none")
<1>1. c.stack = s /\ c.ret = "none" /\ c.flag = FALSE
  BY DEF Conf, Quiet
<1> HIDE DEF c
<1>2. g.pos \in Nat /\ Len(g.code) \in Nat
  BY DEF IFrame, I!Frame
<1>3. ~Starts(c)
  BY <1>1, <1>2 DEF Starts
<1>4. Resumes(c, d, g) /\ e = None
  BY <1>1, <1>3 DEF Goes, c
<1> QED BY <1>1, <1>4 DEF Resumes, Back, Quiet

LEMMA AppendLast ==
  ASSUME NEW S, NEW s \in Seq(S), NEW a \in S
  PROVE  Append(s, a) \in Seq(S) /\ Append(s, a) # <<>> /\ Last(Append(s, a)) = a /\ Front(Append(s, a)) = s
<1>1. /\ Append(s, a) \in Seq(S) /\ Len(Append(s, a)) = Len(s) + 1 /\ Append(s, a)[Len(s) + 1] = a /\ Len(s) \in Nat
      /\ \A i \in 1 .. Len(s) : Append(s, a)[i] = s[i]
  BY AppendProperties, LenProperties
<1>2. Append(s, a) # <<>> /\ Last(Append(s, a)) = a
  BY <1>1, EmptySeq DEF Last
<1> DEFINE w == Append(s, a)
<1> HIDE DEF w
<1>3. Front(w) \in Seq(S) /\ Len(Front(w)) = Len(w) - 1 /\ \A i \in 1 .. Len(w) - 1 : Front(w)[i] = w[i]
  BY <1>1, <1>2, FrontLast DEF w
<1>4. Len(Front(w)) = Len(s) /\ \A i \in 1 .. Len(s) : Front(w)[i] = s[i]
  BY <1>1, <1>3 DEF w
<1>5. Front(w) = s
  BY <1>3, <1>4, SeqEqual
<1> QED BY <1>1, <1>2, <1>5 DEF w

LEMMA ConfOf ==
  ASSUME NEW c \in Config
  PROVE  c = Conf(c.stack, c.ret, c.flag)
BY DEF Config, Conf

LEMMA ConfIs == \A s, r, x : Conf(s, r, x).stack = s /\ Conf(s, r, x).ret = r /\ Conf(s, r, x).flag = x
BY DEF Conf

(* One step of the interpreter, or two.                                    *)
LEMMA FollowsInOne ==
  ASSUME NEW Q, NEW L, NEW c, NEW u, tevent' = None,
         \A d, e : Goes(c, d, e) => e = None /\ d = u,
         Same(u, Q, L)
  PROVE  Follows(c, Q, L)
BY DEF Follows, InOne

LEMMA FollowsInTwo ==
  ASSUME NEW Q, NEW L, NEW c, NEW u, NEW v, tevent' = None, u.stack # <<>>,
         \A d, e : Goes(c, d, e) => e = None /\ d = u,
         \A d, e : Goes(u, d, e) => e = None /\ d = v,
         Same(v, Q, L)
  PROVE  Follows(c, Q, L)
BY DEF Follows, InTwo

(* The frame on top moves on, on both sides.                               *)
InStep(t, s, Q, L) == t \in Seq(TFrame) /\ s \in Seq(IFrame) /\ Matched(t, s, TRUE) /\ Chain(t, Q, L)

LEMMA InStepSim ==
  ASSUME NEW Q, NEW L, NEW t, NEW s, InStep(t, s, Q, L),
         NEW r \in Result \cup {"none"}, NEW y \in Result \cup {"none"}, Alike(r, y),
         tstack' = t, tret' = r, tterminate' = FALSE
  PROVE  Same(Quiet(s, y), Q, L)
<1>1. t \in Seq(TFrame) /\ s \in Seq(IFrame) /\ Matched(t, s, TRUE) /\ Chain(t, Q, L)
  BY DEF InStep
<1>2. Sim(t, r, FALSE, Conf(s, y, FALSE), Q, L)
  BY <1>1, SimCalm
<1> QED BY <1>2 DEF Same, Quiet

LEMMA InStepAsked ==
  ASSUME NEW Q, NEW L, NEW t, NEW s, InStep(t, s, Q, L), Pending(t, "ok", Q),
         tstack' = t, tret' = "ok", tterminate' = TRUE
  PROVE  Same(Asked(s), Q, L)
<1> DEFINE u == Asked(s)
<1>1. t \in Seq(TFrame) /\ s \in Seq(IFrame) /\ Matched(t, s, FALSE) /\ Chain(t, Q, L)
  BY MatchLess DEF InStep
<1>2. u.stack = s /\ u.ret = "ok" /\ u.flag = TRUE
  BY DEF Asked, Conf
<1>3. "ok" \in Result \cup {"none"}
  BY DEF Result
<1>4. u \in Config
  BY <1>1, <1>3, ConfTyped DEF Asked
<1> HIDE DEF u
<1>5. Matched(t, u.stack, ~TRUE)
  BY <1>1, <1>2
<1>6. Same(u, Q, L)
  BY <1>1, <1>2, <1>3, <1>4, <1>5 DEF Same, Sim
<1> QED BY <1>6 DEF u

LEMMA InStepBody ==
  ASSUME NEW Q, NEW L, NEW t, NEW s, InStep(t, s, Q, L), NEW code \in Seq(Stmt),
         EndsIn(code, Q, L), All(code, Q) \/ (t # <<>> /\ Escapes(Last(t), Q))
  PROVE  InStep(Append(t, T!Body("body", code)), Append(s, I!Block(code)), Q, L)
<1> DEFINE b == T!Body("body", code)
<1>1. t \in Seq(TFrame) /\ s \in Seq(IFrame) /\ Matched(t, s, TRUE) /\ Chain(t, Q, L)
  BY DEF InStep
<1>2. b \in TFrame /\ I!Block(code) \in IFrame /\ b.kind = "body" /\ b.code = code
  BY TFrameTypes, FrameTypes DEF T!Body
<1>3. Matched(Append(t, b), Append(s, I!Block(code)), TRUE)
  BY <1>1, MatchBody
<1> HIDE DEF b
<1>4. Holds(b, Q, L) /\ (Loose(b, Q) => t # <<>> /\ Escapes(Last(t), Q))
  BY <1>2 DEF Holds, Loose
<1>5. Chain(Append(t, b), Q, L)
  BY <1>1, <1>2, <1>4, ChainPush
<1>6. Append(t, b) \in Seq(TFrame) /\ Append(s, I!Block(code)) \in Seq(IFrame)
  BY <1>1, <1>2
<1> QED BY <1>3, <1>5, <1>6 DEF InStep, b

LEMMA InStepTop ==
  ASSUME NEW Q, NEW L, NEW c, Here(c, Q, L), tstack # <<>>, ~tterminate,
         NEW f, f = Last(tstack), NEW p \in Nat, p # 0 \/ f.kind \notin T!Bodies,
         NEW g \in IFrame, g.code = f.code, g.pos = p,
         f.kind \in T!Bodies => g.kind = "block",
         f.kind \notin T!Bodies => g.kind = f.kind /\ g.alts = f.alts,
         f.kind = "try" /\ p # 0 => g.saved \in Caught
  PROVE  /\ InStep(Append(Front(tstack), At(f, p)), Append(Front(c.stack), g), Q, L)
         /\ Append(Front(tstack), At(f, p)) # <<>> /\ Last(Append(Front(tstack), At(f, p))) = At(f, p)
         /\ At(f, p).kind = f.kind /\ Holds(At(f, p), Q, L)
<1> DEFINE k == At(f, p)
<1>1. /\ tstack \in Seq(TFrame) /\ f \in TFrame /\ Front(tstack) \in Seq(TFrame)
      /\ c.stack \in Seq(IFrame) /\ Front(c.stack) \in Seq(IFrame)
      /\ Matched(tstack, c.stack, TRUE) /\ Chain(tstack, Q, L)
  BY OnTop
<1>2. k \in TFrame /\ k.kind = f.kind /\ k.code = f.code /\ k.alts = f.alts /\ k.pos = p
  BY <1>1 DEF TFrame, T!Frame, At
<1> HIDE DEF k
<1>3. Matched(Append(Front(tstack), k), Append(Front(c.stack), g), TRUE)
  BY <1>1, <1>2, MatchTop
<1>4. Chain(Append(Front(tstack), k), Q, L) /\ Holds(k, Q, L)
  BY <1>1, <1>2, ChainTop
<1>5. Append(Front(tstack), k) \in Seq(TFrame) /\ Append(Front(tstack), k) # <<>> /\ Last(Append(Front(tstack), k)) = k
  BY <1>1, <1>2, AppendLast
<1>6. Append(Front(c.stack), g) \in Seq(IFrame)
  BY <1>1, AppendLast
<1> QED BY <1>2, <1>3, <1>4, <1>5, <1>6 DEF k, InStep

LEMMA InStepBelow ==
  ASSUME NEW Q, NEW L, NEW c, Here(c, Q, L), tstack # <<>>
  PROVE  /\ Last(tstack).kind \notin {"call", "loop"} => InStep(Front(tstack), Front(c.stack), Q, L)
         /\ Last(tstack).kind \in {"call", "loop"} =>
              /\ Front(c.stack) # <<>> /\ Last(Front(c.stack)).kind = Last(tstack).kind
              /\ Last(Front(c.stack)).code = Last(tstack).code /\ Last(Front(c.stack)) \in IFrame
              /\ InStep(Front(tstack), Front(Front(c.stack)), Q, L)
              /\ Front(c.stack) = Append(Front(Front(c.stack)), Last(Front(c.stack)))
<1> DEFINE f == Last(tstack)
<1>1. /\ tstack \in Seq(TFrame) /\ Front(tstack) \in Seq(TFrame)
      /\ c.stack \in Seq(IFrame) /\ Front(c.stack) \in Seq(IFrame)
      /\ Matched(tstack, c.stack, ~tterminate) /\ Chain(Front(tstack), Q, L)
  BY OnTop
<1>2. /\ f.kind \notin {"call", "loop"} => Matched(Front(tstack), Front(c.stack), TRUE)
      /\ f.kind \in {"call", "loop"} =>
           /\ Front(c.stack) # <<>> /\ Last(Front(c.stack)).kind = f.kind /\ Last(Front(c.stack)).code = f.code
           /\ Last(Front(c.stack)) \in IFrame /\ Front(Front(c.stack)) \in Seq(IFrame)
           /\ Matched(Front(tstack), Front(Front(c.stack)), TRUE)
           /\ Front(c.stack) = Append(Front(Front(c.stack)), Last(Front(c.stack)))
  BY <1>1, MatchBelow
<1> HIDE DEF f
<1> QED BY <1>1, <1>2 DEF InStep, f
-----------------------------------------------------------------------------
LEMMA AfterStatementFollows ==
  ASSUME NEW Q, NEW L, Tame(Q, L), NEW c, Here(c, Q, L), T!AfterStatement
  PROVE  Follows(c, Q, L)
<1> DEFINE f == Last(tstack)
           g == Last(c.stack)
           s == c.stack
           t == Front(tstack)
           k == At(f, f.pos + 1)
<1>1. /\ tstack # <<>> /\ tret = "ok" /\ T!Top.kind \in T!Bodies /\ tevent' = None
      /\ \/ T!Top.kind # "body" /\ tterminate /\ tstack' = T!Pop /\ tret' = "ok" /\ tterminate' = FALSE
         \/ /\ ~(T!Top.kind # "body" /\ tterminate)
            /\ tstack' = Append(T!Pop, At(T!Top, T!Top.pos + 1)) /\ tret' = "none" /\ tterminate' = tterminate
  BY SameNames DEF T!AfterStatement, T!Returns, T!Swap, At
<1>2. /\ tstack \in Seq(TFrame) /\ f \in TFrame /\ T!Top = f /\ T!Pop = t /\ t \in Seq(TFrame)
      /\ tterminate \in BOOLEAN
      /\ s \in Seq(IFrame) /\ s # <<>> /\ g \in IFrame /\ Front(s) \in Seq(IFrame)
      /\ c.ret \in Result \cup {"none"} /\ c.flag = tterminate
      /\ Matched(tstack, s, ~tterminate)
      /\ g.code = f.code /\ g.kind = "block"
      /\ tterminate => c.ret = "ok" /\ Pending(tstack, tret, Q)
      /\ ~tterminate => g.pos = f.pos /\ Alike(tret, c.ret)
      /\ Chain(tstack, Q, L) /\ Chain(t, Q, L)
  BY <1>1, OnTop
<1>3. c \in Config /\ c = Conf(s, c.ret, tterminate)
  BY <1>2, ConfOf DEF Here, Sim
<1>4. "ok" \in Result /\ "none" \in Result \cup {"none"}
  BY DEF Result
<1>5. c.ret = "ok"
  BY <1>1, <1>2 DEF Alike, Caught
<1>6. f.pos + 1 \in Nat /\ f.pos + 1 # 0
  BY <1>2 DEF TFrame, T!Frame
<1>7. ASSUME T!Top.kind # "body", tterminate, tstack' = T!Pop, tret' = "ok", tterminate' = FALSE
      PROVE  Follows(c, Q, L)
  <2>1. f.kind = "loop"
    BY <1>1, <1>2, <1>7 DEF Pending, Escapes, Loose, T!Bodies
  <2>2. /\ Front(s) # <<>> /\ Last(Front(s)).kind = "loop" /\ InStep(t, Front(Front(s)), Q, L)
    BY <1>1, <2>1, InStepBelow
  <2> DEFINE u == Asked(Front(s))
             v == Quiet(Front(Front(s)), "ok")
  <2>3. \A d, e : Goes(c, d, e) => e = None /\ d = u
    <3>1. c = Asked(s)
      BY <1>2, <1>3, <1>5, <1>7 DEF Asked
    <3>2. s # <<>> /\ Last(s).kind = "block"
      BY <1>2
    <3> HIDE DEF s, g
    <3> QED BY <3>1, <3>2, PassesRequest
  <2>4. \A d, e : Goes(u, d, e) => e = None /\ d = v
    BY <2>2, PassesRequest
  <2>5. u.stack # <<>>
    BY <2>2 DEF Asked, Conf
  <2>6. Same(v, Q, L)
    <3>1. tstack' = t /\ tret' = "ok" /\ tterminate' = FALSE /\ Alike("ok", "ok")
      BY <1>2, <1>7 DEF Alike
    <3> HIDE DEF t, s
    <3> QED BY <1>4, <2>2, <3>1, InStepSim
  <2> HIDE DEF u, v
  <2> QED BY <1>1, <2>3, <2>4, <2>5, <2>6, FollowsInTwo
<1>8. ASSUME f.kind = "body", tterminate, tstack' = Append(t, k), tret' = "none", tterminate' = TRUE
      PROVE  Follows(c, Q, L)
  <2>1. Loose(f, Q) /\ f.pos = Len(f.code)
    BY <1>1, <1>2, <1>8 DEF Pending, Escapes
  <2>2. /\ k \in TFrame /\ k.kind = f.kind /\ k.code = f.code /\ k.alts = f.alts /\ k.pos = f.pos + 1
    BY <1>2, <1>6 DEF TFrame, T!Frame, At
  <2>3. s = Append(Front(s), g)
    BY <1>2, FrontLast
  <2>4. f.kind \in T!Bodies /\ f.kind # "try"
    BY <1>8 DEF T!Bodies
  <2> DEFINE w == Append(t, k)
  <2> HIDE DEF k, f, g, t
  <2>5. Matched(Append(t, k), Append(Front(s), g), FALSE)
    BY <1>1, <1>2, <2>2, <2>4, MatchTop DEF f, t
  <2>6. Chain(w, Q, L)
    BY <1>1, <1>2, <2>2, ChainTop DEF f, t
  <2>7. w \in Seq(TFrame) /\ w # <<>> /\ Last(w) = k
    BY <1>2, <2>2, AppendLast DEF w
  <2>8. Pending(w, "none", Q)
    <3>1. Loose(k, Q)
      BY <2>1, <2>2 DEF Loose
    <3>2. k.pos > Len(k.code)
      BY <1>2, <1>6, <2>1, <2>2 DEF TFrame, T!Frame
    <3> QED BY <2>7, <3>1, <3>2 DEF Pending
  <2>9. Matched(w, s, FALSE)
    BY <2>3, <2>5
  <2> HIDE DEF w, s
  <2>10. Sim(w, "none", TRUE, c, Q, L)
    BY <1>2, <1>3, <1>5, <1>8, <2>6, <2>7, <2>8, <2>9 DEF Sim, s
  <2>11. Same(c, Q, L)
    BY <1>8, <2>10 DEF Same, w
  <2> QED BY <1>1, <2>11 DEF Follows
<1>9. ASSUME ~tterminate, tstack' = Append(t, k), tret' = "none", tterminate' = FALSE
      PROVE  Follows(c, Q, L)
  <2> DEFINE h == At(g, g.pos + 1)
             u == Quiet(Append(Front(s), h), "none")
  <2>1. \A d, e : Goes(c, d, e) => e = None /\ d = u
    <3>1. c = Quiet(s, "ok")
      BY <1>2, <1>3, <1>5, <1>9 DEF Quiet
    <3>2. s # <<>> /\ Last(s) \in IFrame /\ Last(s).kind = "block" /\ g = Last(s)
      BY <1>2
    <3> HIDE DEF s, g
    <3> QED BY <3>1, <3>2, PassesOk
  <2>2. h \in IFrame /\ h.pos = f.pos + 1 /\ h.kind = "block" /\ h.code = f.code
    BY <1>2, <1>6, <1>9 DEF IFrame, I!Frame, At
  <2>3. f.kind \in T!Bodies /\ f.kind # "try"
    BY <1>1, <1>2 DEF T!Bodies
  <2> HIDE DEF h
  <2> DEFINE p == f.pos + 1
  <2>4. f = Last(tstack) /\ tstack # <<>> /\ ~tterminate /\ s = c.stack /\ t = Front(tstack)
    BY <1>1, <1>9
  <2>5. /\ p \in Nat /\ (p # 0 \/ f.kind \notin T!Bodies)
        /\ h \in IFrame /\ h.code = f.code /\ h.pos = p /\ h.kind = "block" /\ f.kind \in T!Bodies /\ f.kind # "try"
    BY <1>6, <2>2, <2>3
  <2>6. tstack' = Append(t, At(f, p)) /\ tret' = "none" /\ tterminate' = FALSE /\ Alike("none", "none")
    BY <1>9 DEF Alike
  <2> HIDE DEF f, g, p, s, t
  <2>7. InStep(Append(t, At(f, p)), Append(Front(s), h), Q, L)
    BY <2>4, <2>5, InStepTop
  <2>8. Same(u, Q, L)
    BY <1>4, <2>6, <2>7, InStepSim
  <2> QED BY <1>1, <2>1, <2>8, FollowsInOne
<1> QED BY <1>1, <1>2, <1>7, <1>8, <1>9

LEMMA OnBoth ==
  ASSUME NEW Q, NEW L, NEW c, Here(c, Q, L), tstack # <<>>,
         NEW f, f = Last(tstack), NEW s, s = c.stack, NEW g, g = Last(s)
  PROVE  /\ f \in TFrame /\ T!Top = f /\ T!Pop = Front(tstack)
         /\ s \in Seq(IFrame) /\ s # <<>> /\ g \in IFrame /\ g.code = f.code
         /\ f.kind \in T!Bodies => g.kind = "block"
         /\ f.kind \notin T!Bodies => g.kind = f.kind /\ g.alts = f.alts
         /\ f.kind = "try" /\ f.pos # 0 => g.saved \in Caught
         /\ tret \in Result \cup {"none"} /\ c.ret \in Result \cup {"none"} /\ tterminate \in BOOLEAN
         /\ tterminate => c = Asked(s) /\ Pending(tstack, tret, Q)
         /\ ~tterminate => c = Quiet(s, c.ret) /\ Alike(tret, c.ret) /\ g.pos = f.pos
         /\ Holds(f, Q, L)
         /\ Loose(f, Q) => Front(tstack) # <<>> /\ Escapes(Last(Front(tstack)), Q)
<1>1. c \in Config
  BY DEF Here, Sim
<1>2. c = Conf(c.stack, c.ret, c.flag)
  BY <1>1, ConfOf
<1>3. /\ f \in TFrame /\ T!Top = f /\ T!Pop = Front(tstack)
      /\ s \in Seq(IFrame) /\ s # <<>> /\ g \in IFrame /\ g.code = f.code
      /\ f.kind \in T!Bodies => g.kind = "block"
      /\ f.kind \notin T!Bodies => g.kind = f.kind /\ g.alts = f.alts
      /\ f.kind = "try" /\ f.pos # 0 => g.saved \in Caught
      /\ tret \in Result \cup {"none"} /\ c.ret \in Result \cup {"none"} /\ tterminate \in BOOLEAN
      /\ Holds(f, Q, L) /\ c.flag = tterminate
      /\ Loose(f, Q) => Front(tstack) # <<>> /\ Escapes(Last(Front(tstack)), Q)
  BY OnTop
<1>4. /\ tterminate => c.ret = "ok" /\ Pending(tstack, tret, Q)
      /\ ~tterminate => Alike(tret, c.ret) /\ g.pos = f.pos
  BY OnTop
<1>5. tterminate => c = Asked(s)
  BY <1>2, <1>3, <1>4 DEF Asked
<1>6. ~tterminate => c = Quiet(s, c.ret)
  BY <1>2, <1>3 DEF Quiet
<1> QED BY <1>3, <1>4, <1>5, <1>6

LEMMA EndOfBodyFollows ==
  ASSUME NEW Q, NEW L, Tame(Q, L), NEW c, Here(c, Q, L), T!EndOfBody
  PROVE  Follows(c, Q, L)
<1> DEFINE f == Last(tstack)
           s == c.stack
           g == Last(s)
           t == Front(tstack)
<1>1. /\ tstack # <<>> /\ tret = "none" /\ T!Top.kind \in T!Bodies /\ T!Top.pos > Len(T!Top.code) /\ tevent' = None
      /\ tterminate' = tterminate
      /\ T!Top.kind = "loop" => tstack' = Append(T!Pop, At(T!Top, 1)) /\ tret' = "none"
      /\ T!Top.kind # "loop" => tstack' = T!Pop /\ tret' = "ok"
  BY SameNames DEF T!EndOfBody, T!Returns, T!Swap, At
<1>2. /\ f \in TFrame /\ T!Top = f /\ T!Pop = t
      /\ s \in Seq(IFrame) /\ s # <<>> /\ g \in IFrame /\ g.code = f.code
      /\ g.kind = "block" /\ f.kind \in T!Bodies
      /\ tterminate \in BOOLEAN
      /\ tterminate => c = Asked(s) /\ Pending(tstack, tret, Q)
      /\ ~tterminate => c = Quiet(s, c.ret) /\ Alike(tret, c.ret) /\ g.pos = f.pos
      /\ Loose(f, Q) => t # <<>> /\ Escapes(Last(t), Q)
  BY <1>1, OnBoth
<1>3. "ok" \in Result \cup {"none"} /\ "none" \in Result \cup {"none"} /\ Alike("ok", "ok") /\ Alike("none", "none")
  BY DEF Result, Alike
<1>4. ~tterminate => c = Quiet(s, "none") /\ g.pos > Len(g.code)
  BY <1>1, <1>2 DEF Alike, Caught
<1>5. tterminate => Loose(f, Q) /\ f.kind = "body"
  BY <1>1, <1>2 DEF Pending, Loose
<1>6. ~tterminate => \A d, e : Goes(c, d, e) => e = None /\ d = Quiet(Front(s), "ok")
  <2> HIDE DEF s, g
  <2>1. s # <<>> /\ g \in IFrame /\ g = Last(s) /\ g.kind = "block"
    BY <1>2 DEF g
  <2> QED BY <1>4, <2>1, PassesEnd
<1>7. CASE tterminate
  <2>1. InStep(t, Front(s), Q, L)
    <3>1. Last(tstack).kind \notin {"call", "loop"}
      BY <1>5, <1>7
    <3> QED BY <1>1, <3>1, InStepBelow
  <2>2. \A d, e : Goes(c, d, e) => e = None /\ d = Asked(Front(s))
    <3>1. c = Asked(s) /\ s # <<>> /\ Last(s).kind = "block"
      BY <1>2, <1>7
    <3> HIDE DEF s
    <3> QED BY <3>1, PassesRequest
  <2>3. tstack' = t /\ tret' = "ok" /\ tterminate' = TRUE
    BY <1>1, <1>2, <1>5, <1>7
  <2>4. Pending(t, "ok", Q)
    BY <1>2, <1>5, <1>7 DEF Pending
  <2> HIDE DEF s, t, f, g
  <2>5. Same(Asked(Front(s)), Q, L)
    BY <2>1, <2>3, <2>4, InStepAsked
  <2> QED BY <1>1, <2>2, <2>5, FollowsInOne
<1>8. CASE ~tterminate /\ f.kind \notin {"call", "loop"}
  <2>1. InStep(t, Front(s), Q, L)
    BY <1>1, <1>8, InStepBelow
  <2>2. tstack' = t /\ tret' = "ok" /\ tterminate' = FALSE
    BY <1>1, <1>2, <1>8
  <2> HIDE DEF s, t, f, g
  <2>3. Same(Quiet(Front(s), "ok"), Q, L)
    BY <1>3, <2>1, <2>2, InStepSim
  <2> QED BY <1>1, <1>6, <1>8, <2>3, FollowsInOne
<1>9. CASE ~tterminate /\ f.kind \in {"call", "loop"}
  <2>1. /\ Front(s) # <<>> /\ Last(Front(s)).kind = f.kind /\ Last(Front(s)).code = f.code /\ Last(Front(s)) \in IFrame
        /\ InStep(t, Front(Front(s)), Q, L) /\ Front(s) = Append(Front(Front(s)), Last(Front(s)))
    BY <1>1, <1>9, InStepBelow
  <2>2. Quiet(Front(s), "ok").stack # <<>>
    BY <2>1 DEF Quiet, Conf
  <2>3. ASSUME f.kind = "call" PROVE Follows(c, Q, L)
    <3>1. tstack' = t /\ tret' = "ok" /\ tterminate' = FALSE
      BY <1>1, <1>2, <1>9, <2>3
    <3>2. \A d, e : Goes(Quiet(Front(s), "ok"), d, e) => e = None /\ d = Quiet(Front(Front(s)), "ok")
      BY <2>1, <2>3, PassesOk
    <3> HIDE DEF s, t, f, g
    <3>3. Same(Quiet(Front(Front(s)), "ok"), Q, L)
      BY <1>3, <2>1, <3>1, InStepSim
    <3> QED BY <1>1, <1>6, <1>9, <2>2, <3>2, <3>3, FollowsInTwo
  <2>4. ASSUME f.kind = "loop" PROVE Follows(c, Q, L)
    <3> DEFINE h == I!Block(f.code)
    <3>1. tstack' = Append(t, At(f, 1)) /\ tret' = "none" /\ tterminate' = FALSE
      BY <1>1, <1>2, <1>9, <2>4
    <3>2. \A d, e : Goes(Quiet(Front(s), "ok"), d, e) => e = None /\ d = Quiet(Append(Front(s), h), "none")
      <4> DEFINE w == Front(s)
      <4>1. w # <<>> /\ Last(w) \in IFrame /\ Last(w).kind = "loop" /\ w = Append(Front(w), Last(w)) /\ h = I!Block(Last(w).code)
        BY <2>1, <2>4
      <4> HIDE DEF w, h
      <4>2. \A d, e : Goes(Quiet(w, "ok"), d, e) => e = None /\ d = Quiet(Append(Append(Front(w), Last(w)), I!Block(Last(w).code)), "none")
        BY <4>1, PassesOk
      <4> QED BY <4>1, <4>2 DEF w
    <3>3. h \in IFrame /\ h.code = f.code /\ h.pos = 1 /\ h.kind = "block"
      <4>1. f.code \in Seq(Stmt)
        BY <1>2 DEF TFrame, T!Frame
      <4> QED BY <4>1, FrameTypes DEF I!Block
    <3>4. f.kind # "try" /\ 1 \in Nat /\ 1 # 0 /\ f = Last(tstack) /\ s = c.stack /\ t = Front(tstack)
      BY <2>4
    <3> HIDE DEF s, t, f, g, h
    <3>5. InStep(Append(t, At(f, 1)), Append(Front(s), h), Q, L)
      BY <1>1, <1>2, <1>9, <3>3, <3>4, InStepTop
    <3>6. Same(Quiet(Append(Front(s), h), "none"), Q, L)
      BY <1>3, <3>1, <3>5, InStepSim
    <3> QED BY <1>1, <1>6, <1>9, <2>2, <3>2, <3>6, FollowsInTwo
  <2> QED BY <1>9, <2>3, <2>4
<1> QED BY <1>7, <1>8, <1>9

LEMMA UnwindFollows ==
  ASSUME NEW Q, NEW L, Tame(Q, L), NEW c, Here(c, Q, L), T!Unwind
  PROVE  Follows(c, Q, L)
<1> DEFINE f == Last(tstack)
           s == c.stack
           g == Last(s)
           t == Front(tstack)
           r == c.ret
<1>1. /\ tstack # <<>> /\ tret \in Error /\ T!Top.kind \notin {"try", "dont_panic"} /\ tevent' = None
      /\ tterminate' = tterminate /\ tstack' = T!Pop /\ tret' = tret
  BY SameNames DEF T!Unwind, T!Returns
<1>2. /\ f \in TFrame /\ T!Top = f /\ T!Pop = t
      /\ s \in Seq(IFrame) /\ s # <<>> /\ g \in IFrame
      /\ f.kind \in T!Bodies => g.kind = "block"
      /\ f.kind \notin T!Bodies => g.kind = f.kind
      /\ tret \in Result \cup {"none"} /\ r \in Result \cup {"none"} /\ tterminate \in BOOLEAN
      /\ tterminate => Pending(tstack, tret, Q)
      /\ ~tterminate => c = Quiet(s, r) /\ Alike(tret, r)
  BY <1>1, OnBoth
<1>3. ~tterminate /\ tterminate' = FALSE
  BY <1>1, <1>2 DEF Pending, Error
<1>4. r \in Error /\ Alike(tret, r)
  BY <1>1, <1>2, <1>3 DEF Alike, Caught, Error
<1>5. g.kind \in {"block", "browse"}
  BY <1>1, <1>2 DEF TFrame, T!Frame
<1>6. \A d, e : Goes(c, d, e) => e = None /\ d = Quiet(Front(s), r)
  <2>1. c = Quiet(s, r) /\ s # <<>> /\ Last(s) \in IFrame /\ Last(s).kind \in {"block", "call", "browse", "loop"} /\ r \in Error
    BY <1>2, <1>3, <1>4, <1>5
  <2> HIDE DEF s, r
  <2> QED BY <2>1, PassesError
<1>7. tstack' = t /\ tret' = tret /\ tterminate' = FALSE /\ tret \in Result \cup {"none"} /\ r \in Result \cup {"none"}
  BY <1>1, <1>2, <1>3
<1>8. CASE f.kind \notin {"call", "loop"}
  <2>1. InStep(t, Front(s), Q, L)
    BY <1>1, <1>8, InStepBelow
  <2> HIDE DEF s, t, f, g, r
  <2>2. Same(Quiet(Front(s), r), Q, L)
    BY <1>4, <1>7, <2>1, InStepSim
  <2> QED BY <1>1, <1>6, <2>2, FollowsInOne
<1>9. CASE f.kind \in {"call", "loop"}
  <2>1. /\ Front(s) # <<>> /\ Last(Front(s)).kind = f.kind /\ Last(Front(s)) \in IFrame
        /\ InStep(t, Front(Front(s)), Q, L)
    BY <1>1, <1>9, InStepBelow
  <2>2. Quiet(Front(s), r).stack # <<>>
    BY <2>1 DEF Quiet, Conf
  <2>3. \A d, e : Goes(Quiet(Front(s), r), d, e) => e = None /\ d = Quiet(Front(Front(s)), r)
    <3> DEFINE w == Front(s)
    <3>1. w # <<>> /\ Last(w) \in IFrame /\ Last(w).kind \in {"block", "call", "browse", "loop"}
      BY <1>9, <2>1
    <3> HIDE DEF w, r
    <3>2. \A d, e : Goes(Quiet(w, r), d, e) => e = None /\ d = Quiet(Front(w), r)
      BY <1>4, <3>1, PassesError
    <3> QED BY <3>2 DEF w
  <2> HIDE DEF s, t, f, g, r
  <2>4. Same(Quiet(Front(Front(s)), r), Q, L)
    BY <1>4, <1>7, <2>1, InStepSim
  <2> QED BY <1>1, <1>6, <2>2, <2>3, <2>4, FollowsInTwo
<1> QED BY <1>8, <1>9

LEMMA AfterBrowseBodyFollows ==
  ASSUME NEW Q, NEW L, Tame(Q, L), NEW c, Here(c, Q, L), T!AfterBrowseBody
  PROVE  Follows(c, Q, L)
<1> DEFINE f == Last(tstack)
           s == c.stack
           g == Last(s)
           t == Front(tstack)
<1>1. /\ tstack # <<>> /\ tret = "ok" /\ T!Top.kind = "browse" /\ tevent' = None
      /\ \/ (tterminate \/ T!Top.pos = 0) /\ tstack' = T!Pop /\ tret' = "ok" /\ tterminate' = FALSE
         \/ /\ ~(tterminate \/ T!Top.pos = 0) /\ tret' = "none" /\ tterminate' = tterminate
            /\ tstack' = Append(Append(T!Pop, At(T!Top, T!Top.pos - 1)), T!Body("body", T!Top.code))
  BY SameNames DEF T!AfterBrowseBody, T!Returns, T!Runs, T!Swap, At
<1>2. /\ f \in TFrame /\ T!Top = f /\ T!Pop = t /\ f.kind \notin T!Bodies
      /\ s \in Seq(IFrame) /\ s # <<>> /\ g \in IFrame /\ g.code = f.code
      /\ g.kind = "browse" /\ g.alts = f.alts
      /\ tterminate \in BOOLEAN
      /\ tterminate => c = Asked(s)
      /\ ~tterminate => c = Quiet(s, c.ret) /\ Alike(tret, c.ret) /\ g.pos = f.pos
      /\ Holds(f, Q, L)
  <2>1. f.kind = "browse" /\ f.kind \notin T!Bodies
    BY <1>1, OnBoth DEF T!Bodies
  <2> QED BY <1>1, <2>1, OnBoth
<1>3. "ok" \in Result \cup {"none"} /\ "none" \in Result \cup {"none"} /\ Alike("ok", "ok") /\ Alike("none", "none")
  BY DEF Result, Alike
<1>4. ~tterminate => c = Quiet(s, "ok")
  BY <1>1, <1>2 DEF Alike, Caught
<1>5. CASE tstack' = t /\ tret' = "ok" /\ tterminate' = FALSE /\ (tterminate \/ f.pos = 0)
  <2>1. InStep(t, Front(s), Q, L)
    BY <1>1, <1>2, InStepBelow
  <2>2. \A d, e : Goes(c, d, e) => e = None /\ d = Quiet(Front(s), "ok")
    <3>1. s # <<>> /\ Last(s) \in IFrame /\ Last(s).kind = "browse"
      BY <1>2
    <3>2. \/ c = Asked(s)
          \/ c = Quiet(s, "ok") /\ Last(s).pos = 0
      BY <1>2, <1>4, <1>5
    <3> HIDE DEF s, g
    <3>3. CASE c = Asked(s)
      BY <3>1, <3>3, PassesRequest
    <3>4. CASE c = Quiet(s, "ok") /\ Last(s).pos = 0
      BY <3>1, <3>4, PassesOk
    <3> QED BY <3>2, <3>3, <3>4
  <2> HIDE DEF s, t, f, g
  <2>3. Same(Quiet(Front(s), "ok"), Q, L)
    BY <1>3, <1>5, <2>1, InStepSim
  <2> QED BY <1>1, <2>2, <2>3, FollowsInOne
<1>6. CASE /\ ~tterminate /\ f.pos # 0 /\ tret' = "none" /\ tterminate' = FALSE
           /\ tstack' = Append(Append(t, At(f, f.pos - 1)), T!Body("body", f.code))
  <2> DEFINE p == f.pos - 1
             h == At(g, p)
             ta == Append(t, At(f, p))
             sa == Append(Front(s), h)
  <2>1. g.pos = f.pos /\ f.pos \in Nat /\ p \in Nat /\ f.code \in Seq(Stmt) /\ f = Last(tstack) /\ t = Front(tstack) /\ s = c.stack
    BY <1>2, <1>6 DEF TFrame, T!Frame
  <2>2. h \in IFrame /\ h.pos = p /\ h.kind = "browse" /\ h.code = f.code /\ h.alts = f.alts
    BY <1>2, <2>1 DEF IFrame, I!Frame, At
  <2>3. \A d, e : Goes(c, d, e) => e = None /\ d = Quiet(Append(sa, I!Block(f.code)), "none")
    <3>1. /\ s # <<>> /\ Last(s) \in IFrame /\ Last(s).kind = "browse" /\ Last(s).pos # 0 /\ c = Quiet(s, "ok")
          /\ h = At(Last(s), Last(s).pos - 1) /\ Last(s).code = f.code
      BY <1>2, <1>4, <1>6, <2>1
    <3> HIDE DEF s, g, h, f
    <3>2. \A d, e : Goes(c, d, e) => e = None /\ d = Quiet(Append(Append(Front(s), At(Last(s), Last(s).pos - 1)), I!Block(Last(s).code)), "none")
      BY <3>1, PassesOk
    <3> QED BY <3>1, <3>2
  <2>4. f.kind = "browse" /\ f.kind # "try" /\ EndsIn(f.code, Q, L)
    BY <1>1, <1>2 DEF Holds
  <2> HIDE DEF s, t, f, g, h, p
  <2>5. InStep(ta, sa, Q, L) /\ ta # <<>> /\ Last(ta) = At(f, p) /\ At(f, p).kind = f.kind
    BY <1>1, <1>2, <1>6, <2>1, <2>2, <2>4, InStepTop
  <2>6. tstack' = Append(ta, T!Body("body", f.code)) /\ tret' = "none" /\ tterminate' = FALSE
    BY <1>6 DEF p
  <2> HIDE DEF ta, sa
  <2>7. Escapes(Last(ta), Q)
    BY <2>4, <2>5 DEF Escapes
  <2>8. InStep(Append(ta, T!Body("body", f.code)), Append(sa, I!Block(f.code)), Q, L)
    BY <2>1, <2>4, <2>5, <2>7, InStepBody
  <2>9. Same(Quiet(Append(sa, I!Block(f.code)), "none"), Q, L)
    BY <1>3, <2>6, <2>8, InStepSim
  <2> QED BY <1>1, <2>3, <2>9, FollowsInOne
<1> QED BY <1>1, <1>2, <1>5, <1>6

LEMMA AfterTryClosureFollows ==
  ASSUME NEW Q, NEW L, Tame(Q, L), NEW c, Here(c, Q, L), T!AfterTryClosure
  PROVE  Follows(c, Q, L)
<1> DEFINE f == Last(tstack)
           s == c.stack
           g == Last(s)
           t == Front(tstack)
           r == c.ret
           alt == f.alts[f.pos + 1]
<1>1. /\ tstack # <<>> /\ tret # "none" /\ T!Top.kind = "try" /\ tevent' = None
      /\ \/ tret = "exit" /\ tstack' = T!Pop /\ tret' = "exit" /\ tterminate' = tterminate
         \/ tterminate
         \/ /\ tret \in Caught /\ ~tterminate /\ T!Top.pos < Len(T!Top.alts)
            /\ tstack' = Append(Append(T!Pop, At(T!Top, T!Top.pos + 1)), T!Body("body", T!Top.alts[T!Top.pos + 1]))
            /\ tret' = "none" /\ tterminate' = tterminate
         \/ /\ tret = "ok" \/ (tret \in Caught /\ T!Top.pos >= Len(T!Top.alts))
            /\ tstack' = T!Pop /\ tret' = tret /\ tterminate' = tterminate
  BY SameNames DEF T!AfterTryClosure, T!Returns, T!Runs, T!Swap, At, Caught
<1>2. /\ f \in TFrame /\ T!Top = f /\ T!Pop = t /\ f.kind \notin T!Bodies
      /\ s \in Seq(IFrame) /\ s # <<>> /\ g \in IFrame /\ g.code = f.code
      /\ g.kind = "try" /\ g.alts = f.alts
      /\ f.pos # 0 => g.saved \in Caught
      /\ tret \in Result \cup {"none"} /\ r \in Result \cup {"none"} /\ tterminate \in BOOLEAN
      /\ tterminate => Pending(tstack, tret, Q)
      /\ ~tterminate => c = Quiet(s, r) /\ Alike(tret, r) /\ g.pos = f.pos
      /\ Holds(f, Q, L)
  <2>1. f.kind = "try" /\ f.kind \notin T!Bodies
    BY <1>1, OnBoth DEF T!Bodies
  <2> QED BY <1>1, <2>1, OnBoth
<1>3. f.kind = "try" /\ tterminate = FALSE
  BY <1>1, <1>2 DEF Pending, Escapes, Loose
<1>4. c = Quiet(s, r) /\ Alike(tret, r) /\ g.pos = f.pos
  BY <1>2, <1>3
<1>5. "ok" \in Result \cup {"none"} /\ "none" \in Result \cup {"none"} /\ Alike("none", "none") /\ Caught \subseteq Result
  BY DEF Result, Alike, Caught, Error
<1>6. InStep(t, Front(s), Q, L)
  BY <1>1, <1>3, InStepBelow
<1>7. CASE tret \in {"ok", "exit"} /\ tstack' = t /\ tret' = tret /\ tterminate' = FALSE
  <2>1. r = tret
    BY <1>4, <1>7 DEF Alike, Caught
  <2>2. \A d, e : Goes(c, d, e) => e = None /\ d = Quiet(Front(s), r)
    <3>1. s # <<>> /\ Last(s) \in IFrame /\ Last(s).kind = "try" /\ c = Quiet(s, r)
      BY <1>2, <1>4
    <3>2. r = "ok" \/ (r = "exit" /\ r \in Error)
      BY <1>7, <2>1 DEF Error
    <3> HIDE DEF s, g, r
    <3>3. CASE r = "ok"
      BY <3>1, <3>3, PassesOk
    <3>4. CASE r = "exit" /\ r \in Error
      BY <3>1, <3>4, PassesError
    <3> QED BY <3>2, <3>3, <3>4
  <2> HIDE DEF s, t, f, g, r
  <2>3. Same(Quiet(Front(s), r), Q, L)
    BY <1>2, <1>4, <1>6, <1>7, InStepSim
  <2> QED BY <1>1, <2>2, <2>3, FollowsInOne
<1> DEFINE o == Fault(r, g)
<1>8. tret \in Caught => r \in Caught /\ o \in Caught
  BY <1>2, <1>4 DEF Alike, Caught, Fault
<1>9. f.pos \in Nat /\ Len(f.alts) \in Nat /\ f.alts \in Seq(Seq(Stmt))
  BY <1>2 DEF TFrame, T!Frame
<1>10. CASE tret \in Caught /\ ~(f.pos < Len(f.alts)) /\ tstack' = t /\ tret' = tret /\ tterminate' = FALSE
  <2>1. \A d, e : Goes(c, d, e) => e = None /\ d = Quiet(Front(s), o)
    <3>1. s # <<>> /\ Last(s) \in IFrame /\ Last(s).kind = "try" /\ c = Quiet(s, r) /\ r \in Caught /\ ~(Last(s).pos < Len(Last(s).alts))
      BY <1>2, <1>4, <1>8, <1>10
    <3>2. o = Fault(r, Last(s))
      OBVIOUS
    <3> HIDE DEF s, g, r, o
    <3> QED BY <3>1, <3>2, PassesCaught
  <2> HIDE DEF s, t, f, g, r, o
  <2>2. Alike(tret, o) /\ o \in Result \cup {"none"}
    BY <1>5, <1>8, <1>10 DEF Alike
  <2>3. Same(Quiet(Front(s), o), Q, L)
    BY <1>2, <1>6, <1>10, <2>2, InStepSim
  <2> QED BY <1>1, <2>1, <2>3, FollowsInOne
<1>11. CASE /\ tret \in Caught /\ f.pos < Len(f.alts) /\ tret' = "none" /\ tterminate' = FALSE
            /\ tstack' = Append(Append(t, At(f, f.pos + 1)), T!Body("body", alt))
  <2> DEFINE p == f.pos + 1
             h == Retry(g, o)
             ta == Append(t, At(f, p))
             sa == Append(Front(s), h)
  <2>1. p \in Nat /\ f = Last(tstack) /\ t = Front(tstack) /\ s = c.stack /\ p \in 1 .. Len(f.alts)
    <3>1. \A m, n \in Nat : m < n => m + 1 \in Nat /\ m + 1 \in 1 .. n
      OBVIOUS
    <3>2. f.pos < Len(f.alts)
      BY <1>11
    <3> QED BY <1>9, <3>1, <3>2
  <2>2. h \in IFrame /\ h.pos = p /\ h.kind = "try" /\ h.code = f.code /\ h.alts = f.alts /\ h.saved \in Caught
    <3>1. o \in I!Result /\ o \in Caught /\ g.pos + 1 = p /\ g.pos + 1 \in Nat
      BY <1>4, <1>5, <1>8, <1>9, <1>11, SameNames
    <3> HIDE DEF o, p
    <3> QED BY <1>2, <3>1 DEF IFrame, I!Frame, Retry
  <2>3. \A d, e : Goes(c, d, e) => e = None /\ d = Quiet(Append(sa, I!Block(alt)), "none")
    <3>1. /\ s # <<>> /\ Last(s) \in IFrame /\ Last(s).kind = "try" /\ c = Quiet(s, r) /\ r \in Caught
          /\ Last(s).pos < Len(Last(s).alts) /\ alt = Last(s).alts[Last(s).pos + 1]
      BY <1>2, <1>4, <1>8, <1>11
    <3>2. h = Retry(Last(s), Fault(r, Last(s)))
      OBVIOUS
    <3> HIDE DEF s, g, r, o, alt, f, h
    <3>3. \A d, e : Goes(Quiet(s, r), d, e)
            => e = None /\ d = Quiet(Append(Append(Front(s), Retry(Last(s), Fault(r, Last(s)))), I!Block(Last(s).alts[Last(s).pos + 1])), "none")
      BY <3>1, PassesCaught
    <3> QED BY <3>1, <3>2, <3>3
  <2>4. f.alts[p] \in Seq(Stmt) /\ All(f.alts[p], Q)
    <3> HIDE DEF p
    <3> QED BY <1>2, <1>3, <1>9, <2>1 DEF Holds
  <2>5. tstack' = Append(ta, T!Body("body", f.alts[p])) /\ tret' = "none" /\ tterminate' = FALSE /\ alt = f.alts[p]
    BY <1>11
  <2> HIDE DEF s, t, f, g, h, p, o, alt, r
  <2>6. InStep(ta, sa, Q, L) /\ ta # <<>>
    BY <1>1, <1>2, <1>3, <2>1, <2>2, InStepTop
  <2> HIDE DEF ta, sa
  <2>7. EndsIn(f.alts[p], Q, L)
    BY <2>4 DEF All, EndsIn
  <2>8. InStep(Append(ta, T!Body("body", f.alts[p])), Append(sa, I!Block(f.alts[p])), Q, L)
    BY <2>4, <2>6, <2>7, InStepBody
  <2>9. Same(Quiet(Append(sa, I!Block(f.alts[p])), "none"), Q, L)
    BY <1>5, <2>5, <2>8, InStepSim
  <2> QED BY <1>1, <2>3, <2>5, <2>9, FollowsInOne
<1>12. \/ tret \in {"ok", "exit"} /\ tstack' = t /\ tret' = tret /\ tterminate' = FALSE
       \/ tret \in Caught /\ ~(f.pos < Len(f.alts)) /\ tstack' = t /\ tret' = tret /\ tterminate' = FALSE
       \/ /\ tret \in Caught /\ f.pos < Len(f.alts) /\ tret' = "none" /\ tterminate' = FALSE
          /\ tstack' = Append(Append(t, At(f, f.pos + 1)), T!Body("body", alt))
  <2>1. T!Top = f /\ T!Pop = t
    BY <1>2
  <2>2. f.pos >= Len(f.alts) => ~(f.pos < Len(f.alts))
    BY <1>9
  <2> HIDE DEF f, t
  <2> QED BY <1>1, <1>3, <2>1, <2>2
<1> QED BY <1>7, <1>10, <1>11, <1>12

LEMMA AfterDontPanicFollows ==
  ASSUME NEW Q, NEW L, Tame(Q, L), NEW c, Here(c, Q, L), T!AfterDontPanic
  PROVE  Follows(c, Q, L)
<1> DEFINE f == Last(tstack)
           s == c.stack
           g == Last(s)
           t == Front(tstack)
           r == c.ret
<1>1. /\ tstack # <<>> /\ tret # "none" /\ T!Top.kind = "dont_panic" /\ tevent' = None
      /\ ~tterminate => tstack' = T!Pop /\ tret' = "ok" /\ tterminate' = tterminate
  BY SameNames DEF T!AfterDontPanic, T!Returns
<1>2. /\ T!Top = f /\ T!Pop = t /\ s # <<>> /\ g \in IFrame /\ g.kind = "dont_panic"
      /\ tret \in Result \cup {"none"} /\ r \in Result \cup {"none"} /\ tterminate \in BOOLEAN
      /\ tterminate => Pending(tstack, tret, Q)
      /\ ~tterminate => c = Quiet(s, r) /\ Alike(tret, r)
  <2>1. f.kind = "dont_panic" /\ f.kind \notin T!Bodies
    BY <1>1, OnBoth DEF T!Bodies
  <2> QED BY <1>1, <2>1, OnBoth
<1>3. f.kind = "dont_panic" /\ tterminate = FALSE
  BY <1>1, <1>2 DEF Pending, Escapes, Loose
<1>4. c = Quiet(s, r) /\ Alike(tret, r) /\ r # "none" /\ (r = "ok" \/ r \in Error)
  BY <1>1, <1>2, <1>3 DEF Alike, Caught, Result
<1>5. InStep(t, Front(s), Q, L)
  BY <1>1, <1>3, InStepBelow
<1>6. \A d, e : Goes(c, d, e) => e = None /\ d = Quiet(Front(s), "ok")
  <2>1. s # <<>> /\ Last(s) \in IFrame /\ Last(s).kind = "dont_panic" /\ c = Quiet(s, r) /\ (r = "ok" \/ r \in Error)
    BY <1>2, <1>4
  <2> HIDE DEF s, r
  <2>2. CASE r = "ok"
    BY <2>1, <2>2, PassesOk
  <2>3. CASE r \in Error
    BY <2>1, <2>3, PassesError
  <2> QED BY <2>1, <2>2, <2>3
<1>7. tstack' = t /\ tret' = "ok" /\ tterminate' = FALSE /\ "ok" \in Result \cup {"none"} /\ Alike("ok", "ok")
  BY <1>1, <1>2, <1>3 DEF Result, Alike
<1> HIDE DEF s, t, f, g, r
<1>8. Same(Quiet(Front(s), "ok"), Q, L)
  BY <1>5, <1>7, InStepSim
<1> QED BY <1>1, <1>6, <1>8, FollowsInOne

LEMMA StepFollows ==
  ASSUME NEW Q, NEW L, Tame(Q, L), NEW c, Here(c, Q, L), T!Next, tstack # <<>>
  PROVE  Follows(c, Q, L)
<1>1. ~T!Done
  BY DEF T!Done
<1> QED
  BY <1>1, WorkFollows, FailFollows, TerminateFollows, IfFollows, ClosureFollows, CallFollows, LoopFollows,
     BrowseFollows, AfterStatementFollows, EndOfBodyFollows, UnwindFollows, AfterBrowseBodyFollows,
     AfterTryClosureFollows, AfterDontPanicFollows DEF T!Next
-----------------------------------------------------------------------------
(* The interpreter's execution is h[0], ..., h[n], each with how much of   *)
(* the log was made; the generated program stands at h[k], unless it is    *)
(* past an execution that the end of the log cut.                          *)
Logged(l, a, b, e) == IF e = None THEN b = a ELSE b = a + 1 /\ b <= Len(l) /\ e = l[b]
Recorded(l, h, n) ==
  /\ h \in [0 .. n -> [c : Config, made : Nat]]
  /\ \A j \in 0 .. n - 1 : \E e : Goes(h[j].c, h[j + 1].c, e) /\ Logged(l, h[j].made, h[j + 1].made, e)
PastTheLog == phase = "transpiled" /\ Cut /\ at = Len(log)
StandsAt(h, n, k, Q, L) ==
  /\ Recorded(log, h, n) /\ h[n] = [c |-> Now, made |-> Len(log)]
  /\ PastTheLog \/ (Here(h[k].c, Q, L) /\ h[k].made = at)
Replays(Q, L) ==
  ~retried =>
    /\ log \in Seq(Event) /\ \A i \in 1 .. Len(log) : log[i] # None
    /\ at \in Nat
    /\ \E n \in Nat : \E h : \E k \in 0 .. n : StandsAt(h, n, k, Q, L)

LEMMA ReplaysInit ==
  ASSUME NEW Q, NEW L, Tame(Q, L), \A p \in Programs : All(p, Q), MachinesInit
  PROVE  Replays(Q, L)
<1>1. PICK p \in Programs : istack = <<I!Block(p)>> /\ tstack = <<T!Body("run", p)>>
  BY DEF MachinesInit
<1>2. /\ iret = "none" /\ iterminate = FALSE /\ tret = "none" /\ tterminate = FALSE
      /\ log = <<>> /\ at = 0
  BY DEF MachinesInit
<1>3. p \in Seq(Stmt) /\ All(p, Q)
  BY ProgramAssumption
<1> DEFINE f == T!Body("run", p)
           b == I!Block(p)
<1>4. /\ f \in TFrame /\ f.kind = "run" /\ f.code = p /\ f.pos = 1 /\ "run" \in T!Bodies
      /\ b \in IFrame /\ b.kind = "block" /\ b.code = p /\ b.pos = 1
  BY <1>3, TFrameTypes, FrameTypes DEF T!Body, I!Block, T!Bodies
<1>5. istack = Append(<<>>, b) /\ tstack = Append(<<>>, f)
  BY <1>1
<1> HIDE DEF f, b
<1>6. istack \in Seq(IFrame) /\ Len(istack) = 1 /\ istack[1] = b /\ Last(istack) = b
  BY <1>4, <1>5 DEF Last
<1>7. Matched(tstack, istack, TRUE)
  <2>1. tstack \in Seq(TFrame) /\ Len(tstack) = 1 /\ tstack[1] = f /\ tstack # <<>>
    BY <1>4, <1>5
  <2>2. Width(f) = 1 /\ Stands(f, istack, 1) /\ istack[1].pos = f.pos
    BY <1>4, <1>6 DEF Width, Stands
  <2> DEFINE m == [j \in 1 .. 1 |-> 1]
  <2>3. m \in [1 .. 1 -> 1 .. 1] /\ m[1] = 1 /\ \A j \in 1 .. 1 : j = 1
    OBVIOUS
  <2> HIDE DEF m
  <2>4. Mapped(tstack, istack, m, TRUE)
    BY <1>6, <2>1, <2>2, <2>3 DEF Mapped
  <2> QED BY <2>4 DEF Matched
<1>8. tstack \in Seq(TFrame) /\ Chain(tstack, Q, L)
  <2>1. <<>> \in Seq(TFrame) /\ Chain(<<>>, Q, L)
    BY DEF Chain
  <2>2. Holds(f, Q, L) /\ ~Loose(f, Q)
    BY <1>3, <1>4 DEF Holds, Loose
  <2>3. Chain(Append(<<>>, f), Q, L)
    BY <1>4, <2>1, <2>2, ChainPush
  <2> QED BY <1>4, <1>5, <2>3
<1>9. Sim(tstack, "none", FALSE, Conf(istack, "none", FALSE), Q, L)
  <2>1. "none" \in Result \cup {"none"} /\ Alike("none", "none")
    BY DEF Alike
  <2> QED BY <1>6, <1>7, <1>8, <2>1, SimCalm
<1>10. Now = Conf(istack, "none", FALSE) /\ Here(Now, Q, L)
  BY <1>2, <1>9 DEF Now, Here
<1>11. Now \in Config
  BY <1>10 DEF Here, Sim
<1> DEFINE h == [j \in 0 .. 0 |-> [c |-> Now, made |-> 0]]
<1>12. h \in [0 .. 0 -> [c : Config, made : Nat]] /\ h[0] = [c |-> Now, made |-> 0]
  BY <1>11
<1> HIDE DEF h
<1>13. Recorded(log, h, 0)
  BY <1>12 DEF Recorded
<1>14. StandsAt(h, 0, 0, Q, L)
  BY <1>2, <1>10, <1>12, <1>13 DEF StandsAt
<1>15. log \in Seq(Event) /\ (\A i \in 1 .. Len(log) : log[i] # None) /\ at \in Nat
  BY <1>2
<1>16. 0 \in Nat /\ 0 \in 0 .. 0
  OBVIOUS
<1> QED BY <1>14, <1>15, <1>16 DEF Replays

LEMMA ReplaysInterpret ==
  ASSUME NEW Q, NEW L, Replays(Q, L), Interpret
  PROVE  Replays(Q, L)'
<1> SUFFICES ASSUME ~retried'
             PROVE  /\ log' \in Seq(Event) /\ \A i \in 1 .. Len(log') : log'[i] # None
                    /\ at' \in Nat
                    /\ \E n \in Nat : \E h : \E k \in 0 .. n : StandsAt(h, n, k, Q, L)'
  BY DEF Replays
<1>1. /\ phase = "interpreted" /\ I!Step /\ ~retried /\ ~(I!InLoop /\ iret = "runtime")
      /\ log' = IF ievent' = None THEN log ELSE Append(log, ievent')
      /\ tstack' = tstack /\ tret' = tret /\ tterminate' = tterminate /\ phase' = phase /\ at' = at
  BY DEF Interpret, generated
<1>2. Goes(Now, Now', ievent')
  BY <1>1, StepGoes
<1>3. log \in Seq(Event) /\ (\A i \in 1 .. Len(log) : log[i] # None) /\ at \in Nat
  BY <1>1 DEF Replays
<1>4. PICK n \in Nat : \E h : \E k \in 0 .. n : StandsAt(h, n, k, Q, L)
  BY <1>1 DEF Replays
<1>5. PICK h : \E k \in 0 .. n : StandsAt(h, n, k, Q, L)
  BY <1>4
<1>6. PICK k \in 0 .. n : StandsAt(h, n, k, Q, L)
  BY <1>5
<1>7. /\ h \in [0 .. n -> [c : Config, made : Nat]] /\ h[n] = [c |-> Now, made |-> Len(log)]
      /\ \A j \in 0 .. n - 1 : \E e : Goes(h[j].c, h[j + 1].c, e) /\ Logged(log, h[j].made, h[j + 1].made, e)
      /\ Here(h[k].c, Q, L) /\ h[k].made = at
  BY <1>1, <1>6 DEF StandsAt, Recorded, PastTheLog
<1>8. Now \in Config
  <2>1. h[n] \in [c : Config, made : Nat]
    BY <1>7
  <2> QED BY <1>7, <2>1
<1>9. Now' \in Config /\ ievent' \in Event
  BY <1>2, <1>8, GoesTyped
<1>10. /\ log' \in Seq(Event) /\ Len(log') \in Nat /\ Len(log) \in Nat /\ Len(log) <= Len(log')
       /\ \A i \in 1 .. Len(log) : log'[i] = log[i]
       /\ Len(log') = IF ievent' = None THEN Len(log) ELSE Len(log) + 1
       /\ ievent' # None => log'[Len(log')] = ievent'
  BY <1>1, <1>3, <1>9, AppendProperties, LenProperties
<1>11. \A i \in 1 .. Len(log') : log'[i] # None
  BY <1>3, <1>10
<1> DEFINE m == n + 1
           x == [c |-> Now', made |-> Len(log')]
           w == [j \in 0 .. m |-> IF j = m THEN x ELSE h[j]]
<1>12. x \in [c : Config, made : Nat] /\ x.c = Now' /\ x.made = Len(log')
  BY <1>9, <1>10
<1> HIDE DEF x
<1>13. \A j \in 0 .. n : j \in 0 .. m /\ j # m /\ h[j] \in [c : Config, made : Nat]
  BY <1>7
<1>14. w \in [0 .. m -> [c : Config, made : Nat]] /\ w[m] = x /\ \A j \in 0 .. n : w[j] = h[j]
  <2>1. m \in 0 .. m /\ \A j \in 0 .. m : j # m => j \in 0 .. n
    OBVIOUS
  <2> HIDE DEF m
  <2> QED BY <1>12, <1>13, <2>1
<1> HIDE DEF w
<1>15. \A j \in 0 .. m - 1 : \E e : Goes(w[j].c, w[j + 1].c, e) /\ Logged(log', w[j].made, w[j + 1].made, e)
  <2> TAKE j \in 0 .. m - 1
  <2>1. CASE j = n
    <3>1. w[j] = [c |-> Now, made |-> Len(log)] /\ w[j + 1] = x
      BY <1>7, <1>14, <2>1
    <3>2. Logged(log', Len(log), Len(log'), ievent')
      BY <1>10 DEF Logged
    <3> QED BY <1>2, <1>12, <3>1, <3>2
  <2>2. CASE j # n
    <3>1. j \in 0 .. n - 1 /\ j \in 0 .. n /\ j + 1 \in 0 .. n
      BY <2>2
    <3>2. PICK e : Goes(h[j].c, h[j + 1].c, e) /\ Logged(log, h[j].made, h[j + 1].made, e)
      BY <1>7, <3>1
    <3>3. h[j].made \in Nat /\ h[j + 1].made \in Nat
      BY <1>13, <3>1
    <3>4. Logged(log', h[j].made, h[j + 1].made, e)
      <4>1. CASE e = None
        BY <3>2, <4>1 DEF Logged
      <4>2. CASE e # None
        <5>1. h[j + 1].made = h[j].made + 1 /\ h[j + 1].made <= Len(log) /\ e = log[h[j + 1].made]
          BY <3>2, <4>2 DEF Logged
        <5>2. h[j + 1].made \in 1 .. Len(log) /\ h[j + 1].made <= Len(log')
          BY <1>10, <3>3, <5>1
        <5> QED BY <1>10, <4>2, <5>1, <5>2 DEF Logged
      <4> QED BY <4>1, <4>2
    <3>5. w[j] = h[j] /\ w[j + 1] = h[j + 1]
      BY <1>14, <3>1
    <3> QED BY <3>2, <3>4, <3>5
  <2> QED BY <2>1, <2>2
<1>16. Recorded(log', w, m)
  BY <1>14, <1>15 DEF Recorded
<1>17. k \in 0 .. m /\ m \in Nat /\ w[k] = h[k] /\ w[m] = [c |-> Now', made |-> Len(log')]
  BY <1>13, <1>14 DEF x
<1>18. PICK u : Recorded(log', u, m) /\ u[k] = h[k] /\ u[m] = [c |-> Now', made |-> Len(log')]
  BY <1>16, <1>17
<1>19. Here(u[k].c, Q, L)' /\ (u[k].made = at)'
  BY <1>1, <1>7, <1>18 DEF Here
<1>20. StandsAt(u, m, k, Q, L)'
  BY <1>18, <1>19 DEF StandsAt
<1> QED BY <1>1, <1>3, <1>10, <1>11, <1>17, <1>20

LEMMA ReplaysKept ==
  ASSUME NEW Q, NEW L, Replays(Q, L), UNCHANGED <<interpreter, generated, log, at, retried>>,
         phase = "transpiled" => phase' = phase
  PROVE  Replays(Q, L)'
<1> SUFFICES ASSUME ~retried'
             PROVE  /\ log' \in Seq(Event) /\ \A i \in 1 .. Len(log') : log'[i] # None
                    /\ at' \in Nat
                    /\ \E n \in Nat : \E h : \E k \in 0 .. n : StandsAt(h, n, k, Q, L)'
  BY DEF Replays
<1>1. /\ istack' = istack /\ iret' = iret /\ iterminate' = iterminate /\ tstack' = tstack /\ tret' = tret
      /\ tterminate' = tterminate /\ log' = log /\ at' = at /\ ~retried
  BY DEF interpreter, generated
<1>2. log \in Seq(Event) /\ (\A i \in 1 .. Len(log) : log[i] # None) /\ at \in Nat
  BY <1>1 DEF Replays
<1>3. PICK n \in Nat : \E h : \E k \in 0 .. n : StandsAt(h, n, k, Q, L)
  BY <1>1 DEF Replays
<1>4. PICK h : \E k \in 0 .. n : StandsAt(h, n, k, Q, L)
  BY <1>3
<1>5. PICK k \in 0 .. n : StandsAt(h, n, k, Q, L)
  BY <1>4
<1>6. Now' = Now /\ (Here(h[k].c, Q, L) => Here(h[k].c, Q, L)')
  BY <1>1 DEF Now, Here
<1>7. StandsAt(h, n, k, Q, L)'
  BY <1>1, <1>5, <1>6 DEF StandsAt, PastTheLog, Cut
<1> QED BY <1>1, <1>2, <1>7

(* The generated program goes from where it stands to where the            *)
(* interpreter stood no, one or two steps later, or past the log.          *)
LEMMA StandsNext ==
  ASSUME NEW Q, NEW L, Tame(Q, L), Replay, ~PastTheLog,
         log \in Seq(Event), \A i \in 1 .. Len(log) : log[i] # None, at \in Nat,
         NEW n \in Nat, NEW h, NEW k \in 0 .. n, StandsAt(h, n, k, Q, L)
  PROVE  PastTheLog' \/ \E j \in 0 .. n : Same(h[j].c, Q, L) /\ h[j].made = at'
<1>1. /\ phase = "transpiled" /\ tstack # <<>> /\ T!Next
      /\ phase' = phase /\ log' = log /\ istack' = istack
      /\ \/ tevent' = None /\ at' = at
         \/ at < Len(log) /\ tevent' = log[at + 1] /\ at' = at + 1
  BY DEF Replay, interpreter
<1>2. /\ h \in [0 .. n -> [c : Config, made : Nat]] /\ h[n] = [c |-> Now, made |-> Len(log)]
      /\ \A j \in 0 .. n - 1 : \E e : Goes(h[j].c, h[j + 1].c, e) /\ Logged(log, h[j].made, h[j + 1].made, e)
      /\ Here(h[k].c, Q, L) /\ h[k].made = at
  BY DEF StandsAt, Recorded
<1>3. h[n].c.stack = istack /\ h[n].made = Len(log)
  BY <1>2 DEF Now, Conf
<1>4. Follows(h[k].c, Q, L)
  BY <1>1, <1>2, StepFollows
<1>5. Len(log) \in Nat
  BY LenProperties
<1>6. (tevent' = None => at' = at) /\ (tevent' # None => at < Len(log) /\ tevent' = log[at + 1] /\ at' = at + 1)
  <2>1. at < Len(log) => at + 1 \in 1 .. Len(log)
    BY <1>5
  <2> QED BY <1>1, <2>1
<1>7. h[k].c.stack # <<>>
  BY <1>1, <1>2, OnTop
<1>8. ASSUME k = n, tevent' = None PROVE PastTheLog'
  <2>1. istack # <<>> /\ at = Len(log) /\ at' = at
    BY <1>2, <1>3, <1>6, <1>7, <1>8
  <2> QED BY <1>1, <2>1 DEF PastTheLog, Cut
<1>9. ASSUME k = n PROVE tevent' = None
  <2>1. at = Len(log)
    BY <1>2, <1>3, <1>9
  <2> QED BY <1>5, <1>6, <2>1
<1>10. CASE k = n
  BY <1>8, <1>9, <1>10
<1>11. CASE tevent' = None /\ Same(h[k].c, Q, L)
  BY <1>2, <1>6, <1>11
<1>12. ASSUME k # n PROVE k \in 0 .. n - 1 /\ k + 1 \in 0 .. n
  BY <1>12
<1>13. CASE k # n /\ InOne(h[k].c, Q, L)
  <2>1. PICK e : Goes(h[k].c, h[k + 1].c, e) /\ Logged(log, h[k].made, h[k + 1].made, e)
    BY <1>2, <1>12, <1>13
  <2>2. (e = None <=> tevent' = None) /\ (e = tevent' => Same(h[k + 1].c, Q, L))
    BY <1>13, <2>1 DEF InOne
  <2>3. e = tevent' /\ h[k + 1].made = at'
    BY <1>2, <1>6, <2>1, <2>2 DEF Logged
  <2> QED BY <1>12, <1>13, <2>2, <2>3
<1>14. CASE k # n /\ InTwo(h[k].c, Q, L)
  <2>1. PICK e : Goes(h[k].c, h[k + 1].c, e) /\ Logged(log, h[k].made, h[k + 1].made, e)
    BY <1>2, <1>12, <1>14
  <2>2. /\ tevent' = None /\ e = None /\ h[k + 1].c.stack # <<>>
        /\ \A d, x : Goes(h[k + 1].c, d, x) => x = None /\ Same(d, Q, L)
    BY <1>14, <2>1 DEF InTwo
  <2>3. h[k + 1].made = at /\ at' = at
    BY <1>2, <1>6, <2>1, <2>2 DEF Logged
  <2>4. CASE k + 1 = n
    <3>1. istack # <<>> /\ at' = Len(log)
      BY <1>3, <2>2, <2>3, <2>4
    <3> QED BY <1>1, <3>1 DEF PastTheLog, Cut
  <2>5. CASE k + 1 # n
    <3>1. k + 1 \in 0 .. n - 1 /\ (k + 1) + 1 \in 0 .. n
      BY <1>12, <1>14, <2>5
    <3>2. PICK x : Goes(h[k + 1].c, h[(k + 1) + 1].c, x) /\ Logged(log, h[k + 1].made, h[(k + 1) + 1].made, x)
      BY <1>2, <3>1
    <3>3. x = None /\ Same(h[(k + 1) + 1].c, Q, L)
      BY <2>2, <3>2
    <3>4. h[(k + 1) + 1].made = at'
      BY <2>3, <3>2, <3>3 DEF Logged
    <3> QED BY <3>1, <3>3, <3>4
  <2> QED BY <2>4, <2>5
<1> QED BY <1>4, <1>10, <1>11, <1>13, <1>14 DEF Follows

LEMMA ReplaysReplay ==
  ASSUME NEW Q, NEW L, Tame(Q, L), Replays(Q, L), Replay
  PROVE  Replays(Q, L)'
<1> SUFFICES ASSUME ~retried'
             PROVE  /\ log' \in Seq(Event) /\ \A i \in 1 .. Len(log') : log'[i] # None
                    /\ at' \in Nat
                    /\ \E n \in Nat : \E h : \E k \in 0 .. n : StandsAt(h, n, k, Q, L)'
  BY DEF Replays
<1>1. /\ istack' = istack /\ iret' = iret /\ iterminate' = iterminate /\ phase' = phase
      /\ log' = log /\ ~retried /\ (at' = at \/ at' = at + 1)
      /\ tevent' = None => at' = at \/ at < Len(log)
      /\ at' = at \/ at < Len(log)
  BY DEF Replay, interpreter
<1>2. log \in Seq(Event) /\ (\A i \in 1 .. Len(log) : log[i] # None) /\ at \in Nat
  BY <1>1 DEF Replays
<1>3. PICK n \in Nat : \E h : \E k \in 0 .. n : StandsAt(h, n, k, Q, L)
  BY <1>1 DEF Replays
<1>4. PICK h : \E k \in 0 .. n : StandsAt(h, n, k, Q, L)
  BY <1>3
<1>5. PICK k \in 0 .. n : StandsAt(h, n, k, Q, L)
  BY <1>4
<1>6. Now' = Now /\ at' \in Nat
  BY <1>1, <1>2 DEF Now
<1>7. Recorded(log', h, n) /\ h[n] = [c |-> Now', made |-> Len(log')]
  BY <1>1, <1>5, <1>6 DEF StandsAt
<1>8. ASSUME PastTheLog PROVE PastTheLog'
  <2>1. at = Len(log) /\ ~(at < Len(log))
    BY <1>2, <1>8, LenProperties DEF PastTheLog
  <2> QED BY <1>1, <1>8, <2>1 DEF PastTheLog, Cut
<1>9. CASE PastTheLog'
  <2>1. StandsAt(h, n, k, Q, L)'
    BY <1>7, <1>9 DEF StandsAt
  <2> QED BY <1>1, <1>2, <1>6, <2>1
<1>10. CASE ~PastTheLog'
  <2>1. PICK j \in 0 .. n : Same(h[j].c, Q, L) /\ h[j].made = at'
    BY <1>2, <1>5, <1>8, <1>10, StandsNext
  <2>2. Here(h[j].c, Q, L)'
    BY <2>1 DEF Here, Same
  <2>3. StandsAt(h, n, j, Q, L)'
    BY <1>7, <2>1, <2>2 DEF StandsAt
  <2> QED BY <1>1, <1>2, <1>6, <2>3
<1> QED BY <1>9, <1>10

(* Where the generated program stands it starts what the interpreter       *)
(* started, and ended if that ended.                                       *)
LEMMA ReplaysAgree ==
  ASSUME NEW Q, NEW L, Tame(Q, L), Replays(Q, L)
  PROVE  Agree
<1> SUFFICES ASSUME ~retried, phase = "transpiled"
             PROVE  /\ Elsewhere => Cut /\ at = Len(log)
                    /\ tstack = <<>> => at = Len(log)
                    /\ tstack = <<>> /\ ~Cut => (iret = "ok" <=> tret = "ok") /\ (iret = "exit" <=> tret = "exit")
  BY DEF Agree, SameStatements, SameOutcome
<1>1. log \in Seq(Event) /\ (\A i \in 1 .. Len(log) : log[i] # None) /\ at \in Nat
  BY DEF Replays
<1>2. PICK n \in Nat : \E h : \E k \in 0 .. n : StandsAt(h, n, k, Q, L)
  BY DEF Replays
<1>3. PICK h : \E k \in 0 .. n : StandsAt(h, n, k, Q, L)
  BY <1>2
<1>4. PICK k \in 0 .. n : StandsAt(h, n, k, Q, L)
  BY <1>3
<1>5. CASE PastTheLog
  BY <1>5 DEF PastTheLog
<1>6. CASE ~PastTheLog
  <2> DEFINE c == h[k].c
  <2>1. /\ h \in [0 .. n -> [c : Config, made : Nat]] /\ h[n] = [c |-> Now, made |-> Len(log)]
        /\ \A j \in 0 .. n - 1 : \E e : Goes(h[j].c, h[j + 1].c, e) /\ Logged(log, h[j].made, h[j + 1].made, e)
        /\ Here(c, Q, L) /\ h[k].made = at
    BY <1>4, <1>6 DEF StandsAt, Recorded
  <2>2. k = n => at = Len(log) /\ c = Now
    BY <2>1
  <2>3. k # n => \E d, e : Goes(c, d, e) /\ Logged(log, at, h[k + 1].made, e)
    <3>1. k # n => k \in 0 .. n - 1
      OBVIOUS
    <3> QED BY <2>1, <3>1
  <2> HIDE DEF c
  <2>4. ASSUME Elsewhere PROVE Cut /\ at = Len(log)
    <3>1. T!Starting /\ T!Current.op \notin Silent /\ ~(at < Len(log) /\ log[at + 1].name = T!Current.name)
      BY <2>4 DEF Elsewhere
    <3>2. /\ Starts(c) /\ T!Current \in Stmt
          /\ \A d, e : Goes(c, d, e) => Begins(c, d, e, T!Current)
      BY <2>1, <3>1, SameStart
    <3> DEFINE s == T!Current
    <3> HIDE DEF s
    <3>3. ASSUME NEW d, NEW e, Begins(c, d, e, s) PROVE e # None /\ e.name = s.name
      <4>1. /\ s.op \notin Silent /\ s \in Stmt
        BY <3>1, <3>2 DEF s
      <4> HIDE DEF s
      <4>2. \A r \in Failures(s) : r # "none"
        BY DEF Failures
      <4>3. s.op # "terminate" /\ s.op # "try" /\ s.op # "dont_panic" /\ s.op # "loop"
        BY <4>1 DEF Silent
      <4>4. /\ "ok" # "none" /\ "then" # "none" /\ "else" # "none" /\ "call" # "none" /\ "empty" # "none"
        OBVIOUS
      <4>5. \/ \E r : e = Chose(s, r) /\ r # "none"
            \/ \E m : e = HasItems(s, m)
        <5>1. \/ e = Chose(s, "ok") \/ e = Chose(s, "then") \/ e = Chose(s, "else") \/ e = Chose(s, "call")
              \/ e = Chose(s, "empty")
              \/ \E r \in Failures(s) : e = Chose(s, r)
              \/ \E m : e = HasItems(s, m)
          BY <3>3, <4>3 DEF Begins
        <5> QED BY <4>2, <4>4, <5>1
      <4>6. e.name = s.name /\ e.choice # "none"
        BY <4>5 DEF Chose, HasItems
      <4> QED BY <4>6 DEF None
    <3>4. k = n
      <4> SUFFICES ASSUME k # n PROVE FALSE
        OBVIOUS
      <4>1. PICK d, e : Goes(c, d, e) /\ Logged(log, at, h[k + 1].made, e)
        BY <2>3
      <4>2. e # None /\ e.name = s.name
        BY <3>2, <3>3, <4>1 DEF s
      <4>3. at + 1 <= Len(log) /\ e = log[at + 1]
        BY <4>1, <4>2 DEF Logged
      <4>4. at < Len(log)
        BY <1>1, <4>3, LenProperties
      <4> QED BY <3>1, <4>2, <4>3, <4>4 DEF s
    <3>5. istack # <<>>
      BY <2>2, <3>2, <3>4 DEF Starts, Now, Conf
    <3> QED BY <2>2, <3>4, <3>5 DEF Cut
  <2>5. ASSUME tstack = <<>> PROVE at = Len(log) /\ Alike(tret, iret)
    <3>1. /\ c.stack \in Seq(IFrame) /\ tterminate \in BOOLEAN /\ ~tterminate
          /\ Matched(tstack, c.stack, ~tterminate) /\ Alike(tret, c.ret)
      BY <2>1, <2>5 DEF Here, Sim, Config, Pending
    <3>2. c.stack = <<>>
      BY <2>5, <3>1, EmptySeq DEF Matched, Mapped
    <3>3. k = n
      BY <2>3, <3>2 DEF Goes, Starts
    <3> QED BY <2>2, <3>1, <3>3 DEF Now, Conf
  <2> QED BY <2>4, <2>5 DEF Alike, Caught
<1> QED BY <1>5, <1>6

(* A script that a terminate leaves only where both take it alike, that is *)
(* only through ifs and to the loop around it, starts the same statements  *)
(* in the same order in both runs and ends with the same outcome, whatever *)
(* fails and whatever the nesting of its loops, fallbacks and procedures   *)
(* (exec_stmt and execute_block against Transpiler::transpile_stmt).       *)
THEOREM TranspiledAgrees ==
  ASSUME NEW Q, NEW L, Tame(Q, L), \A p \in Programs : All(p, Q)
  PROVE  MachinesSpec => []Agree
<1>1. MachinesInit => Replays(Q, L)
  BY ReplaysInit
<1>2. Replays(Q, L) /\ [MachinesNext]_machines => Replays(Q, L)'
  <2> SUFFICES ASSUME Replays(Q, L), [MachinesNext]_machines PROVE Replays(Q, L)'
    OBVIOUS
  <2>1. CASE Interpret
    BY <2>1, ReplaysInterpret
  <2>2. CASE Transpile
    <3>1. UNCHANGED <<interpreter, generated, log, at, retried>> /\ phase # "transpiled"
      BY <2>2 DEF Transpile
    <3> QED BY <3>1, ReplaysKept
  <2>3. CASE Replay
    BY <2>3, ReplaysReplay
  <2>4. CASE Compared \/ UNCHANGED machines
    <3>1. UNCHANGED <<interpreter, generated, log, at, retried>> /\ phase' = phase
      BY <2>4 DEF Compared, machines
    <3> QED BY <3>1, ReplaysKept
  <2> QED BY <2>1, <2>2, <2>3, <2>4 DEF MachinesNext
<1>3. Replays(Q, L) => Agree
  BY ReplaysAgree
<1> QED BY <1>1, <1>2, <1>3, PTL DEF MachinesSpec
==============================================================================
