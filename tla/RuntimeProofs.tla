---------------------------- MODULE RuntimeProofs ----------------------------
(***************************************************************************)
(* What the runtime keeps for scripts: the variables of procedure calls,   *)
(* for every number of variables, parameters and nested calls; and the     *)
(* handles, for every number of tests and of things that are opened.  Then *)
(* the library, for all that may be asked: the orders its lists are sorted *)
(* by, the function a call runs, the calls of a program that are counted,  *)
(* the arguments of a command line, names and tables in columns, and the   *)
(* bind markers of SQL.                                                    *)
(*                                                                         *)
(* IInv says of every call that what it saved is what its parameters'      *)
(* names held when it began, that only the innermost call copies back, and *)
(* that the loop has copied back the parameters before the next one: the   *)
(* loop invariant, from which the result of the whole call follows when    *)
(* the last parameter is copied back.                                      *)
(***************************************************************************)
EXTENDS ProcedureCall, Sessions, Library, SequenceTheorems, FiniteSetTheorems,
        WellFoundedInduction, TLAPS

(* A call that has saved its parameters.                                   *)
GoodCall(c) ==
  /\ c \in Call
  /\ c.next <= Len(c.params) /\ Len(c.params) <= Len(c.outer) /\ Len(c.params) = Len(c.saved)
  /\ Distinct(c.params) => \A i \in 1 .. Len(c.params) : c.saved[i] = c.before[c.params[i]]

LoopInvariant == calls # <<>> /\ Top.next > 0 /\ Clean(Top) => CopiedUpTo(Top, Top.next - 1, vars)

IInv ==
  /\ CallsTypeOK
  /\ \A i \in 1 .. Len(calls) : GoodCall(calls[i])
  /\ \A i \in 1 .. Len(calls) - 1 : calls[i].next = 0
  /\ LoopInvariant

LEMMA PopIs ==
  ASSUME calls \in Seq(Call), calls # <<>>
  PROVE  /\ Len(calls) \in Nat /\ Len(calls) >= 1
         /\ Pop \in Seq(Call) /\ Len(Pop) = Len(calls) - 1
         /\ \A i \in 1 .. Len(calls) - 1 : Pop[i] = calls[i]
<1> DEFINE n == Len(calls)
<1>1. n \in Nat /\ n >= 1
  OBVIOUS
<1>2. \A i \in 1 .. n - 1 : calls[i] \in Call
  BY <1>1
<1>3. n - 1 \in Int
  BY <1>1
<1>h. n = Len(calls)
  OBVIOUS
<1> HIDE DEF n
<1>4. /\ SubSeq(calls, 1, n - 1) \in Seq(Call)
      /\ Len(SubSeq(calls, 1, n - 1)) = IF 1 <= n - 1 THEN n - 1 - 1 + 1 ELSE 0
      /\ \A i \in 1 .. n - 1 - 1 + 1 : SubSeq(calls, 1, n - 1)[i] = calls[1 + i - 1]
  BY <1>2, <1>3, SubSeqProperties
<1>5. Len(SubSeq(calls, 1, n - 1)) = n - 1
  BY <1>1, <1>4
<1>6. ASSUME NEW i \in 1 .. n - 1 PROVE SubSeq(calls, 1, n - 1)[i] = calls[i]
  <2>1. 1 + i - 1 = i /\ i \in 1 .. n - 1 - 1 + 1
    BY <1>1
  <2> QED BY <1>4, <2>1
<1> QED BY <1>1, <1>4, <1>5, <1>6, <1>h DEF Pop

(* Replacing the innermost call by itself with another next and after.     *)
LEMMA AdvanceGood ==
  ASSUME NEW c, GoodCall(c), NEW k \in Nat, k <= Len(c.params), NEW t \in [Names -> Slot]
  PROVE  GoodCall([c EXCEPT !.next = k]) /\ GoodCall([c EXCEPT !.next = k, !.after = t])
BY DEF GoodCall, Call

LEMMA SwapGood ==
  ASSUME IInv, calls # <<>>, NEW c, GoodCall(c), calls' = Append(Pop, c)
  PROVE  /\ calls' \in Seq(Call) /\ Len(calls') = Len(calls) /\ Top' = c
         /\ \A i \in 1 .. Len(calls') : GoodCall(calls'[i])
         /\ \A i \in 1 .. Len(calls') - 1 : calls'[i].next = 0
<1>1. /\ Len(calls) \in Nat /\ Len(calls) >= 1
      /\ Pop \in Seq(Call) /\ Len(Pop) = Len(calls) - 1
      /\ \A i \in 1 .. Len(calls) - 1 : Pop[i] = calls[i]
  BY PopIs DEF IInv, CallsTypeOK
<1>2. c \in Call
  BY DEF GoodCall
<1>3. /\ calls' \in Seq(Call) /\ Len(calls') = Len(calls) /\ calls'[Len(calls)] = c
      /\ \A i \in 1 .. Len(calls) - 1 : calls'[i] = calls[i]
  BY <1>1, <1>2
<1> QED BY <1>1, <1>3 DEF IInv, Top

LEMMA PopGood ==
  ASSUME IInv, calls # <<>>, calls' = Pop
  PROVE  /\ calls' \in Seq(Call) /\ Len(calls') = Len(calls) - 1
         /\ \A i \in 1 .. Len(calls') : GoodCall(calls'[i]) /\ calls'[i].next = 0
<1>1. /\ Len(calls) \in Nat /\ Len(calls) >= 1
      /\ Pop \in Seq(Call) /\ Len(Pop) = Len(calls) - 1
      /\ \A i \in 1 .. Len(calls) - 1 : Pop[i] = calls[i]
  BY PopIs DEF IInv, CallsTypeOK
<1> QED BY <1>1 DEF IInv

LEMMA TopGood ==
  ASSUME IInv, calls # <<>>
  PROVE  GoodCall(Top) /\ Top \in Call /\ Len(calls) \in Nat /\ Len(calls) >= 1
<1>1. Len(calls) \in 1 .. Len(calls)
  BY DEF IInv, CallsTypeOK
<1> QED BY <1>1 DEF IInv, Top, GoodCall

(* One iteration of the copy-back extends the loop invariant.              *)
LEMMA CopyStep ==
  ASSUME IInv, calls # <<>>, Top.next > 0, Clean(Top),
         vars' = CopiedBack(Top.params[Top.next], Top.outer[Top.next], Top.saved[Top.next])
  PROVE  CopiedUpTo(Top, Top.next, vars')
<1> DEFINE c == Top
           k == Top.next
           p == c.params[k]
           o == c.outer[k]
<1>1. /\ GoodCall(c) /\ c \in Call /\ k \in Nat /\ k >= 1 /\ k = c.next
      /\ k <= Len(c.params) /\ Len(c.params) <= Len(c.outer)
      /\ Len(c.params) \in Nat /\ Len(c.outer) \in Nat /\ vars \in [Names -> Slot]
  <2>1. GoodCall(c) /\ c \in Call /\ vars \in [Names -> Slot] /\ c.next > 0
    BY TopGood DEF IInv, CallsTypeOK
  <2> HIDE DEF c
  <2>2. k = c.next
    BY DEF c
  <2> QED BY <2>1, <2>2 DEF GoodCall, Call
<1>2. /\ p \in Names /\ o \in Names \cup {Literal} /\ c.saved[k] = c.before[p]
      /\ \A i \in 1 .. k : c.params[i] \in Names /\ c.outer[i] \in Names \cup {Literal}
  BY <1>1 DEF GoodCall, Call, Clean
<1>3. CopiedUpTo(c, k - 1, vars)
  BY DEF IInv, LoopInvariant
<1>4. /\ \A i, j \in 1 .. k : i # j => c.params[i] # c.params[j]
      /\ \A i, j \in 1 .. k : c.outer[i] # c.params[j]
  <2>1. /\ \A i, j \in 1 .. Len(c.params) : i # j => c.params[i] # c.params[j]
        /\ \A i, j \in 1 .. Len(c.params) : c.outer[i] # c.params[j]
    BY <1>1 DEF Clean, Distinct, Named
  <2>2. 1 .. k \subseteq 1 .. Len(c.params)
    BY <1>1
  <2> QED BY <2>1, <2>2
<1>5. /\ vars'[p] = c.before[p]
      /\ o # Literal => vars'[o] = HeldBy(vars[p])
      /\ \A n \in Names : n # p /\ n # o => vars'[n] = vars[n]
  <2>1. o # p
    BY <1>1, <1>4
  <2>2. CASE o = Literal
    BY <1>1, <1>2, <2>1, <2>2, ListsAssumption DEF CopiedBack
  <2>3. CASE o # Literal
    BY <1>1, <1>2, <2>1, <2>3 DEF CopiedBack
  <2> QED BY <2>2, <2>3
<1>6. vars[p] = c.after[p]
  <2>1. \A i \in 1 .. k - 1 : p # c.params[i] /\ p # c.outer[i]
    BY <1>1, <1>4
  <2> QED BY <1>2, <1>3, <2>1 DEF CopiedUpTo
<1> HIDE DEF c, k, p, o
<1>7. ASSUME NEW i \in 1 .. k PROVE vars'[c.params[i]] = c.before[c.params[i]]
  <2>1. CASE i = k
    BY <1>5, <2>1 DEF p
  <2>2. CASE i # k
    <3>1. i \in 1 .. k - 1 /\ k \in 1 .. k
      BY <1>1, <2>2
    <3>2. c.params[i] # p /\ c.params[i] # o /\ c.params[i] \in Names
      BY <1>2, <1>4, <2>2, <3>1 DEF p, o
    <3> QED BY <1>3, <1>5, <3>1, <3>2 DEF CopiedUpTo
  <2> QED BY <2>1, <2>2
<1>8. ASSUME NEW i \in 1 .. k, c.outer[i] # Literal, LastAmong(c.outer, i, k)
      PROVE  vars'[c.outer[i]] = HeldBy(c.after[c.params[i]])
  <2>1. CASE i = k
    BY <1>5, <1>6, <1>8, <2>1 DEF p, o
  <2>2. CASE i # k
    <3>1. i \in 1 .. k - 1 /\ k \in i + 1 .. k /\ k \in 1 .. k
      BY <1>1, <2>2
    <3>2. c.outer[i] # o /\ c.outer[i] # p /\ c.outer[i] \in Names
      BY <1>2, <1>4, <1>8, <3>1 DEF LastAmong, p, o
    <3>3. LastAmong(c.outer, i, k - 1)
      BY <1>1, <1>8 DEF LastAmong
    <3> QED BY <1>3, <1>5, <1>8, <3>1, <3>2, <3>3 DEF CopiedUpTo
  <2> QED BY <2>1, <2>2
<1>9. ASSUME NEW n \in Names, \A i \in 1 .. k : n # c.params[i] /\ n # c.outer[i]
      PROVE  vars'[n] = c.after[n]
  <2>1. k \in 1 .. k /\ \A i \in 1 .. k - 1 : i \in 1 .. k
    BY <1>1
  <2>2. n # p /\ n # o
    BY <1>9, <2>1 DEF p, o
  <2> QED BY <1>3, <1>5, <1>9, <2>1, <2>2 DEF CopiedUpTo
<1> QED BY <1>7, <1>8, <1>9 DEF CopiedUpTo, c, k

(* Before the first call there is nothing to save.                         *)
THEOREM InitIInv == CallsInit => IInv
<1> SUFFICES ASSUME CallsInit PROVE IInv
  OBVIOUS
<1>1. calls = <<>> /\ native \in BOOLEAN /\ vars \in [Names -> Slot] /\ failing \in BOOLEAN
  BY DEF CallsInit, Slot
<1>2. CallsTypeOK
  <2>1. calls \in Seq(Call) /\ \A i \in 1 .. Len(calls) : FALSE
    BY <1>1
  <2> QED BY <1>1, <2>1 DEF CallsTypeOK
<1> QED BY <1>1, <1>2 DEF IInv, LoopInvariant

(* What a body does between calls disturbs no copy-back: there is none.    *)
LEMMA BodyIInv ==
  ASSUME IInv, Running, vars' \in [Names -> Slot], failing' \in BOOLEAN, UNCHANGED <<native, calls>>
  PROVE  IInv'
<1>1. CallsTypeOK'
  BY DEF IInv, CallsTypeOK
<1>2. LoopInvariant'
  BY DEF LoopInvariant, Running, Top, IInv, CallsTypeOK
<1> QED BY <1>1, <1>2 DEF IInv

(* A call that begins is good, and the one below it is running its body.   *)
LEMMA EnterIInv ==
  ASSUME IInv, Running, NEW params \in Params, NEW outer \in Outers, NEW args,
         Len(params) <= Len(outer), Enter(params, outer, args)
  PROVE  IInv'
<1> DEFINE c == [params |-> params, outer |-> outer, saved |-> Saved(params), next |-> 0,
                 before |-> vars, after |-> vars]
<1>1. /\ params \in Seq(Names) /\ outer \in Seq(Names \cup {Literal}) /\ vars \in [Names -> Slot]
      /\ calls \in Seq(Call) /\ Len(calls) \in Nat
  BY ListsAssumption DEF IInv, CallsTypeOK
<1>2. Saved(params) \in Seq(Slot) /\ Len(Saved(params)) = Len(params)
  <2>1. \A i \in 1 .. Len(params) : params[i] \in Names
    BY <1>1
  <2>2. Saved(params) \in [1 .. Len(params) -> Slot]
    BY <1>1, <2>1 DEF Saved, Slot
  <2>3. Len(params) \in Nat /\ DOMAIN Saved(params) = 1 .. Len(params)
    BY <1>1 DEF Saved
  <2> QED BY <2>2, <2>3
<1>3. GoodCall(c)
  <2>1. c \in Call
    BY <1>1, <1>2 DEF Call
  <2>2. ASSUME Distinct(params), NEW i \in 1 .. Len(params)
        PROVE  Saved(params)[i] = vars[params[i]]
    BY <1>1, <2>2 DEF Saved, Distinct
  <2> QED BY <1>1, <1>2, <2>1, <2>2 DEF GoodCall
<1>4. calls' = Append(calls, c) /\ vars' \in [Names -> Slot] /\ UNCHANGED <<native, failing>>
  BY DEF Enter, AfterBinding
<1>5. c \in Call /\ c.next = 0
  BY <1>3 DEF GoodCall
<1> HIDE DEF c
<1>6. /\ calls' \in Seq(Call) /\ Len(calls') = Len(calls) + 1 /\ calls'[Len(calls) + 1] = c
      /\ \A i \in 1 .. Len(calls) : calls'[i] = calls[i]
  BY <1>1, <1>4, <1>5
<1>7. \A i \in 1 .. Len(calls) : calls[i].next = 0
  BY <1>1 DEF IInv, Running, Top
<1>8. \A i \in 1 .. Len(calls') : GoodCall(calls'[i])
  BY <1>1, <1>3, <1>6 DEF IInv
<1>9. \A i \in 1 .. Len(calls') - 1 : calls'[i].next = 0
  BY <1>1, <1>6, <1>7
<1>10. CallsTypeOK'
  BY <1>4, <1>6, <1>8 DEF IInv, CallsTypeOK, GoodCall
<1>11. LoopInvariant'
  BY <1>1, <1>5, <1>6 DEF LoopInvariant, Top
<1> QED BY <1>8, <1>9, <1>10, <1>11 DEF IInv

LEMMA EndBodyIInv == ASSUME IInv, EndBody PROVE IInv'
<1>1. IInv /\ calls # <<>> /\ Top.next = 0 /\ UNCHANGED <<native, vars, failing>>
  BY DEF EndBody
<1>2. CASE (native /\ failing) \/ Top.params = <<>>
  <2>1. calls' = Pop
    BY <1>2 DEF EndBody
  <2>2. /\ calls' \in Seq(Call) /\ Len(calls') \in Nat
        /\ \A i \in 1 .. Len(calls') : GoodCall(calls'[i]) /\ calls'[i].next = 0
    BY <1>1, <2>1, PopGood
  <2>3. CallsTypeOK'
    BY <1>1, <2>2 DEF IInv, CallsTypeOK, GoodCall
  <2>4. LoopInvariant'
    BY <2>2 DEF LoopInvariant, Top
  <2> QED BY <2>2, <2>3, <2>4 DEF IInv
<1>3. CASE ~((native /\ failing) \/ Top.params = <<>>)
  <2> DEFINE d == [Top EXCEPT !.next = 1, !.after = vars]
  <2>1. calls' = Append(Pop, d)
    BY <1>3 DEF EndBody
  <2>2. GoodCall(Top) /\ vars \in [Names -> Slot] /\ Len(Top.params) >= 1
    <3>1. GoodCall(Top) /\ Top.params \in Seq(Names) /\ Top.params # <<>>
      BY <1>1, <1>3, TopGood DEF Call
    <3> QED BY <3>1 DEF IInv, CallsTypeOK
  <2>3. GoodCall(d)
    BY <2>2, AdvanceGood
  <2>4. d.next = 1 /\ d.after = vars
    BY <2>2 DEF GoodCall, Call
  <2> HIDE DEF d
  <2>5. /\ calls' \in Seq(Call) /\ Len(calls') = Len(calls) /\ Top' = d
        /\ \A i \in 1 .. Len(calls') : GoodCall(calls'[i])
        /\ \A i \in 1 .. Len(calls') - 1 : calls'[i].next = 0
    BY <1>1, <2>1, <2>3, SwapGood
  <2>6. CallsTypeOK'
    BY <1>1, <2>5 DEF IInv, CallsTypeOK, GoodCall
  <2>7. CopiedUpTo(d, 0, vars)
    BY <2>4 DEF CopiedUpTo
  <2>8. LoopInvariant'
    BY <1>1, <2>4, <2>5, <2>7 DEF LoopInvariant
  <2> QED BY <2>5, <2>6, <2>8 DEF IInv
<1> QED BY <1>2, <1>3

LEMMA CopyBackIInv == ASSUME IInv, CopyBack PROVE IInv'
<1>1. /\ IInv /\ calls # <<>> /\ Top.next > 0 /\ UNCHANGED <<native, failing>>
      /\ vars' = CopiedBack(Top.params[Top.next], Top.outer[Top.next], Top.saved[Top.next])
  BY DEF CopyBack
<1>2. GoodCall(Top) /\ Top \in Call
  BY <1>1, TopGood
<1>3. vars' \in [Names -> Slot]
  <2>1. /\ Top.next \in 1 .. Len(Top.params) /\ Top.next \in 1 .. Len(Top.outer)
        /\ Top.next \in 1 .. Len(Top.saved)
    BY <1>1, <1>2 DEF GoodCall, Call
  <2>2. /\ Top.params[Top.next] \in Names /\ Top.outer[Top.next] \in Names \cup {Literal}
        /\ Top.saved[Top.next] \in Slot
    BY <1>2, <2>1 DEF Call
  <2>3. \A slot \in Slot : HeldBy(slot) \in Slot
    BY ValuesAssumption DEF HeldBy, Slot
  <2> QED BY <1>1, <2>2, <2>3 DEF IInv, CallsTypeOK, CopiedBack
<1>4. CASE Top.next = Len(Top.params)
  <2>1. calls' = Pop
    BY <1>4 DEF CopyBack
  <2>2. /\ calls' \in Seq(Call) /\ Len(calls') \in Nat
        /\ \A i \in 1 .. Len(calls') : GoodCall(calls'[i]) /\ calls'[i].next = 0
    BY <1>1, <2>1, PopGood
  <2>3. CallsTypeOK'
    BY <1>1, <1>3, <2>2 DEF IInv, CallsTypeOK, GoodCall
  <2>4. LoopInvariant'
    BY <2>2 DEF LoopInvariant, Top
  <2> QED BY <2>2, <2>3, <2>4 DEF IInv
<1>5. CASE Top.next # Len(Top.params)
  <2> DEFINE d == [Top EXCEPT !.next = @ + 1]
  <2>1. calls' = Append(Pop, d)
    BY <1>5 DEF CopyBack
  <2>2. GoodCall(d)
    <3>1. Top.next + 1 \in Nat /\ Top.next + 1 <= Len(Top.params) /\ Top.after \in [Names -> Slot]
      BY <1>1, <1>2, <1>5 DEF GoodCall, Call
    <3> QED BY <1>2, <3>1, AdvanceGood
  <2>3. /\ d.next = Top.next + 1 /\ d.params = Top.params /\ d.outer = Top.outer
        /\ d.before = Top.before /\ d.after = Top.after /\ Top.next \in Nat
    BY <1>2 DEF Call
  <2> HIDE DEF d
  <2>4. /\ calls' \in Seq(Call) /\ Len(calls') = Len(calls) /\ Top' = d
        /\ \A i \in 1 .. Len(calls') : GoodCall(calls'[i])
        /\ \A i \in 1 .. Len(calls') - 1 : calls'[i].next = 0
    BY <1>1, <2>1, <2>2, SwapGood
  <2>5. CallsTypeOK'
    BY <1>1, <1>3, <2>4 DEF IInv, CallsTypeOK, GoodCall
  <2>6. ASSUME Clean(d) PROVE CopiedUpTo(d, d.next - 1, vars')
    <3>1. Clean(Top)
      BY <2>3, <2>6 DEF Clean
    <3>2. CopiedUpTo(Top, Top.next, vars')
      BY <1>1, <3>1, CopyStep
    <3>3. d.next - 1 = Top.next
      BY <2>3
    <3> QED BY <2>3, <3>2, <3>3 DEF CopiedUpTo
  <2>7. LoopInvariant'
    BY <2>4, <2>6 DEF LoopInvariant
  <2> QED BY <2>4, <2>5, <2>7 DEF IInv
<1> QED BY <1>4, <1>5

LEMMA NextIInv == ASSUME IInv, [CallsNext]_state PROVE IInv'
<1>1. CASE AssignVariable \/ Raise \/ Catch
  <2>1. Running /\ vars' \in [Names -> Slot] /\ failing' \in BOOLEAN /\ UNCHANGED <<native, calls>>
    BY <1>1 DEF AssignVariable, Raise, Catch, IInv, CallsTypeOK, Slot
  <2> QED BY <2>1, BodyIInv
<1>2. CASE EndBody
  BY <1>2, EndBodyIInv
<1>3. CASE CopyBack
  BY <1>3, CopyBackIInv
<1>4. ASSUME NEW params \in Params, NEW outer \in Outers,
             CallInterpreted(params, outer) \/ CallNative(params, outer)
      PROVE  IInv'
  <2>1. Len(params) <= Len(outer) /\ Running
    BY <1>4, ListsAssumption DEF CallInterpreted, CallNative
  <2>2. PICK args : Enter(params, outer, args)
    BY <1>4 DEF CallInterpreted, CallNative
  <2> QED BY <2>1, <2>2, EnterIInv
<1>5. ASSUME NEW params \in Params, NEW outer \in Outers,
             CallRejected(params, outer) \/ CallNativeRejected(params, outer)
      PROVE  IInv'
  <2>1. /\ Running /\ vars' \in [Names -> Slot] /\ failing' \in BOOLEAN
        /\ UNCHANGED <<native, calls>>
    BY <1>5 DEF CallRejected, CallNativeRejected, Removed, IInv, CallsTypeOK, Slot
  <2> QED BY <2>1, BodyIInv
<1>6. CASE UNCHANGED state
  BY <1>6 DEF state, IInv, CallsTypeOK, LoopInvariant, Top
<1> QED BY <1>1, <1>2, <1>3, <1>4, <1>5, <1>6 DEF CallsNext

(* The loop invariant of copying back holds in every call (IInv).          *)
THEOREM Invariance == CallsSpec => []IInv
BY InitIInv, NextIInv, PTL DEF CallsSpec

(* Variables, calls and what calls save keep their types; a call copies    *)
(* back no parameter it has not (exec_procedure_call's loop).              *)
THEOREM TypeCorrect == CallsSpec => []CallsTypeOK
<1>1. IInv => CallsTypeOK
  BY DEF IInv
<1> QED BY <1>1, Invariance, PTL

(* Every call whose parameters are distinct and not named like a variable  *)
(* passed to it is by reference and leaks nothing, for any number of       *)
(* parameters and any depth, in the interpreter also when the body fails.  *)
THEOREM ByReference == CallsSpec => CallsByReference
<1> DEFINE A == Returning /\ Clean(Top) => CopiedUpTo(Top, Len(Top.params), vars')
<1>1. ASSUME IInv, [CallsNext]_state PROVE [A]_state
  <2> SUFFICES ASSUME CallsNext, Returning, Clean(Top)
               PROVE  CopiedUpTo(Top, Len(Top.params), vars')
    BY <1>1
  <2>1. calls # <<>> /\ Top.next > 0 /\ Len(calls') < Len(calls) /\ Top.next \in Nat
    BY <1>1, TopGood DEF Returning, Call
  <2>2. CopyBack
    BY <2>1 DEF CallsNext, AssignVariable, Raise, Catch, EndBody, Running, CallInterpreted, CallRejected,
               CallNative, CallNativeRejected
  <2>3. Top.next = Len(Top.params)
    <3>1. SUFFICES ASSUME Top.next # Len(Top.params) PROVE FALSE
      OBVIOUS
    <3>2. calls' = Append(Pop, [Top EXCEPT !.next = @ + 1])
      BY <2>2, <3>1 DEF CopyBack
    <3>3. Len(calls) \in Nat /\ Len(Pop) = Len(calls) - 1 /\ Pop \in Seq(Call)
      BY <1>1, <2>1, PopIs DEF IInv, CallsTypeOK
    <3> QED BY <2>1, <3>2, <3>3
  <2>4. vars' = CopiedBack(Top.params[Top.next], Top.outer[Top.next], Top.saved[Top.next])
    BY <2>2 DEF CopyBack
  <2> QED BY <1>1, <2>1, <2>3, <2>4, CopyStep
<1>2. [][A]_state => CallsByReference
  BY DEF CallsByReference
<1> QED BY <1>1, <1>2, Invariance, PTL DEF CallsSpec
-----------------------------------------------------------------------------
(* The type invariant: every live state has its counters, and entries and  *)
(* handles are of things that were opened, in states that were made.       *)
States    == 0 .. threads
EntrySet  == [state : States, kind : Kinds, id : Nat, thing : 1 .. opened]
HandleSet == [kind : Kinds, id : Nat, madeBy : States, opened : 1 .. opened]

HandleTypes ==
  /\ opened \in Nat /\ threads \in Nat /\ cloned \in BOOLEAN
  /\ nextId \in [States -> [Kinds -> Nat]]
  /\ entries \subseteq EntrySet
  /\ held \subseteq HandleSet
  /\ test = NoTest \/ test \in HandleSet
  /\ owns \subseteq 1 .. opened

(* A registry gives its next entry an id above all it ever gave, to what   *)
(* is there still and to what handles only remember.  So a handle and an   *)
(* entry with the same id in the same registry are of the same thing.      *)
Means(h, e) == e.state = h.madeBy /\ e.kind = h.kind /\ e.id = h.id
Used(h)     == h.id < nextId[h.madeBy][h.kind]
IdInv ==
  /\ \A e \in entries : e.id < nextId[e.state][e.kind]
  /\ \A h \in held : Used(h) /\ \A e \in entries : Means(h, e) => e.thing = h.opened

(* The runner's session is found by the runner's handle, whatever else was *)
(* opened; what the runner opened before is gone.                          *)
TestInv ==
  /\ test # NoTest => /\ test.madeBy = 0 /\ Used(test)
                      /\ \A e \in entries : e.thing = test.opened <=> Means(test, e)
  /\ TestSessionsClosed

SessionsInv == HandleTypes /\ IdInv /\ TestInv /\ ReachesItsOwn
-----------------------------------------------------------------------------
LEMMA HandleIsNoTest == \A h : h \in HandleSet => h # NoTest
BY DEF HandleSet, NoTest

(* Every call that opens something: all its facts in one place.            *)
LEMMA InsertKeepsIds ==
  ASSUME HandleTypes, IdInv, NEW s \in States, NEW kind \in Kinds, Insert(s, kind), threads' = threads,
         held' \subseteq held \cup {Handle(s, kind)}
  PROVE  /\ opened' = opened + 1
         /\ nextId' \in [States -> [Kinds -> Nat]]
         /\ \A r \in States, k \in Kinds : nextId[r][k] <= nextId'[r][k]
         /\ nextId[s][kind] < nextId'[s][kind]
         /\ entries' \subseteq EntrySet'
         /\ held' \subseteq HandleSet'
         /\ HandleSet \subseteq HandleSet' /\ Handle(s, kind) \in HandleSet'
         /\ IdInv'
PROOF
  <1> DEFINE new == [state |-> s, kind |-> kind, id |-> nextId[s][kind], thing |-> opened + 1]
             h   == Handle(s, kind)
  <1> USE DEF States, HandleTypes
  <1>1. opened' = opened + 1 /\ opened' \in Nat /\ entries' = entries \cup {new}
    BY DEF Insert, Take
  <1>2. nextId' = [nextId EXCEPT ![s][kind] = @ + 1]
    BY DEF Insert
  <1>3. nextId[s][kind] \in Nat
    OBVIOUS
  <1>4. nextId' \in [States -> [Kinds -> Nat]] /\ nextId'[s][kind] = nextId[s][kind] + 1
    BY <1>2, <1>3
  <1>5. \A r \in States, k \in Kinds : nextId[r][k] <= nextId'[r][k]
    BY <1>2, <1>3
  <1>6. nextId[s][kind] < nextId'[s][kind]
    BY <1>3, <1>4
  <1>7. h = [kind |-> kind, id |-> nextId[s][kind], madeBy |-> s, opened |-> opened + 1]
    BY DEF Handle, Take
  <1>8. EntrySet \subseteq EntrySet' /\ HandleSet \subseteq HandleSet'
    <2>1. opened \in Nat /\ opened' = opened + 1
      BY <1>1
    <2>2. 1 .. opened \subseteq 1 .. opened'
      BY <2>1
    <2> QED BY <2>2 DEF EntrySet, HandleSet
  <1>9. new \in EntrySet'
    BY <1>1, <1>3 DEF EntrySet
  <1>10. h \in HandleSet'
    BY <1>1, <1>3, <1>7 DEF HandleSet
  <1>11. entries' \subseteq EntrySet' /\ held' \subseteq HandleSet'
    BY <1>1, <1>8, <1>9, <1>10
  <1>12. \A e \in entries' : e.id < nextId'[e.state][e.kind]
    <2> SUFFICES ASSUME NEW e \in entries' PROVE e.id < nextId'[e.state][e.kind]
      OBVIOUS
    <2>1. CASE e = new
      BY <2>1, <1>6
    <2>2. CASE e \in entries
      <3>1. e.state \in States /\ e.kind \in Kinds /\ e.id \in Nat /\ e.id < nextId[e.state][e.kind]
        BY <2>2 DEF EntrySet, IdInv
      <3>2. nextId[e.state][e.kind] \in Nat /\ nextId'[e.state][e.kind] \in Nat
        BY <3>1, <1>4
      <3>3. nextId[e.state][e.kind] <= nextId'[e.state][e.kind]
        BY <3>1, <1>5
      <3> DEFINE before == nextId[e.state][e.kind]
                 after  == nextId'[e.state][e.kind]
      <3> HIDE DEF before, after
      <3>4. e.id < before /\ before <= after /\ e.id \in Nat /\ before \in Nat /\ after \in Nat
        BY <3>1, <3>2, <3>3 DEF before, after
      <3>5. e.id < after
        BY <3>4
      <3> QED BY <3>5 DEF after
    <2> QED BY <2>1, <2>2, <1>1
  <1>13. ASSUME NEW g \in held' PROVE Used(g)'
    <2>1. CASE g = h
      BY <2>1, <1>6, <1>7 DEF Used
    <2>2. CASE g \in held
      <3>1. g.madeBy \in States /\ g.kind \in Kinds /\ g.id \in Nat /\ g.id < nextId[g.madeBy][g.kind]
        BY <2>2 DEF HandleSet, IdInv, Used
      <3>2. nextId[g.madeBy][g.kind] \in Nat /\ nextId'[g.madeBy][g.kind] \in Nat
        BY <3>1, <1>4
      <3> QED BY <3>1, <3>2, <1>5 DEF Used
    <2> QED BY <2>1, <2>2
  <1>14. ASSUME NEW g \in held', NEW e \in entries', Means(g, e) PROVE e.thing = g.opened
    <2>1. CASE g = h /\ e = new
      BY <2>1, <1>7
    <2>2. CASE g = h /\ e \in entries
      <3>1. e.state = s /\ e.kind = kind
        BY <2>2, <1>7, <1>14 DEF Means
      <3>2. e.id < nextId[s][kind]
        <4>1. e.id < nextId[e.state][e.kind]
          BY <2>2 DEF IdInv
        <4> QED BY <4>1, <3>1
      <3>3. e.id = nextId[s][kind]
        BY <2>2, <1>7, <1>14 DEF Means
      <3> QED BY <3>2, <3>3, <1>3
    <2>3. CASE g \in held /\ e = new
      <3>1. g.id < nextId[s][kind]
        BY <2>3, <1>14 DEF Means, IdInv, Used
      <3>2. g.id = nextId[s][kind]
        BY <2>3, <1>14 DEF Means
      <3> QED BY <3>1, <3>2, <1>3
    <2>4. CASE g \in held /\ e \in entries
      BY <2>4, <1>14 DEF IdInv
    <2> QED BY <2>1, <2>2, <2>3, <2>4, <1>1
  <1>15. IdInv'
    BY <1>12, <1>13, <1>14 DEF IdInv, Means
  <1> QED BY <1>1, <1>4, <1>5, <1>6, <1>8, <1>10, <1>11, <1>15

LEMMA SessionsStart == SessionsInit => SessionsInv
BY DEF SessionsInit, SessionsInv, HandleTypes, IdInv, TestInv, TestSessionsClosed, ReachesItsOwn, States,
       Fresh, NoUse, NoTest, Kinds

(* Nothing but closing happens to a registry: what is left is unchanged.   *)
LEMMA RemovingKeepsIds ==
  ASSUME HandleTypes, IdInv, entries' \subseteq entries, UNCHANGED <<nextId, threads, opened>>, held' \subseteq held
  PROVE  /\ entries' \subseteq EntrySet' /\ held' \subseteq HandleSet' /\ HandleSet' = HandleSet
         /\ IdInv'
<1>1. HandleSet' = HandleSet /\ EntrySet' = EntrySet
  BY DEF HandleSet, EntrySet, States
<1>2. IdInv'
  BY DEF IdInv, Used, Means
<1> QED BY <1>1, <1>2 DEF HandleTypes

LEMMA SpawnTestKeeps == SessionsInv /\ SpawnTest => SessionsInv'
<1> SUFFICES ASSUME SessionsInv, SpawnTest PROVE SessionsInv'
  OBVIOUS
<1> DEFINE h == Handle(0, "pex")
<1>1. 0 \in States /\ "pex" \in Kinds
  BY DEF SessionsInv, HandleTypes, States, Kinds
<1>2. /\ Insert(0, "pex") /\ test = NoTest /\ test' = h /\ threads' = threads /\ cloned' = cloned
      /\ last' = last /\ owns' = owns \cup {opened + 1} /\ held' \subseteq held \cup {h}
  BY DEF SpawnTest, Ready, ClearVars
<1>3. HandleTypes /\ IdInv
  BY DEF SessionsInv
<1>4. /\ opened' = opened + 1 /\ nextId' \in [States -> [Kinds -> Nat]] /\ nextId[0]["pex"] < nextId'[0]["pex"]
      /\ entries' \subseteq EntrySet' /\ held' \subseteq HandleSet' /\ h \in HandleSet' /\ IdInv'
  BY <1>1, <1>2, <1>3, InsertKeepsIds
<1>5. HandleTypes'
  BY <1>2, <1>3, <1>4 DEF HandleTypes, States
<1>6. h = [kind |-> "pex", id |-> nextId[0]["pex"], madeBy |-> 0, opened |-> opened + 1]
  BY DEF Handle, Take
<1> DEFINE new == [state |-> 0, kind |-> "pex", id |-> nextId[0]["pex"], thing |-> opened + 1]
<1>7. entries' = entries \cup {new}
  BY <1>2 DEF Insert, Take
<1>8. \A e \in entries : /\ e.thing \in 1 .. opened /\ e.thing \notin owns
                          /\ ~Means(h, e)
  <2> SUFFICES ASSUME NEW e \in entries PROVE e.thing \in 1 .. opened /\ e.thing \notin owns /\ ~Means(h, e)
    OBVIOUS
  <2>1. e.thing \in 1 .. opened /\ e.id \in Nat
    BY <1>3 DEF HandleTypes, EntrySet
  <2>2. e.thing \notin owns
    BY <1>2 DEF SessionsInv, TestInv, TestSessionsClosed, InBody
  <2>3. e.id < nextId[e.state][e.kind]
    BY <1>3 DEF IdInv
  <2>4. nextId[0]["pex"] \in Nat
    BY <1>1, <1>3 DEF HandleTypes
  <2>5. ~Means(h, e)
    <3> SUFFICES ASSUME Means(h, e) PROVE FALSE
      OBVIOUS
    <3>1. e.state = 0 /\ e.kind = "pex" /\ e.id = nextId[0]["pex"]
      BY <1>6 DEF Means
    <3> QED BY <3>1, <2>3, <2>4
  <2> QED BY <2>1, <2>2, <2>5
<1>9. opened \in Nat /\ Means(h, new)
  BY <1>3, <1>6 DEF HandleTypes, Means
<1>10. TestInv'
  <2>1. h # NoTest
    BY <1>6, <1>9 DEF NoTest
  <2>2. h.madeBy = 0 /\ h.opened = opened + 1 /\ h.id < nextId'[h.madeBy][h.kind]
    BY <1>4, <1>6
  <2>3. \A e \in entries' : e.thing = h.opened <=> Means(h, e)
    BY <1>7, <1>8, <1>9, <2>2
  <2>4. \A e \in entries' : e.thing \in owns' => e.thing = h.opened
    BY <1>2, <1>7, <1>8, <2>2
  <2>5. /\ test'.madeBy = 0 /\ test'.id < nextId'[test'.madeBy][test'.kind] /\ test' # NoTest
        /\ \A e \in entries' : e.thing = test'.opened <=> Means(test', e)
        /\ \A e \in entries' : e.thing \in owns' => e.thing = test'.opened
    BY <1>2, <2>1, <2>2, <2>3, <2>4
  <2> HIDE DEF h
  <2> QED BY <2>5 DEF TestInv, TestSessionsClosed, InBody, Means, Used
<1>11. ReachesItsOwn'
  BY <1>2 DEF SessionsInv, ReachesItsOwn
<1> QED BY <1>4, <1>5, <1>10, <1>11 DEF SessionsInv

(* Opening in a body: nothing of the runner's, and no id of the runner's.  *)
LEMMA OpeningKeeps ==
  ASSUME SessionsInv, InBody, NEW kind \in Kinds, Insert(Current, kind), held' = held \cup {Handle(Current, kind)},
         UNCHANGED <<test, threads, cloned, owns>>
  PROVE  HandleTypes' /\ IdInv' /\ TestInv'
<1>1. Current \in States
  BY DEF Current, SessionsInv, HandleTypes, States
<1>2. HandleTypes /\ IdInv /\ TestInv
  BY DEF SessionsInv
<1>3. /\ opened' = opened + 1 /\ nextId' \in [States -> [Kinds -> Nat]]
      /\ \A r \in States, k \in Kinds : nextId[r][k] <= nextId'[r][k]
      /\ entries' \subseteq EntrySet' /\ held' \subseteq HandleSet' /\ HandleSet \subseteq HandleSet' /\ IdInv'
  BY <1>1, <1>2, InsertKeepsIds
<1>4. HandleTypes'
  BY <1>2, <1>3 DEF HandleTypes, States
<1> DEFINE new == [state |-> Current, kind |-> kind, id |-> nextId[Current][kind], thing |-> opened + 1]
<1>5. entries' = entries \cup {new} /\ opened \in Nat
  BY <1>2 DEF Insert, Take, HandleTypes
<1>6. test # NoTest /\ test \in HandleSet /\ test' = test
  BY <1>2 DEF InBody, HandleTypes
<1>7. test.opened \in 1 .. opened /\ test.id \in Nat /\ test.madeBy \in States /\ test.kind \in Kinds
  BY <1>6 DEF HandleSet
<1>8. test.madeBy = 0 /\ test.id < nextId[test.madeBy][test.kind]
  BY <1>2, <1>6 DEF TestInv, Used
<1> DEFINE before == nextId[test.madeBy][test.kind]
           after  == nextId'[test.madeBy][test.kind]
<1>9. before \in Nat /\ after \in Nat /\ before <= after
  BY <1>2, <1>3, <1>7 DEF HandleTypes
<1>10. test.id < after
  <2>1. test.id < before
    BY <1>8
  <2> HIDE DEF before, after
  <2> QED BY <2>1, <1>7, <1>9
<1>11. ~Means(test, new)
  <2> SUFFICES ASSUME Means(test, new) PROVE FALSE
    OBVIOUS
  <2>1. Current = test.madeBy /\ kind = test.kind /\ nextId[Current][kind] = test.id
    BY DEF Means
  <2>2. test.id = before
    BY <2>1
  <2>3. test.id < before
    BY <1>8
  <2> HIDE DEF before
  <2> QED BY <2>2, <2>3, <1>7, <1>9
<1>12. \A e \in entries' : e.thing = test.opened <=> Means(test, e)
  BY <1>2, <1>5, <1>6, <1>7, <1>11 DEF TestInv
<1>13. TestSessionsClosed'
  <2>1. new.thing \notin owns
    BY <1>2, <1>5 DEF HandleTypes
  <2> QED BY <1>2, <1>5, <1>6, <2>1 DEF TestInv, TestSessionsClosed, InBody
<1>14. TestInv'
  BY <1>6, <1>8, <1>10, <1>12, <1>13 DEF TestInv, Used, Means
<1> QED BY <1>3, <1>4, <1>14

(* A use reaches what is in the registry of the state under the handle's   *)
(* kind and id.                                                            *)
LEMMA UseReachesItsOwn ==
  ASSUME SessionsInv, NEW h \in held,
         last' = [handle |-> h, by |-> Current, reached |-> Things(Found(Current, h))]
  PROVE  ReachesItsOwn'
<1> SUFFICES ASSUME Current = h.madeBy PROVE Things(Found(Current, h)) \subseteq {h.opened}
  BY DEF ReachesItsOwn
<1>1. \A e \in Found(Current, h) : e \in entries /\ Means(h, e)
  BY DEF Found, Means
<1>2. \A e \in Found(Current, h) : e.thing = h.opened
  BY <1>1 DEF SessionsInv, IdInv
<1> QED BY <1>2 DEF Things

LEMMA SessionsKept == SessionsInv /\ [SessionsNext]_sessions => SessionsInv'
<1> SUFFICES ASSUME SessionsInv, [SessionsNext]_sessions PROVE SessionsInv'
  OBVIOUS
<1>1. HandleTypes /\ IdInv /\ TestInv /\ ReachesItsOwn
  BY DEF SessionsInv
<1>2. CASE SpawnTest
  BY <1>2, SpawnTestKeeps
<1>3. CASE SpawnFails
  <2>1. /\ held' \subseteq held
        /\ UNCHANGED <<test, entries, nextId, threads, cloned, opened, owns, last>>
    BY <1>3 DEF SpawnFails, ClearVars
  <2>2. held' \subseteq HandleSet' /\ entries' \subseteq EntrySet' /\ HandleSet' = HandleSet /\ IdInv'
    BY <1>1, <2>1, RemovingKeepsIds
  <2>3. HandleTypes'
    BY <1>1, <2>1, <2>2 DEF HandleTypes, States
  <2>4. TestInv' /\ ReachesItsOwn'
    BY <1>1, <2>1 DEF TestInv, TestSessionsClosed, InBody, Used, Means, ReachesItsOwn
  <2> QED BY <2>2, <2>3, <2>4 DEF SessionsInv
<1>4. ASSUME NEW result \in {"passed", "failed"}, EndTest(result) PROVE SessionsInv'
  <2>1. /\ test # NoTest /\ test' = NoTest /\ entries' = entries \ Found(0, test)
        /\ UNCHANGED <<nextId, threads, cloned, held, opened, owns, last>>
    BY <1>4 DEF EndTest
  <2>2. held' \subseteq HandleSet' /\ entries' \subseteq EntrySet' /\ HandleSet' = HandleSet /\ IdInv'
    BY <1>1, <2>1, RemovingKeepsIds
  <2>3. HandleTypes'
    BY <1>1, <2>1, <2>2 DEF HandleTypes, States
  <2>4. ASSUME NEW e \in entries' PROVE e.thing \notin owns
    <3>1. e \in entries /\ ~Means(test, e)
      BY <1>1, <2>1 DEF Found, Means, TestInv
    <3>2. e.thing # test.opened
      BY <1>1, <2>1, <3>1 DEF TestInv
    <3> QED BY <1>1, <3>1, <3>2 DEF TestInv, TestSessionsClosed
  <2>5. TestInv'
    BY <2>1, <2>4 DEF TestInv, TestSessionsClosed
  <2>6. ReachesItsOwn'
    BY <1>1, <2>1 DEF ReachesItsOwn
  <2> QED BY <2>2, <2>3, <2>5, <2>6 DEF SessionsInv
<1>5. ASSUME NEW kind \in Kinds, Open(kind) PROVE SessionsInv'
  <2>1. HandleTypes' /\ IdInv' /\ TestInv'
    BY <1>5, OpeningKeeps DEF Open
  <2>2. ReachesItsOwn'
    BY <1>1, <1>5 DEF Open, ReachesItsOwn
  <2> QED BY <2>1, <2>2 DEF SessionsInv
<1>6. ASSUME NEW h \in held, Use(h) PROVE SessionsInv'
  <2>1. ReachesItsOwn'
    BY <1>6, UseReachesItsOwn DEF Use
  <2>2. UNCHANGED <<test, entries, nextId, threads, cloned, held, opened, owns>>
    BY <1>6 DEF Use
  <2>3. HandleTypes'
    BY <1>1, <2>2 DEF HandleTypes, States, EntrySet, HandleSet
  <2>4. IdInv' /\ TestInv'
    BY <1>1, <2>2 DEF IdInv, TestInv, TestSessionsClosed, InBody, Used, Means
  <2> QED BY <2>1, <2>3, <2>4 DEF SessionsInv
<1>7. ASSUME NEW h \in held, Accept(h) PROVE SessionsInv'
  <2>1. "stream" \in Kinds
    BY DEF Kinds
  <2>2. HandleTypes' /\ IdInv' /\ TestInv'
    BY <1>7, <2>1, OpeningKeeps DEF Accept
  <2>3. ReachesItsOwn'
    BY <1>7, UseReachesItsOwn DEF Accept
  <2> QED BY <2>2, <2>3 DEF SessionsInv
<1>8. ASSUME NEW h \in held, Close(h) PROVE SessionsInv'
  <2>1. /\ entries' = entries \ Found(Current, h)
        /\ UNCHANGED <<test, nextId, threads, cloned, held, opened, owns>>
    BY <1>8 DEF Close
  <2>2. held' \subseteq HandleSet' /\ entries' \subseteq EntrySet' /\ HandleSet' = HandleSet /\ IdInv'
    BY <1>1, <2>1, RemovingKeepsIds
  <2>3. HandleTypes'
    BY <1>1, <2>1, <2>2 DEF HandleTypes, States
  <2>4. TestInv'
    BY <1>1, <2>1 DEF TestInv, TestSessionsClosed, InBody, Used, Means
  <2>5. ReachesItsOwn'
    BY <1>8, UseReachesItsOwn DEF Close
  <2> QED BY <2>2, <2>3, <2>4, <2>5 DEF SessionsInv
<1>9. CASE Clone
  <2>1. /\ threads' = threads + 1 /\ cloned' = TRUE
        /\ nextId' = [s \in DOMAIN nextId \cup {threads + 1} |-> IF s = threads + 1 THEN Fresh ELSE nextId[s]]
        /\ UNCHANGED <<test, entries, held, opened, owns, last>>
    BY <1>9 DEF Clone
  <2>2. threads \in Nat /\ threads' \in Nat /\ DOMAIN nextId = States /\ States' = States \cup {threads + 1}
    BY <1>1, <2>1 DEF HandleTypes, States
  <2>3. nextId' \in [States' -> [Kinds -> Nat]]
    BY <1>1, <2>1, <2>2 DEF HandleTypes, Fresh
  <2>4. \A s \in States : nextId'[s] = nextId[s]
    BY <2>1, <2>2 DEF States
  <2>5. EntrySet \subseteq EntrySet' /\ HandleSet \subseteq HandleSet'
    BY <2>1, <2>2 DEF EntrySet, HandleSet
  <2>6. HandleTypes'
    BY <1>1, <2>1, <2>2, <2>3, <2>5 DEF HandleTypes
  <2>7. IdInv'
    <3>1. \A e \in entries : e.state \in States
      BY <1>1 DEF HandleTypes, EntrySet
    <3>2. \A h \in held : h.madeBy \in States
      BY <1>1 DEF HandleTypes, HandleSet
    <3> QED BY <1>1, <2>1, <2>4, <3>1, <3>2 DEF IdInv, Used, Means
  <2>8. TestInv'
    <3>1. 0 \in States
      BY <2>2 DEF States
    <3> QED BY <1>1, <2>1, <2>4, <3>1 DEF TestInv, TestSessionsClosed, InBody, Used, Means
  <2>9. ReachesItsOwn'
    BY <1>1, <2>1 DEF ReachesItsOwn
  <2> QED BY <2>6, <2>7, <2>8, <2>9 DEF SessionsInv
<1>10. CASE DropClone
  <2>1. /\ cloned /\ cloned' = FALSE /\ entries' = {e \in entries : e.state # threads}
        /\ held' \subseteq held
        /\ UNCHANGED <<test, nextId, threads, opened, owns, last>>
    BY <1>10 DEF DropClone
  <2>2. held' \subseteq HandleSet' /\ entries' \subseteq EntrySet' /\ HandleSet' = HandleSet /\ IdInv'
    BY <1>1, <2>1, RemovingKeepsIds
  <2>3. HandleTypes'
    BY <1>1, <2>1, <2>2 DEF HandleTypes, States
  <2>4. TestInv'
    BY <1>1, <2>1 DEF TestInv, TestSessionsClosed, InBody, Used, Means
  <2>5. ReachesItsOwn'
    BY <1>1, <2>1 DEF ReachesItsOwn
  <2> QED BY <2>2, <2>3, <2>4, <2>5 DEF SessionsInv
<1>11. CASE UNCHANGED sessions
  <2>1. UNCHANGED <<test, entries, nextId, threads, cloned, held, opened, owns, last>>
    BY <1>11 DEF sessions
  <2>2. HandleTypes'
    BY <1>1, <2>1 DEF HandleTypes, States, EntrySet, HandleSet
  <2>3. IdInv' /\ TestInv' /\ ReachesItsOwn'
    BY <1>1, <2>1 DEF IdInv, TestInv, TestSessionsClosed, InBody, Used, Means, ReachesItsOwn
  <2> QED BY <2>2, <2>3 DEF SessionsInv
<1> QED
  BY <1>2, <1>3, <1>4, <1>5, <1>6, <1>7, <1>8, <1>9, <1>10, <1>11 DEF SessionsNext

(* Registries, handles and counters are of their types for every number of *)
(* tests, clones and things opened.                                        *)
THEOREM HandlesTyped == SessionsSpec => []HandleTypes
<1>1. SessionsInv => HandleTypes
  BY DEF SessionsInv
<1> QED BY <1>1, SessionsStart, SessionsKept, PTL DEF SessionsSpec

(* A handle used in the state that made it never reaches anything opened   *)
(* later, however many were closed in between (PexRegistry, TcpRegistry).  *)
THEOREM HandlesReachTheirOwn == SessionsSpec => []ReachesItsOwn
<1>1. SessionsInv => ReachesItsOwn
  BY DEF SessionsInv
<1> QED BY <1>1, SessionsStart, SessionsKept, PTL DEF SessionsSpec

(* The runner's session does not outlive its test, whatever the body did   *)
(* (Evaluator::exec_run_test).                                             *)
THEOREM RunnerClosesSessions == SessionsSpec => []TestSessionsClosed
<1>1. SessionsInv => TestSessionsClosed
  BY DEF SessionsInv, TestInv
<1> QED BY <1>1, SessionsStart, SessionsKept, PTL DEF SessionsSpec
-----------------------------------------------------------------------------
(* The orders lists are sorted by.  A text here has no NUL: ByteAt gives 0 *)
(* for what is past the end of a text.                                     *)
(* What the comparisons of three things with each other must be for some   *)
(* order to have given them: of the first and the second, the second and   *)
(* the third, the first and the third.                                     *)
Ordered(ab, bc, ac) ==
  /\ ab \in {-1, 0, 1} /\ bc \in {-1, 0, 1} /\ ac \in {-1, 0, 1}
  /\ ab <= 0 /\ bc <= 0 => ac <= 0
  /\ ab >= 0 /\ bc >= 0 => ac >= 0
  /\ ab = 0 => ac = bc
  /\ bc = 0 => ac = ab
  /\ ac = 0 => ab = 0 - bc

(* Where two texts part.                                                   *)
Parts(s, t, i) ==
  /\ i \in Nat /\ 1 <= i /\ i <= Len(s) + 1 /\ i <= Len(t) + 1
  /\ ByteAt(s, i) # ByteAt(t, i)
  /\ \A j \in 1 .. i - 1 : ByteAt(s, j) = ByteAt(t, j)

LEMMA LeastIs ==
  ASSUME NEW S, S \subseteq Nat, S # {}
  PROVE  \E x \in S : \A y \in S : x <= y
<1>1. \E x \in S : \A y \in S : ~(<<y, x>> \in OpToRel(<, Nat))
  BY NatLessThanWellFounded, WFMin, Zenon
<1>2. PICK x \in S : \A y \in S : ~(y < x)
  BY <1>1 DEF OpToRel
<1>3. \A y \in S : x \in Nat /\ y \in Nat /\ x <= y
  BY <1>2
<1> QED BY <1>3

LEMMA ByteIs ==
  ASSUME NEW s \in Texts
  PROVE  /\ Len(s) \in Nat
         /\ \A i \in Nat : i >= 1 =>
              /\ ByteAt(s, i) \in 0 .. 255
              /\ i <= Len(s) <=> ByteAt(s, i) # 0
              /\ i <= Len(s) => ByteAt(s, i) = s[i]
<1>1. Len(s) \in Nat /\ \A i \in 1 .. Len(s) : s[i] \in 1 .. 255
  BY ElementOfSeq, LenProperties DEF Texts
<1>2. ASSUME NEW i \in Nat, i >= 1
      PROVE  /\ ByteAt(s, i) \in 0 .. 255
             /\ i <= Len(s) <=> ByteAt(s, i) # 0
             /\ i <= Len(s) => ByteAt(s, i) = s[i]
  <2>1. CASE i <= Len(s)
    <3>1. i \in 1 .. Len(s)
      BY <1>1, <1>2, <2>1
    <3>2. s[i] \in 1 .. 255 /\ ByteAt(s, i) = s[i]
      BY <1>1, <2>1, <3>1 DEF ByteAt
    <3>3. \A b \in 1 .. 255 : b \in 0 .. 255 /\ b # 0
      OBVIOUS
    <3> QED BY <2>1, <3>2, <3>3
  <2>2. CASE ~(i <= Len(s))
    BY <2>2 DEF ByteAt
  <2> QED BY <2>1, <2>2
<1> QED BY <1>1, <1>2

(* Two texts that differ do so first at one position, which is within both *)
(* or right after the shorter one.                                         *)
LEMMA PartSomewhere ==
  ASSUME NEW s \in Texts, NEW t \in Texts, s # t
  PROVE  \E i \in Nat : 1 <= i /\ i <= Len(s) + 1 /\ ByteAt(s, i) # ByteAt(t, i)
<1> SUFFICES ASSUME \A i \in Nat : 1 <= i /\ i <= Len(s) + 1 => ByteAt(s, i) = ByteAt(t, i)
             PROVE  FALSE
  OBVIOUS
<1>1. Len(s) \in Nat /\ Len(t) \in Nat
  BY ByteIs
<1>2. Len(t) <= Len(s)
  <2>1. ByteAt(s, Len(s) + 1) = 0 /\ Len(s) + 1 \in Nat
    BY <1>1, ByteIs
  <2>2. ByteAt(t, Len(s) + 1) = 0
    BY <1>1, <2>1
  <2>3. ~(Len(s) + 1 <= Len(t))
    BY <1>1, <2>1, <2>2, ByteIs
  <2> QED BY <1>1, <2>3
<1>3. Len(s) <= Len(t)
  <2>1. CASE Len(s) = 0
    BY <1>1, <2>1
  <2>2. CASE Len(s) # 0
    <3>1. ByteAt(s, Len(s)) # 0 /\ Len(s) >= 1
      BY <1>1, <2>2, ByteIs
    <3>2. ByteAt(t, Len(s)) # 0
      BY <1>1, <3>1
    <3> QED BY <1>1, <3>1, <3>2, ByteIs
  <2> QED BY <2>1, <2>2
<1>4. Len(s) = Len(t)
  BY <1>1, <1>2, <1>3
<1>5. ASSUME NEW i \in 1 .. Len(s) PROVE s[i] = t[i]
  <2>1. i \in Nat /\ 1 <= i /\ i <= Len(s) /\ i <= Len(t) /\ i <= Len(s) + 1
    BY <1>1, <1>4
  <2>2. ByteAt(s, i) = s[i] /\ ByteAt(t, i) = t[i]
    BY <2>1, ByteIs
  <2> QED BY <2>1, <2>2
<1> QED BY <1>4, <1>5, SeqEqual DEF Texts

LEMMA DifferIs ==
  ASSUME NEW s \in Texts, NEW t \in Texts, s # t
  PROVE  Parts(s, t, Differ(s, t))
<1> DEFINE S == {i \in Nat : 1 <= i /\ i <= Len(s) + 1 /\ ByteAt(s, i) # ByteAt(t, i)}
<1>1. Len(s) \in Nat /\ Len(t) \in Nat
  BY ByteIs
<1>2. PICK i \in S : \A j \in S : i <= j
  <2>1. S # {}
    BY PartSomewhere
  <2> HIDE DEF S
  <2>2. S \subseteq Nat
    BY DEF S
  <2> QED BY <2>1, <2>2, LeastIs
<1>3. /\ i \in 1 .. Len(s) + 1 /\ ByteAt(s, i) # ByteAt(t, i)
      /\ \A j \in 1 .. i - 1 : ByteAt(s, j) = ByteAt(t, j)
  BY <1>1, <1>2
<1> HIDE DEF S
<1> DEFINE d == Differ(s, t)
<1>4. /\ d \in 1 .. Len(s) + 1 /\ ByteAt(s, d) # ByteAt(t, d)
      /\ \A j \in 1 .. d - 1 : ByteAt(s, j) = ByteAt(t, j)
  BY <1>3 DEF Differ
<1> HIDE DEF d
<1>5. d <= Len(t) + 1
  <2> SUFFICES ASSUME ~(d <= Len(t) + 1) PROVE FALSE
    OBVIOUS
  <2>1. Len(t) + 1 \in 1 .. d - 1 /\ Len(t) + 1 \in Nat /\ Len(t) + 1 <= Len(s) /\ Len(t) + 1 >= 1
    BY <1>1, <1>4
  <2>2. ByteAt(s, Len(t) + 1) = ByteAt(t, Len(t) + 1)
    BY <1>4, <2>1
  <2>3. ByteAt(s, Len(t) + 1) # 0
    BY <2>1, ByteIs
  <2>4. ~(Len(t) + 1 <= Len(t))
    BY <1>1
  <2>5. ByteAt(t, Len(t) + 1) = 0
    BY <2>1, <2>4, ByteIs
  <2> QED BY <2>2, <2>3, <2>5
<1> QED BY <1>1, <1>4, <1>5 DEF Parts, d

LEMMA PartsOnce ==
  ASSUME NEW s, NEW t, NEW i, NEW j, Parts(s, t, i), Parts(s, t, j)
  PROVE  i = j
<1>1. i \in Nat /\ j \in Nat /\ i >= 1 /\ j >= 1
  BY DEF Parts
<1>2. CASE i < j
  <2>1. i \in 1 .. j - 1
    BY <1>1, <1>2
  <2> QED BY <2>1 DEF Parts
<1>3. CASE j < i
  <2>1. j \in 1 .. i - 1
    BY <1>1, <1>3
  <2> QED BY <2>1 DEF Parts
<1> QED BY <1>1, <1>2, <1>3

LEMMA DifferBoth ==
  ASSUME NEW s \in Texts, NEW t \in Texts, s # t
  PROVE  Differ(t, s) = Differ(s, t)
<1>1. Parts(s, t, Differ(s, t)) /\ Parts(t, s, Differ(t, s))
  BY DifferIs
<1>2. Parts(s, t, Differ(t, s))
  BY <1>1 DEF Parts
<1> QED BY <1>1, <1>2, PartsOnce

(* Of three texts, two part where the first of them parts from the third,  *)
(* unless both part from it at one place.                                  *)
LEMMA ThreeParts ==
  ASSUME NEW s, NEW t, NEW u, NEW i, NEW j, NEW k,
         Parts(s, t, i), Parts(t, u, j), Parts(s, u, k)
  PROVE  /\ i < j => k = i
         /\ j < i => k = j
         /\ i = j => k >= i
<1>1. i \in Nat /\ j \in Nat /\ k \in Nat /\ i >= 1 /\ j >= 1 /\ k >= 1
  BY DEF Parts
<1>2. \A l \in Nat : 1 <= l /\ l < i => ByteAt(s, l) = ByteAt(t, l)
  BY <1>1 DEF Parts
<1>3. \A l \in Nat : 1 <= l /\ l < j => ByteAt(t, l) = ByteAt(u, l)
  BY <1>1 DEF Parts
<1>4. \A l \in Nat : 1 <= l /\ l < k => ByteAt(s, l) = ByteAt(u, l)
  BY <1>1 DEF Parts
<1>5. ByteAt(s, i) # ByteAt(t, i) /\ ByteAt(t, j) # ByteAt(u, j) /\ ByteAt(s, k) # ByteAt(u, k)
  BY DEF Parts
<1>6. CASE i < j
  <2>1. ByteAt(t, i) = ByteAt(u, i)
    BY <1>1, <1>3, <1>6
  <2>2. ~(i < k)
    BY <1>1, <1>4, <1>5, <2>1
  <2>3. ~(k < i)
    <3> SUFFICES ASSUME k < i PROVE FALSE
      OBVIOUS
    <3>1. ByteAt(s, k) = ByteAt(t, k) /\ ByteAt(t, k) = ByteAt(u, k)
      BY <1>1, <1>2, <1>3, <1>6
    <3> QED BY <1>5, <3>1
  <2> QED BY <1>1, <1>6, <2>2, <2>3
<1>7. CASE j < i
  <2>1. ByteAt(s, j) = ByteAt(t, j)
    BY <1>1, <1>2, <1>7
  <2>2. ~(j < k)
    BY <1>1, <1>4, <1>5, <2>1
  <2>3. ~(k < j)
    <3> SUFFICES ASSUME k < j PROVE FALSE
      OBVIOUS
    <3>1. ByteAt(s, k) = ByteAt(t, k) /\ ByteAt(t, k) = ByteAt(u, k)
      BY <1>1, <1>2, <1>3, <1>7
    <3> QED BY <1>5, <3>1
  <2> QED BY <1>1, <1>7, <2>2, <2>3
<1>8. CASE i = j
  <2>1. ~(k < i)
    <3> SUFFICES ASSUME k < i PROVE FALSE
      OBVIOUS
    <3>1. ByteAt(s, k) = ByteAt(t, k) /\ ByteAt(t, k) = ByteAt(u, k)
      BY <1>1, <1>2, <1>3, <1>8
    <3> QED BY <1>5, <3>1
  <2> QED BY <1>1, <1>8, <2>1
<1> QED BY <1>1, <1>6, <1>7, <1>8

LEMMA Compares ==
  ASSUME NEW i \in Int, NEW j \in Int
  PROVE  /\ Compare(i, j) \in {-1, 0, 1} /\ Compare(j, i) = 0 - Compare(i, j)
         /\ Compare(i, j) = 0 <=> i = j
         /\ Compare(i, j) = -1 <=> i < j
         /\ Compare(i, j) = 1 <=> i > j
  BY DEF Compare

LEMMA ComparesThree ==
  ASSUME NEW i \in Int, NEW j \in Int, NEW k \in Int
  PROVE  Ordered(Compare(i, j), Compare(j, k), Compare(i, k))
  BY DEF Compare, Ordered

(* Three different things are in order if no two steps up lead down.       *)
LEMMA OrderedStrictly ==
  ASSUME NEW ab \in {-1, 1}, NEW bc \in {-1, 1}, NEW ac \in {-1, 1},
         ab = -1 /\ bc = -1 => ac = -1, ab = 1 /\ bc = 1 => ac = 1
  PROVE  Ordered(ab, bc, ac)
  BY DEF Ordered

LEMMA PartBytes ==
  ASSUME NEW s \in Texts, NEW t \in Texts, NEW i, Parts(s, t, i)
  PROVE  ByteAt(s, i) \in Nat /\ ByteAt(t, i) \in Nat /\ ByteAt(s, i) # ByteAt(t, i)
<1>1. ByteAt(s, i) \in 0 .. 255 /\ ByteAt(t, i) \in 0 .. 255 /\ ByteAt(s, i) # ByteAt(t, i)
  BY ByteIs DEF Parts
<1>2. \A b \in 0 .. 255 : b \in Nat
  OBVIOUS
<1> QED BY <1>1, <1>2

LEMMA TextsPart ==
  ASSUME NEW s \in Texts, NEW t \in Texts, s # t, NEW i, Parts(s, t, i)
  PROVE  /\ CompareText(s, t) = Compare(ByteAt(s, i), ByteAt(t, i))
         /\ CompareText(t, s) = 0 - CompareText(s, t)
         /\ CompareText(s, t) \in {-1, 1}
<1>1. Differ(s, t) = i /\ Differ(t, s) = i
  BY DifferIs, PartsOnce, DifferBoth
<1>2. /\ CompareText(s, t) = Compare(ByteAt(s, i), ByteAt(t, i))
      /\ CompareText(t, s) = Compare(ByteAt(t, i), ByteAt(s, i))
  BY <1>1 DEF CompareText
<1>3. ByteAt(s, i) \in Int /\ ByteAt(t, i) \in Int /\ ByteAt(s, i) # ByteAt(t, i)
  BY PartBytes
<1> QED BY <1>2, <1>3, Compares

LEMMA TextSame ==
  ASSUME NEW s
  PROVE  CompareText(s, s) = 0
  BY DEF CompareText

LEMMA TextsOrdered ==
  ASSUME NEW s \in Texts, NEW t \in Texts, NEW u \in Texts
  PROVE  Ordered(CompareText(s, t), CompareText(t, u), CompareText(s, u))
<1>1. CASE s = t \/ t = u \/ s = u
  <2>1. /\ \A x, y \in Texts : CompareText(x, y) \in {-1, 0, 1} /\ CompareText(y, x) = 0 - CompareText(x, y)
        /\ \A x : CompareText(x, x) = 0
    <3>1. ASSUME NEW x \in Texts, NEW y \in Texts
          PROVE  CompareText(x, y) \in {-1, 0, 1} /\ CompareText(y, x) = 0 - CompareText(x, y)
      <4>1. CASE x = y
        BY <4>1, TextSame
      <4>2. CASE x # y
        BY <4>2, DifferIs, TextsPart
      <4> QED BY <4>1, <4>2
    <3> QED BY <3>1, TextSame
  <2> QED BY <1>1, <2>1 DEF Ordered
<1>2. CASE s # t /\ t # u /\ s # u
  <2> DEFINE i == Differ(s, t)
             j == Differ(t, u)
             k == Differ(s, u)
  <2>1. Parts(s, t, i) /\ Parts(t, u, j) /\ Parts(s, u, k)
    BY <1>2, DifferIs
  <2> HIDE DEF i, j, k
  <2>2. /\ i \in Nat /\ j \in Nat /\ k \in Nat /\ i >= 1 /\ j >= 1 /\ k >= 1
        /\ (i < j => k = i) /\ (j < i => k = j) /\ (i = j => k >= i)
    BY <2>1, ThreeParts DEF Parts
  <2>3. /\ CompareText(s, t) = Compare(ByteAt(s, i), ByteAt(t, i)) /\ CompareText(s, t) \in {-1, 1}
        /\ CompareText(t, u) = Compare(ByteAt(t, j), ByteAt(u, j)) /\ CompareText(t, u) \in {-1, 1}
        /\ CompareText(s, u) = Compare(ByteAt(s, k), ByteAt(u, k)) /\ CompareText(s, u) \in {-1, 1}
    BY <1>2, <2>1, TextsPart
  <2>4. CASE i < j
    <3>1. ByteAt(t, i) = ByteAt(u, i)
      <4>1. i \in 1 .. j - 1
        BY <2>2, <2>4
      <4> QED BY <2>1, <4>1 DEF Parts
    <3>2. CompareText(s, u) = CompareText(s, t)
      BY <2>2, <2>3, <2>4, <3>1
    <3> QED BY <2>3, <3>2, OrderedStrictly
  <2>5. CASE j < i
    <3>1. ByteAt(s, j) = ByteAt(t, j)
      <4>1. j \in 1 .. i - 1
        BY <2>2, <2>5
      <4> QED BY <2>1, <4>1 DEF Parts
    <3>2. CompareText(s, u) = CompareText(t, u)
      BY <2>2, <2>3, <2>5, <3>1
    <3> QED BY <2>3, <3>2, OrderedStrictly
  <2>6. CASE i = j
    <3>1. ByteAt(s, i) \in Int /\ ByteAt(t, i) \in Int /\ ByteAt(u, i) \in Int
      <4>1. \A x \in Texts : ByteAt(x, i) \in 0 .. 255
        BY <2>2, ByteIs
      <4> QED BY <4>1
    <3>2. CASE k = i
      BY <2>3, <2>6, <3>1, <3>2, ComparesThree
    <3>3. CASE k > i
      <4>1. ByteAt(s, i) = ByteAt(u, i)
        <5>1. i \in 1 .. k - 1
          BY <2>2, <3>3
        <5> QED BY <2>1, <5>1 DEF Parts
      <4>2. CompareText(t, u) = 0 - CompareText(s, t)
        <5>1. /\ CompareText(t, u) = Compare(ByteAt(t, i), ByteAt(s, i))
              /\ CompareText(s, t) = Compare(ByteAt(s, i), ByteAt(t, i))
          BY <2>3, <2>6, <4>1
        <5>2. Compare(ByteAt(t, i), ByteAt(s, i)) = 0 - Compare(ByteAt(s, i), ByteAt(t, i))
          BY <3>1, Compares
        <5> QED BY <5>1, <5>2
      <4> QED BY <2>3, <4>2, OrderedStrictly
    <3> QED BY <2>2, <2>6, <3>2, <3>3
  <2> QED BY <2>2, <2>4, <2>5, <2>6
<1> QED BY <1>1, <1>2
-----------------------------------------------------------------------------
(* list.sort_maps_by_key.  A value is a number, NaN, null or a text.       *)
LEMMA HeldIs == Held = {Number(n) : n \in Int} \cup {NaN, Missing} \cup {Chars(s) : s \in Texts}
  BY DEF Held, Number, Chars

LEMMA AnyComparison ==
  /\ \A s, t : CompareText(s, t) \in {-1, 0, 1}
  /\ \A v, w : CompareForSort(v, w) \in {-1, 0, 1}
<1>1. \A i, j : Compare(i, j) \in {-1, 0, 1}
  BY DEF Compare
<1>2. \A s, t : CompareText(s, t) \in {-1, 0, 1}
  BY <1>1 DEF CompareText
<1> QED BY <1>1, <1>2 DEF CompareForSort

(* The values under a key are ordered when they can be compared.           *)
LEMMA HeldOrdered ==
  ASSUME NEW u \in Held, NEW v \in Held, NEW w \in Held, Comparable({u, v, w})
  PROVE  Ordered(CompareForSort(u, v), CompareForSort(v, w), CompareForSort(u, w))
<1>1. CASE u.k = "number" /\ v.k = "number" /\ w.k = "number"
  <2>1. \A x \in Held : x.k = "number" => x.v \in Int /\ x # NaN
    BY DEF Held, Number, NaN, Missing, Chars
  <2>2. \A x, y \in Held : x.k = "number" /\ y.k = "number" => CompareForSort(x, y) = Compare(x.v, y.v)
    BY <2>1 DEF CompareForSort, Numeric
  <2>3. /\ CompareForSort(u, v) = Compare(u.v, v.v) /\ CompareForSort(v, w) = Compare(v.v, w.v)
        /\ CompareForSort(u, w) = Compare(u.v, w.v)
    BY <1>1, <2>2
  <2> QED BY <1>1, <2>1, <2>3, ComparesThree
<1>2. CASE ~Numeric(u) /\ ~Numeric(v) /\ ~Numeric(w)
  <2>1. \A x \in Held : ~Numeric(x) => ToText(x) \in Texts
    <3>1. <<110, 117, 108, 108>> \in Texts
      BY DEF Texts
    <3>2. ASSUME NEW x \in Held, ~Numeric(x) PROVE ToText(x) \in Texts
      <4>1. CASE x = Missing
        BY <3>1, <4>1 DEF ToText, Missing
      <4>2. ASSUME NEW s \in Texts, x = Chars(s) PROVE ToText(x) \in Texts
        BY <4>2 DEF ToText, Chars
      <4>3. x = Missing \/ \E s \in Texts : x = Chars(s)
        BY <3>2, HeldIs DEF Numeric, Number, NaN
      <4> QED BY <4>1, <4>2, <4>3
    <3> QED BY <3>2
  <2>2. /\ CompareForSort(u, v) = CompareText(ToText(u), ToText(v))
        /\ CompareForSort(v, w) = CompareText(ToText(v), ToText(w))
        /\ CompareForSort(u, w) = CompareText(ToText(u), ToText(w))
    BY <1>2 DEF CompareForSort
  <2>3. ToText(u) \in Texts /\ ToText(v) \in Texts /\ ToText(w) \in Texts
    BY <1>2, <2>1
  <2> QED BY <2>2, <2>3, TextsOrdered
<1> QED BY <1>1, <1>2 DEF Comparable

(* A comparison turned, and one that decides where another is undecided,   *)
(* keep three things in order.                                             *)
LEMMA TurnedOrdered ==
  ASSUME NEW how \in How, NEW ab, NEW bc, NEW ac, Ordered(ab, bc, ac)
  PROVE  Ordered(Turned(how, ab), Turned(how, bc), Turned(how, ac))
  BY DEF Ordered, Turned

Then(x, y) == IF x /= 0 THEN x ELSE y

LEMMA ThenOrdered ==
  ASSUME NEW ab, NEW bc, NEW ac, Ordered(ab, bc, ac), NEW de, NEW ef, NEW df, Ordered(de, ef, df)
  PROVE  Ordered(Then(ab, de), Then(bc, ef), Then(ac, df))
  BY DEF Ordered, Then

LEMMA AllEqual == Ordered(0, 0, 0)
  BY DEF Ordered

LEMMA MapsCompared ==
  ASSUME NEW a, NEW b, NEW how \in How
  PROVE  CompareMaps(a, b, how) =
           Then(Turned(how, CompareForSort(a.key, b.key)),
                Then(IF how.second THEN Turned(how, CompareForSort(a.second, b.second)) ELSE 0,
                     IF how.tie THEN CompareForSort(a.tie, b.tie) ELSE 0))
  BY DEF CompareMaps, Then

LEMMA MapsOrdered ==
  ASSUME NEW a \in Item, NEW b \in Item, NEW c \in Item, NEW how \in How,
         Comparable({a.key, b.key, c.key}),
         how.second => Comparable({a.second, b.second, c.second}),
         how.tie => Comparable({a.tie, b.tie, c.tie})
  PROVE  Ordered(CompareMaps(a, b, how), CompareMaps(b, c, how), CompareMaps(a, c, how))
<1> DEFINE first(x, y)  == Turned(how, CompareForSort(x.key, y.key))
           second(x, y) == IF how.second THEN Turned(how, CompareForSort(x.second, y.second)) ELSE 0
           tie(x, y)    == IF how.tie THEN CompareForSort(x.tie, y.tie) ELSE 0
<1>1. /\ a.key \in Held /\ b.key \in Held /\ c.key \in Held
      /\ a.second \in Held /\ b.second \in Held /\ c.second \in Held
      /\ a.tie \in Held /\ b.tie \in Held /\ c.tie \in Held
  BY DEF Item
<1>2. Ordered(first(a, b), first(b, c), first(a, c))
  BY <1>1, HeldOrdered, TurnedOrdered
<1>3. Ordered(second(a, b), second(b, c), second(a, c))
  <2>1. CASE how.second
    <3>1. Ordered(CompareForSort(a.second, b.second), CompareForSort(b.second, c.second),
                  CompareForSort(a.second, c.second))
      BY <1>1, <2>1, HeldOrdered
    <3>2. Ordered(Turned(how, CompareForSort(a.second, b.second)), Turned(how, CompareForSort(b.second, c.second)),
                  Turned(how, CompareForSort(a.second, c.second)))
      BY <3>1, TurnedOrdered
    <3> QED BY <2>1, <3>2
  <2>2. CASE ~how.second
    BY <2>2, AllEqual
  <2> QED BY <2>1, <2>2
<1>4. Ordered(tie(a, b), tie(b, c), tie(a, c))
  <2>1. CASE how.tie
    BY <1>1, <2>1, HeldOrdered
  <2>2. CASE ~how.tie
    BY <2>2, AllEqual
  <2> QED BY <2>1, <2>2
<1>5. \A x, y : CompareMaps(x, y, how) = Then(first(x, y), Then(second(x, y), tie(x, y)))
  BY MapsCompared
<1> HIDE DEF first, second, tie
<1>6. Ordered(Then(second(a, b), tie(a, b)), Then(second(b, c), tie(b, c)), Then(second(a, c), tie(a, c)))
  BY <1>3, <1>4, ThenOrdered
<1>7. Ordered(Then(first(a, b), Then(second(a, b), tie(a, b))), Then(first(b, c), Then(second(b, c), tie(b, c))),
              Then(first(a, c), Then(second(a, c), tie(a, c))))
  BY <1>2, <1>6, ThenOrdered
<1> QED BY <1>5, <1>7

(* Whatever the columns hold, as long as what is compared under each key   *)
(* can be compared, the comparison sort_maps_by_key gives Rust's sort is a *)
(* total order, and reversing turns what the keys say and leaves the tie   *)
(* ascending.                                                              *)
THEOREM MapsSorted ==
  ASSUME NEW a \in Item, NEW b \in Item, NEW c \in Item, NEW how \in How
  PROVE  SortsMaps(a, b, c, how) /\ ReversesKeysOnly(a, b, how)
<1>1. SortsMaps(a, b, c, how)
  <2> SUFFICES ASSUME Comparable({a.key, b.key, c.key}),
                      how.second => Comparable({a.second, b.second, c.second}),
                      how.tie => Comparable({a.tie, b.tie, c.tie})
               PROVE  Total(CompareMaps(a, b, how), CompareMaps(b, a, how),
                            CompareMaps(b, c, how), CompareMaps(a, c, how))
    BY DEF SortsMaps
  <2>1. Ordered(CompareMaps(a, b, how), CompareMaps(b, c, how), CompareMaps(a, c, how))
    BY MapsOrdered
  <2>2. Ordered(CompareMaps(a, b, how), CompareMaps(b, a, how), CompareMaps(a, a, how))
    <3>1. /\ {a.key, b.key, a.key} \subseteq {a.key, b.key, c.key}
          /\ {a.second, b.second, a.second} \subseteq {a.second, b.second, c.second}
          /\ {a.tie, b.tie, a.tie} \subseteq {a.tie, b.tie, c.tie}
      OBVIOUS
    <3>2. \A S, T : S \subseteq T /\ Comparable(T) => Comparable(S)
      BY DEF Comparable
    <3>3. /\ Comparable({a.key, b.key, a.key})
          /\ how.second => Comparable({a.second, b.second, a.second})
          /\ how.tie => Comparable({a.tie, b.tie, a.tie})
      BY <3>1, <3>2
    <3> QED BY <3>3, MapsOrdered
  <2>3. CompareMaps(a, a, how) = 0
    <3>1. CompareForSort(a.key, a.key) = 0 /\ CompareForSort(a.second, a.second) = 0 /\ CompareForSort(a.tie, a.tie) = 0
      <4>1. \A i : Compare(i, i) = 0 \/ i \notin Int
        BY DEF Compare
      <4>2. \A v \in Held : CompareForSort(v, v) = 0
        BY <4>1, TextSame DEF CompareForSort, Held, Number, NaN, Missing, Chars, Numeric
      <4> QED BY <4>2 DEF Item
    <3> QED BY <3>1 DEF CompareMaps, Turned
  <2> QED BY <2>1, <2>2, <2>3 DEF Ordered, Total
<1>2. ReversesKeysOnly(a, b, how)
  <2> DEFINE r == ~how.reverse
             other == [how EXCEPT !.reverse = r]
  <2>1. /\ other.reverse = ~how.reverse /\ other.second = how.second /\ other.tie = how.tie
        /\ how.reverse \in BOOLEAN
    BY DEF How
  <2>2. /\ CompareForSort(a.key, b.key) \in {-1, 0, 1} /\ CompareForSort(a.second, b.second) \in {-1, 0, 1}
    BY AnyComparison
  <2> HIDE DEF r, other
  <2>3. CompareMaps(a, b, how) =
          IF CompareForSort(a.key, b.key) = 0 /\ (how.second => CompareForSort(a.second, b.second) = 0)
          THEN CompareMaps(a, b, other) ELSE 0 - CompareMaps(a, b, other)
    <3> DEFINE f == CompareForSort(a.key, b.key)
               g == CompareForSort(a.second, b.second)
               e == CompareForSort(a.tie, b.tie)
               first(h)  == Turned(h, f)
               second(h) == Turned(h, g)
    <3>1. \A h : CompareMaps(a, b, h) = IF first(h) # 0 THEN first(h)
                                        ELSE IF h.second /\ second(h) # 0 THEN second(h)
                                        ELSE IF h.tie THEN e ELSE 0
      BY DEF CompareMaps
    <3>2. /\ first(how) = 0 - first(other) /\ second(how) = 0 - second(other)
          /\ first(how) = 0 <=> f = 0
          /\ second(how) = 0 <=> g = 0
          /\ first(other) \in {-1, 0, 1} /\ second(other) \in {-1, 0, 1}
      <4>1. f \in {-1, 0, 1} /\ g \in {-1, 0, 1}
        BY <2>2
      <4> HIDE DEF f, g
      <4>2. CASE how.reverse
        <5>1. first(how) = 0 - f /\ second(how) = 0 - g /\ first(other) = f /\ second(other) = g
          BY <2>1, <4>2 DEF Turned
        <5> HIDE DEF first, second
        <5> QED BY <4>1, <5>1
      <4>3. CASE ~how.reverse
        <5>1. first(how) = f /\ second(how) = g /\ first(other) = 0 - f /\ second(other) = 0 - g
          BY <2>1, <4>3 DEF Turned
        <5> HIDE DEF first, second
        <5> QED BY <4>1, <5>1
      <4> QED BY <4>2, <4>3
    <3> HIDE DEF f, g, e, first, second
    <3>3. CompareMaps(a, b, how) =
            IF f = 0 /\ (how.second => g = 0) THEN CompareMaps(a, b, other) ELSE 0 - CompareMaps(a, b, other)
      <4>1. CASE f # 0
        BY <3>1, <3>2, <4>1
      <4>2. CASE f = 0 /\ how.second /\ g # 0
        <5>1. CompareMaps(a, b, how) = second(how) /\ CompareMaps(a, b, other) = second(other)
          <6>1. first(how) = 0 /\ first(other) = 0 /\ second(how) # 0 /\ second(other) # 0 /\ other.second
            BY <2>1, <3>2, <4>2
          <6> QED BY <3>1, <4>2, <6>1
        <5> QED BY <3>2, <4>2, <5>1
      <4>3. CASE f = 0 /\ (how.second => g = 0)
        BY <2>1, <3>1, <3>2, <4>3
      <4> QED BY <4>1, <4>2, <4>3
    <3> QED BY <3>3 DEF f, g
  <2> QED BY <2>3 DEF ReversesKeysOnly, r, other
<1> QED BY <1>1, <1>2
-----------------------------------------------------------------------------
(* list.sort_version.  The run of digits before a place begins at d, and n *)
(* digits stand from the place on.                                         *)
RunOf(s, i, d) ==
  /\ d \in Nat /\ 1 <= d /\ d <= i
  /\ \A j \in d .. i - 1 : Digit(ByteAt(s, j))
  /\ d > 1 => ~Digit(ByteAt(s, d - 1))
DigitsOf(s, i, n) ==
  /\ n \in Nat
  /\ \A j \in i .. i + n - 1 : Digit(ByteAt(s, j))
  /\ ~Digit(ByteAt(s, i + n))

(* The number the place is in, or would be in, has no leading zero.        *)
Counted(s, i) == Leading(ByteAt(s, RunStart(s, i)))

Place(s, i) == i \in Nat /\ 1 <= i /\ i <= Len(s) + 1

LEMMA RunStartIs ==
  ASSUME NEW s \in Texts, NEW i, Place(s, i)
  PROVE  RunOf(s, i, RunStart(s, i))
<1> DEFINE S == {d \in Nat : 1 <= d /\ d <= i /\ \A j \in d .. i - 1 : Digit(ByteAt(s, j))}
<1>1. Len(s) \in Nat /\ i \in Nat /\ 1 <= i /\ i <= Len(s) + 1
  BY ByteIs DEF Place
<1>2. PICK d \in S : \A e \in S : d <= e
  <2>1. i \in S
    BY <1>1
  <2> HIDE DEF S
  <2>2. S \subseteq Nat
    BY DEF S
  <2> QED BY <2>1, <2>2, LeastIs
<1>3. RunOf(s, i, d)
  <2>1. d \in Nat /\ 1 <= d /\ d <= i /\ \A j \in d .. i - 1 : Digit(ByteAt(s, j))
    BY <1>2
  <2>2. ASSUME d > 1, Digit(ByteAt(s, d - 1)) PROVE FALSE
    <3>1. \A j \in d - 1 .. i - 1 : j = d - 1 \/ j \in d .. i - 1
      BY <1>1, <2>1
    <3>2. d - 1 \in S
      BY <1>1, <2>1, <2>2, <3>1
    <3> QED BY <1>2, <2>1, <3>2
  <2> QED BY <2>1, <2>2 DEF RunOf
<1> HIDE DEF S
<1>4. \A j \in 1 .. i - 1 : ByteAt(s, j) = s[j]
  BY <1>1, ByteIs
<1> DEFINE P(e) == (\A j \in e .. i - 1 : Digit(s[j])) /\ (e > 1 => ~Digit(s[e - 1]))
<1>5. \A e \in 1 .. i : P(e) <=> RunOf(s, i, e)
  <2> TAKE e \in 1 .. i
  <2>1. \A j \in e .. i - 1 : ByteAt(s, j) = s[j]
    BY <1>1, <1>4
  <2>2. e > 1 => ByteAt(s, e - 1) = s[e - 1]
    BY <1>1, <1>4
  <2>3. e \in Nat /\ 1 <= e /\ e <= i
    BY <1>1
  <2> QED BY <2>1, <2>2, <2>3 DEF RunOf
<1>6. d \in 1 .. i /\ P(d)
  BY <1>1, <1>3, <1>5 DEF RunOf
<1>7. RunStart(s, i) = CHOOSE e \in 1 .. i : P(e)
  BY DEF RunStart
<1> HIDE DEF P
<1>8. RunStart(s, i) \in 1 .. i /\ P(RunStart(s, i))
  BY <1>6, <1>7
<1> QED BY <1>5, <1>8

LEMMA RunOnce ==
  ASSUME NEW s, NEW i \in Nat, NEW d, NEW e, RunOf(s, i, d), RunOf(s, i, e)
  PROVE  d = e
<1>1. d \in Nat /\ e \in Nat /\ 1 <= d /\ 1 <= e /\ d <= i /\ e <= i
  BY DEF RunOf
<1>2. CASE d < e
  <2>1. e - 1 \in d .. i - 1 /\ e > 1
    BY <1>1, <1>2
  <2> QED BY <2>1 DEF RunOf
<1>3. CASE e < d
  <2>1. d - 1 \in e .. i - 1 /\ d > 1
    BY <1>1, <1>3
  <2> QED BY <2>1 DEF RunOf
<1> QED BY <1>1, <1>2, <1>3

LEMMA DigitsOnce ==
  ASSUME NEW s, NEW i \in Nat, NEW n, NEW m, DigitsOf(s, i, n), DigitsOf(s, i, m)
  PROVE  n = m
<1>1. n \in Nat /\ m \in Nat
  BY DEF DigitsOf
<1>2. CASE n < m
  <2>1. i + n \in i .. i + m - 1
    BY <1>1, <1>2
  <2> QED BY <2>1 DEF DigitsOf
<1>3. CASE m < n
  <2>1. i + m \in i .. i + n - 1
    BY <1>1, <1>3
  <2> QED BY <2>1 DEF DigitsOf
<1> QED BY <1>1, <1>2, <1>3

LEMMA DigitsIs ==
  ASSUME NEW s \in Texts, NEW i, Place(s, i)
  PROVE  DigitsOf(s, i, Digits(s, i))
<1> DEFINE S == {n \in Nat : ~Digit(ByteAt(s, i + n))}
<1>1. Len(s) \in Nat /\ i \in Nat /\ 1 <= i /\ i <= Len(s) + 1
  BY ByteIs DEF Place
<1>2. Len(s) + 1 - i \in S
  <2>1. Len(s) + 1 \in Nat /\ ByteAt(s, Len(s) + 1) = 0
    BY <1>1, ByteIs
  <2>2. Len(s) + 1 - i \in Nat /\ i + (Len(s) + 1 - i) = Len(s) + 1
    BY <1>1
  <2>3. ~Digit(0)
    BY DEF Digit
  <2> QED BY <2>1, <2>2, <2>3
<1>3. PICK n \in S : \A m \in S : n <= m
  <2> HIDE DEF S
  <2>1. S \subseteq Nat
    BY DEF S
  <2> QED BY <1>2, <2>1, LeastIs
<1>4. DigitsOf(s, i, n) /\ n \in 0 .. Len(s)
  <2>1. ASSUME NEW j \in i .. i + n - 1 PROVE Digit(ByteAt(s, j))
    <3> SUFFICES ASSUME ~Digit(ByteAt(s, j)) PROVE FALSE
      OBVIOUS
    <3>1. j - i \in Nat /\ i + (j - i) = j /\ ~(n <= j - i)
      BY <1>1, <1>3
    <3>2. j - i \in S
      BY <3>1
    <3> QED BY <1>3, <3>1, <3>2
  <2>2. n \in Nat /\ n <= Len(s) + 1 - i
    BY <1>2, <1>3
  <2> QED BY <1>1, <1>3, <2>1, <2>2 DEF DigitsOf
<1> HIDE DEF S
<1> DEFINE P(m) == (\A j \in i .. i + m - 1 : Digit(ByteAt(s, j))) /\ ~Digit(ByteAt(s, i + m))
<1>5. \A m \in 0 .. Len(s) : P(m) <=> DigitsOf(s, i, m)
  BY DEF DigitsOf
<1>6. Digits(s, i) = CHOOSE m \in 0 .. Len(s) : P(m)
  BY DEF Digits
<1> HIDE DEF P
<1>7. Digits(s, i) \in 0 .. Len(s) /\ P(Digits(s, i))
  BY <1>4, <1>5, <1>6
<1> QED BY <1>5, <1>7

(* Within a run of digits the run and its number remain what they are, and *)
(* so many digits fewer are to come.                                       *)
LEMMA WithinRun ==
  ASSUME NEW s \in Texts, NEW i, Place(s, i), NEW k \in Nat, i <= k, k <= i + Digits(s, i)
  PROVE  /\ Place(s, k) /\ Digits(s, k) = Digits(s, i) - (k - i)
         /\ Counted(s, i) /\ i < k => Counted(s, k)
<1> DEFINE n == Digits(s, i)
           d == RunStart(s, i)
<1>1. Len(s) \in Nat /\ i \in Nat /\ 1 <= i /\ i <= Len(s) + 1
  BY ByteIs DEF Place
<1>2. DigitsOf(s, i, n) /\ RunOf(s, i, d)
  BY DigitsIs, RunStartIs
<1> HIDE DEF n, d
<1>3. n \in Nat /\ d \in Nat /\ 1 <= d /\ d <= i
  BY <1>2 DEF DigitsOf, RunOf
<1>4. Place(s, k)
  <2> SUFFICES ASSUME ~(k <= Len(s) + 1) PROVE FALSE
    BY <1>1, <1>3 DEF Place
  <2>1. Len(s) + 1 \in i .. i + n - 1
    BY <1>1, <1>3 DEF n
  <2>2. Digit(ByteAt(s, Len(s) + 1))
    BY <1>2, <2>1 DEF DigitsOf
  <2>3. ByteAt(s, Len(s) + 1) = 0
    BY <1>1, ByteIs
  <2> QED BY <2>2, <2>3 DEF Digit
<1>5. DigitsOf(s, k, n - (k - i))
  <2>1. n - (k - i) \in Nat /\ k + (n - (k - i)) = i + n
    BY <1>1, <1>3 DEF n
  <2>2. \A j \in k .. i + n - 1 : j \in i .. i + n - 1
    BY <1>1, <1>3
  <2> DEFINE m == n - (k - i)
  <2>3. m \in Nat /\ k + m = i + n /\ k + m - 1 = i + n - 1
    BY <1>1, <1>3, <2>1
  <2> HIDE DEF m
  <2>4. DigitsOf(s, k, m)
    BY <1>2, <2>2, <2>3 DEF DigitsOf
  <2> QED BY <2>4 DEF m
<1>6. Digits(s, k) = n - (k - i)
  BY <1>4, <1>5, DigitsIs, DigitsOnce
<1>7. Counted(s, i) /\ i < k => Counted(s, k)
  <2>1. RunOf(s, k, d)
    <3>1. d <= k
      BY <1>1, <1>3
    <3>2. \A j \in d .. k - 1 : j \in d .. i - 1 \/ j \in i .. i + n - 1
      BY <1>1, <1>3 DEF n
    <3> QED BY <1>2, <3>1, <3>2 DEF RunOf, DigitsOf
  <2>2. RunStart(s, k) = d
    BY <1>4, <2>1, RunStartIs, RunOnce
  <2> QED BY <2>2 DEF Counted, d
<1> QED BY <1>4, <1>6, <1>7 DEF n

(* Where texts agree before a place, they have one run before it; whether  *)
(* it counts is common to them, or said by what stands at the place.       *)
LEMMA CommonRun ==
  ASSUME NEW s \in Texts, NEW t \in Texts, NEW i, Place(s, i), Place(t, i),
         \A j \in 1 .. i - 1 : ByteAt(s, j) = ByteAt(t, j)
  PROVE  /\ RunStart(t, i) = RunStart(s, i)
         /\ \/ Counted(s, i) <=> Counted(t, i)
            \/ /\ Counted(s, i) <=> Leading(ByteAt(s, i))
               /\ Counted(t, i) <=> Leading(ByteAt(t, i))
         /\ ByteAt(s, i) = ByteAt(t, i) => (Counted(s, i) <=> Counted(t, i))
<1> DEFINE d == RunStart(s, i)
<1>1. i \in Nat /\ 1 <= i
  BY DEF Place
<1>2. RunOf(s, i, d)
  BY RunStartIs
<1> HIDE DEF d
<1>3. d \in Nat /\ 1 <= d /\ d <= i
  BY <1>2 DEF RunOf
<1>4. RunOf(t, i, d)
  <2>1. \A j \in d .. i - 1 : ByteAt(s, j) = ByteAt(t, j)
    BY <1>1, <1>3
  <2>2. d > 1 => ByteAt(s, d - 1) = ByteAt(t, d - 1)
    BY <1>1, <1>3
  <2> QED BY <1>2, <2>1, <2>2 DEF RunOf
<1>5. RunStart(t, i) = d
  BY <1>1, <1>4, RunStartIs, RunOnce
<1>6. (Counted(s, i) <=> Leading(ByteAt(s, d))) /\ (Counted(t, i) <=> Leading(ByteAt(t, d)))
  BY <1>5 DEF Counted, d
<1>7. CASE d = i
  BY <1>5, <1>6, <1>7 DEF d
<1>8. CASE d # i
  <2>1. ByteAt(s, d) = ByteAt(t, d)
    BY <1>1, <1>3, <1>8
  <2> QED BY <1>5, <1>6, <2>1 DEF d
<1> QED BY <1>7, <1>8

(* How versions that part at a place compare.                              *)
LEMMA VersionsPart ==
  ASSUME NEW s \in Texts, NEW t \in Texts, s # t, NEW i, Parts(s, t, i)
  PROVE  /\ Place(s, i) /\ Place(t, i) /\ Digits(s, i) \in Nat /\ Digits(t, i) \in Nat
         /\ VersionCompare(s, t) =
              IF Counted(s, i) /\ Counted(t, i) /\ Digits(s, i) # Digits(t, i)
              THEN Compare(Digits(s, i), Digits(t, i))
              ELSE Compare(ByteAt(s, i), ByteAt(t, i))
<1>1. /\ Len(s) \in Nat /\ Len(t) \in Nat /\ i \in Nat /\ 1 <= i /\ i <= Len(s) + 1 /\ i <= Len(t) + 1
      /\ Place(s, i) /\ Place(t, i)
  BY ByteIs DEF Parts, Place
<1>2. Differ(s, t) = i
  BY DifferIs, PartsOnce
<1>3. RunStart(t, i) = RunStart(s, i) /\ RunOf(s, i, RunStart(s, i))
  BY <1>1, CommonRun, RunStartIs DEF Parts
<1>4. DigitsOf(s, i, Digits(s, i)) /\ DigitsOf(t, i, Digits(t, i))
  BY <1>1, DigitsIs
<1>5. Digits(s, i) \in Nat /\ Digits(t, i) \in Nat
  BY <1>4 DEF DigitsOf
<1> DEFINE d == RunStart(s, i)
<1>6. d \in Nat /\ 1 <= d /\ d <= i
  BY <1>3 DEF RunOf
<1>7. CASE i <= Len(s) /\ i <= Len(t)
  <2>1. d <= Len(s) /\ d <= Len(t)
    BY <1>1, <1>6, <1>7
  <2>2. ByteAt(s, d) = s[d] /\ ByteAt(t, d) = t[d] /\ ByteAt(s, i) = s[i] /\ ByteAt(t, i) = t[i]
    BY <1>1, <1>6, <1>7, <2>1, ByteIs
  <2>3. ~(i > Len(s) \/ i > Len(t))
    BY <1>1, <1>7
  <2>4. VersionCompare(s, t) = IF Leading(s[d]) /\ Leading(t[d]) /\ Digits(s, i) # Digits(t, i)
                               THEN Compare(Digits(s, i), Digits(t, i)) ELSE Compare(s[i], t[i])
    BY <1>2, <2>3 DEF VersionCompare
  <2> QED BY <1>1, <1>3, <1>5, <2>2, <2>4 DEF Counted
<1>8. CASE i > Len(s) \/ i > Len(t)
  <2>1. VersionCompare(s, t) = Compare(Len(s), Len(t))
    BY <1>2, <1>8 DEF VersionCompare
  <2>2. \A x \in Texts : i > Len(x) => ByteAt(x, i) = 0
    BY <1>1, ByteIs
  <2>3. \A x \in Texts : Place(x, i) /\ ByteAt(x, i) = 0 => Digits(x, i) = 0
    <3> SUFFICES ASSUME NEW x \in Texts, Place(x, i), ByteAt(x, i) = 0 PROVE Digits(x, i) = 0
      OBVIOUS
    <3>1. DigitsOf(x, i, Digits(x, i))
      BY DigitsIs
    <3>2. DigitsOf(x, i, 0)
      BY <1>1 DEF DigitsOf, Digit
    <3> QED BY <1>1, <3>1, <3>2, DigitsOnce
  <2>4. ByteAt(s, i) \in Nat /\ ByteAt(t, i) \in Nat /\ ByteAt(s, i) # ByteAt(t, i)
    BY PartBytes
  <2>5. CASE i > Len(s)
    <3>1. ByteAt(s, i) = 0 /\ Digits(s, i) = 0 /\ i <= Len(t)
      BY <1>1, <2>2, <2>3, <2>4, <2>5
    <3>2. Compare(Len(s), Len(t)) = -1 /\ Compare(ByteAt(s, i), ByteAt(t, i)) = -1
      <4>1. Len(s) < Len(t)
        BY <1>1, <2>5, <3>1
      <4>2. ByteAt(s, i) < ByteAt(t, i) /\ ByteAt(s, i) \in Int /\ ByteAt(t, i) \in Int
        BY <2>4, <3>1
      <4> QED BY <1>1, <4>1, <4>2, Compares
    <3>3. Digits(s, i) # Digits(t, i) => Compare(Digits(s, i), Digits(t, i)) = -1
      BY <1>5, <3>1 DEF Compare
    <3> QED BY <1>1, <1>5, <2>1, <3>2, <3>3
  <2>6. CASE i > Len(t)
    <3>1. ByteAt(t, i) = 0 /\ Digits(t, i) = 0 /\ i <= Len(s)
      BY <1>1, <2>2, <2>3, <2>4, <2>6
    <3>2. Compare(Len(s), Len(t)) = 1 /\ Compare(ByteAt(s, i), ByteAt(t, i)) = 1
      <4>1. Len(s) > Len(t)
        BY <1>1, <2>6, <3>1
      <4>2. ByteAt(s, i) > ByteAt(t, i) /\ ByteAt(s, i) \in Int /\ ByteAt(t, i) \in Int
        BY <2>4, <3>1
      <4> QED BY <1>1, <4>1, <4>2, Compares
    <3>3. Digits(s, i) # Digits(t, i) => Compare(Digits(s, i), Digits(t, i)) = 1
      BY <1>5, <3>1 DEF Compare
    <3> QED BY <1>1, <1>5, <2>1, <3>2, <3>3
  <2> QED BY <1>8, <2>5, <2>6
<1> QED BY <1>1, <1>7, <1>8

LEMMA VersionSame ==
  ASSUME NEW s
  PROVE  VersionCompare(s, s) = 0
  BY DEF VersionCompare

LEMMA VersionsTurn ==
  ASSUME NEW s \in Texts, NEW t \in Texts, s # t
  PROVE  VersionCompare(t, s) = 0 - VersionCompare(s, t) /\ VersionCompare(s, t) \in {-1, 1}
<1> DEFINE i == Differ(s, t)
<1>1. Parts(s, t, i)
  BY DifferIs
<1>2. Parts(t, s, i)
  BY <1>1 DEF Parts
<1> HIDE DEF i
<1>3. /\ Digits(s, i) \in Nat /\ Digits(t, i) \in Nat
      /\ ByteAt(s, i) \in Nat /\ ByteAt(t, i) \in Nat /\ ByteAt(s, i) # ByteAt(t, i)
  BY <1>1, VersionsPart, PartBytes
<1>4. /\ VersionCompare(s, t) = IF Counted(s, i) /\ Counted(t, i) /\ Digits(s, i) # Digits(t, i)
                                THEN Compare(Digits(s, i), Digits(t, i)) ELSE Compare(ByteAt(s, i), ByteAt(t, i))
      /\ VersionCompare(t, s) = IF Counted(t, i) /\ Counted(s, i) /\ Digits(t, i) # Digits(s, i)
                                THEN Compare(Digits(t, i), Digits(s, i)) ELSE Compare(ByteAt(t, i), ByteAt(s, i))
  BY <1>1, <1>2, VersionsPart
<1>5. \A x, y \in Int : x # y => Compare(y, x) = 0 - Compare(x, y) /\ Compare(x, y) \in {-1, 1}
  BY Compares
<1>6. CASE Counted(s, i) /\ Counted(t, i) /\ Digits(s, i) # Digits(t, i)
  BY <1>3, <1>4, <1>5, <1>6
<1>7. CASE ~(Counted(s, i) /\ Counted(t, i) /\ Digits(s, i) # Digits(t, i))
  BY <1>3, <1>4, <1>5, <1>7
<1> QED BY <1>6, <1>7

(* Within a number that counts, the shorter one comes first.               *)
LEMMA ShorterFirst ==
  ASSUME NEW s \in Texts, NEW t \in Texts, NEW k, Parts(s, t, k), NEW i, Place(s, i), Place(t, i), i <= k,
         Counted(s, i), Counted(t, i), Digits(s, i) < Digits(t, i)
  PROVE  VersionCompare(s, t) = -1
<1> DEFINE n == Digits(s, i)
           m == Digits(t, i)
<1>1. i \in Nat /\ k \in Nat /\ 1 <= i /\ 1 <= k /\ i <= k /\ s # t
  BY DEF Place, Parts
<1>2. n \in Nat /\ m \in Nat /\ n < m /\ DigitsOf(s, i, n) /\ DigitsOf(t, i, m)
  BY DigitsIs DEF DigitsOf
<1> HIDE DEF n, m
<1>3. k <= i + n
  <2> SUFFICES ASSUME ~(k <= i + n) PROVE FALSE
    OBVIOUS
  <2>1. i + n \in 1 .. k - 1 /\ i + n \in i .. i + m - 1
    BY <1>1, <1>2
  <2> QED BY <1>2, <2>1 DEF Parts, DigitsOf
<1>4. /\ Digits(s, k) = n - (k - i) /\ Digits(t, k) = m - (k - i)
      /\ Counted(s, k) /\ Counted(t, k)
  <2>1. k <= i + m /\ (i < k \/ i = k)
    BY <1>1, <1>2, <1>3
  <2> QED BY <1>1, <1>3, <2>1, WithinRun DEF n, m
<1>5. VersionCompare(s, t) = IF Counted(s, k) /\ Counted(t, k) /\ Digits(s, k) # Digits(t, k)
                             THEN Compare(Digits(s, k), Digits(t, k)) ELSE Compare(ByteAt(s, k), ByteAt(t, k))
  BY <1>1, VersionsPart
<1>6. n - (k - i) < m - (k - i)
  BY <1>1, <1>2
<1>7. Compare(n - (k - i), m - (k - i)) = -1
  BY <1>6 DEF Compare
<1> QED BY <1>1, <1>2, <1>4, <1>5, <1>6, <1>7

(* What it is for one version to come before another.                      *)
LEMMA VersionBefore ==
  ASSUME NEW s \in Texts, NEW t \in Texts, s # t, NEW i, Parts(s, t, i)
  PROVE  VersionCompare(s, t) = -1 <=>
           IF Counted(s, i) /\ Counted(t, i) /\ Digits(s, i) # Digits(t, i)
           THEN Digits(s, i) < Digits(t, i) ELSE ByteAt(s, i) < ByteAt(t, i)
<1>1. Digits(s, i) \in Int /\ Digits(t, i) \in Int
  BY VersionsPart
<1>2. ByteAt(s, i) \in Int /\ ByteAt(t, i) \in Int
  BY PartBytes
<1>3. CASE Counted(s, i) /\ Counted(t, i) /\ Digits(s, i) # Digits(t, i)
  BY <1>1, <1>3, VersionsPart, Compares
<1>4. CASE ~(Counted(s, i) /\ Counted(t, i) /\ Digits(s, i) # Digits(t, i))
  BY <1>2, <1>4, VersionsPart, Compares
<1> QED BY <1>3, <1>4

LEMMA VersionsClimb ==
  ASSUME NEW s \in Texts, NEW t \in Texts, NEW u \in Texts, s # t, t # u, s # u,
         VersionCompare(s, t) = -1, VersionCompare(t, u) = -1
  PROVE  VersionCompare(s, u) = -1
<1> DEFINE i == Differ(s, t)
           j == Differ(t, u)
           k == Differ(s, u)
<1>1. Parts(s, t, i) /\ Parts(t, u, j) /\ Parts(s, u, k)
  BY DifferIs
<1> HIDE DEF i, j, k
<1>2. Parts(u, t, j) /\ VersionCompare(u, t) # -1 /\ Parts(t, s, i) /\ VersionCompare(t, s) # -1
  <2>1. VersionCompare(u, t) = 1 /\ VersionCompare(t, s) = 1
    BY VersionsTurn
  <2> QED BY <1>1, <2>1 DEF Parts
<1>3. /\ i \in Nat /\ j \in Nat /\ k \in Nat /\ i >= 1 /\ j >= 1 /\ k >= 1
      /\ (i < j => k = i) /\ (j < i => k = j) /\ (i = j => k >= i)
  BY <1>1, ThreeParts DEF Parts
<1>4. CASE i < j
  <2>1. Place(s, i) /\ Place(t, i) /\ Place(u, i) /\ k = i
    BY <1>1, <1>3, <1>4 DEF Parts, Place
  <2>2. /\ Digits(s, i) \in Nat /\ Digits(t, i) \in Nat /\ Digits(u, i) \in Nat
        /\ ByteAt(s, i) \in Nat /\ ByteAt(t, i) \in Nat
    BY <2>1, <1>1, DigitsIs, PartBytes DEF DigitsOf
  <2>3. ByteAt(t, i) = ByteAt(u, i) /\ (Counted(t, i) <=> Counted(u, i))
    <3>1. i \in 1 .. j - 1 /\ \A l \in 1 .. i - 1 : l \in 1 .. j - 1
      BY <1>3, <1>4
    <3>2. ByteAt(t, i) = ByteAt(u, i) /\ \A l \in 1 .. i - 1 : ByteAt(t, l) = ByteAt(u, l)
      BY <1>1, <3>1 DEF Parts
    <3> QED BY <2>1, <3>2, CommonRun
  <2>4. Counted(t, i) => Digits(t, i) <= Digits(u, i)
    <3> SUFFICES ASSUME Counted(t, i), ~(Digits(t, i) <= Digits(u, i)) PROVE FALSE
      OBVIOUS
    <3>1. Digits(u, i) < Digits(t, i) /\ i <= j
      BY <1>3, <1>4, <2>2
    <3> QED BY <1>2, <2>1, <2>3, <3>1, ShorterFirst
  <2>5. IF Counted(s, i) /\ Counted(t, i) /\ Digits(s, i) # Digits(t, i)
        THEN Digits(s, i) < Digits(t, i) ELSE ByteAt(s, i) < ByteAt(t, i)
    BY <1>1, VersionBefore
  <2>6. IF Counted(s, i) /\ Counted(u, i) /\ Digits(s, i) # Digits(u, i)
        THEN Digits(s, i) < Digits(u, i) ELSE ByteAt(s, i) < ByteAt(u, i)
    BY <2>2, <2>3, <2>4, <2>5
  <2> QED BY <1>1, <2>1, <2>6, VersionBefore
<1>5. CASE j < i
  <2>1. Place(s, j) /\ Place(t, j) /\ Place(u, j) /\ k = j
    BY <1>1, <1>3, <1>5 DEF Parts, Place
  <2>2. /\ Digits(s, j) \in Nat /\ Digits(t, j) \in Nat /\ Digits(u, j) \in Nat
        /\ ByteAt(u, j) \in Nat /\ ByteAt(t, j) \in Nat
    BY <2>1, <1>1, DigitsIs, PartBytes DEF DigitsOf
  <2>3. ByteAt(s, j) = ByteAt(t, j) /\ (Counted(s, j) <=> Counted(t, j))
    <3>1. j \in 1 .. i - 1 /\ \A l \in 1 .. j - 1 : l \in 1 .. i - 1
      BY <1>3, <1>5
    <3>2. ByteAt(s, j) = ByteAt(t, j) /\ \A l \in 1 .. j - 1 : ByteAt(s, l) = ByteAt(t, l)
      BY <1>1, <3>1 DEF Parts
    <3> QED BY <2>1, <3>2, CommonRun
  <2>4. Counted(t, j) => Digits(s, j) <= Digits(t, j)
    <3> SUFFICES ASSUME Counted(t, j), ~(Digits(s, j) <= Digits(t, j)) PROVE FALSE
      OBVIOUS
    <3>1. Digits(t, j) < Digits(s, j) /\ j <= i
      BY <1>3, <1>5, <2>2
    <3> QED BY <1>2, <2>1, <2>3, <3>1, ShorterFirst
  <2>5. IF Counted(t, j) /\ Counted(u, j) /\ Digits(t, j) # Digits(u, j)
        THEN Digits(t, j) < Digits(u, j) ELSE ByteAt(t, j) < ByteAt(u, j)
    BY <1>1, VersionBefore
  <2>6. IF Counted(s, j) /\ Counted(u, j) /\ Digits(s, j) # Digits(u, j)
        THEN Digits(s, j) < Digits(u, j) ELSE ByteAt(s, j) < ByteAt(u, j)
    BY <2>2, <2>3, <2>4, <2>5
  <2> QED BY <1>1, <2>1, <2>6, VersionBefore
<1>6. CASE i = j
  <2>1. Place(s, i) /\ Place(t, i) /\ Place(u, i)
    BY <1>1, <1>3, <1>6 DEF Parts, Place
  <2>2. /\ Digits(s, i) \in Nat /\ Digits(t, i) \in Nat /\ Digits(u, i) \in Nat
        /\ ByteAt(s, i) \in Nat /\ ByteAt(t, i) \in Nat /\ ByteAt(u, i) \in Nat
    BY <1>1, <1>6, <2>1, DigitsIs, PartBytes DEF DigitsOf
  <2>3. /\ IF Counted(s, i) /\ Counted(t, i) /\ Digits(s, i) # Digits(t, i)
           THEN Digits(s, i) < Digits(t, i) ELSE ByteAt(s, i) < ByteAt(t, i)
        /\ IF Counted(t, i) /\ Counted(u, i) /\ Digits(t, i) # Digits(u, i)
           THEN Digits(t, i) < Digits(u, i) ELSE ByteAt(t, i) < ByteAt(u, i)
    BY <1>1, <1>6, VersionBefore
  <2>4. \A l \in 1 .. i - 1 : ByteAt(s, l) = ByteAt(t, l) /\ ByteAt(t, l) = ByteAt(u, l)
    BY <1>1, <1>6 DEF Parts
  <2>5. CASE k = i
    <3>1. \/ (Counted(s, i) <=> Counted(t, i)) /\ (Counted(t, i) <=> Counted(u, i))
          \/ /\ Counted(s, i) <=> Leading(ByteAt(s, i))
             /\ Counted(t, i) <=> Leading(ByteAt(t, i))
             /\ Counted(u, i) <=> Leading(ByteAt(u, i))
      <4>1. \A x \in Texts : Place(x, i) /\ (\A l \in 1 .. i - 1 : ByteAt(s, l) = ByteAt(x, l)) =>
              IF RunStart(s, i) = i THEN Counted(x, i) <=> Leading(ByteAt(x, i)) ELSE Counted(x, i) <=> Counted(s, i)
        <5> SUFFICES ASSUME NEW x \in Texts, Place(x, i), \A l \in 1 .. i - 1 : ByteAt(s, l) = ByteAt(x, l)
                     PROVE  IF RunStart(s, i) = i THEN Counted(x, i) <=> Leading(ByteAt(x, i))
                            ELSE Counted(x, i) <=> Counted(s, i)
          OBVIOUS
        <5>1. RunStart(x, i) = RunStart(s, i)
          BY <2>1, CommonRun
        <5>2. RunStart(s, i) \in 1 .. i
          BY <1>3, <2>1, RunStartIs DEF RunOf
        <5>3. RunStart(s, i) # i => ByteAt(x, RunStart(s, i)) = ByteAt(s, RunStart(s, i))
          BY <1>3, <5>2
        <5> QED BY <5>1, <5>3 DEF Counted
      <4> QED BY <2>1, <2>4, <4>1
    <3>2. IF Counted(s, i) /\ Counted(u, i) /\ Digits(s, i) # Digits(u, i)
          THEN Digits(s, i) < Digits(u, i) ELSE ByteAt(s, i) < ByteAt(u, i)
      <4>1. CASE (Counted(s, i) <=> Counted(t, i)) /\ (Counted(t, i) <=> Counted(u, i))
        BY <2>2, <2>3, <4>1
      <4>2. CASE /\ Counted(s, i) <=> Leading(ByteAt(s, i))
                 /\ Counted(t, i) <=> Leading(ByteAt(t, i))
                 /\ Counted(u, i) <=> Leading(ByteAt(u, i))
        <5>1. \A b \in Nat : Leading(b) <=> b >= 49 /\ b <= 57
          BY DEF Leading
        <5> QED BY <2>2, <2>3, <4>2, <5>1
      <4> QED BY <3>1, <4>1, <4>2
    <3> QED BY <1>1, <2>5, <3>2, VersionBefore
  <2>6. CASE k > i
    <3>1. ByteAt(s, i) = ByteAt(u, i) /\ (Counted(s, i) <=> Counted(u, i))
      <4>1. i \in 1 .. k - 1 /\ \A l \in 1 .. i - 1 : l \in 1 .. k - 1
        BY <1>3, <2>6
      <4>2. ByteAt(s, i) = ByteAt(u, i) /\ \A l \in 1 .. i - 1 : ByteAt(s, l) = ByteAt(u, l)
        BY <1>1, <4>1 DEF Parts
      <4> QED BY <2>1, <4>2, CommonRun
    <3>2. Counted(s, i) /\ Counted(u, i) /\ Digits(s, i) < Digits(u, i)
      BY <2>2, <2>3, <3>1
    <3> QED BY <1>1, <1>3, <2>1, <2>6, <3>2, ShorterFirst
  <2> QED BY <1>3, <1>6, <2>5, <2>6
<1> QED BY <1>3, <1>4, <1>5, <1>6

LEMMA VersionsOrdered ==
  ASSUME NEW s \in Texts, NEW t \in Texts, NEW u \in Texts
  PROVE  Ordered(VersionCompare(s, t), VersionCompare(t, u), VersionCompare(s, u))
<1>1. \A x, y \in Texts : VersionCompare(x, y) \in {-1, 0, 1} /\ VersionCompare(y, x) = 0 - VersionCompare(x, y)
  <2>1. ASSUME NEW x \in Texts, NEW y \in Texts
        PROVE  VersionCompare(x, y) \in {-1, 0, 1} /\ VersionCompare(y, x) = 0 - VersionCompare(x, y)
    <3>1. CASE x = y
      BY <3>1, VersionSame
    <3>2. CASE x # y
      BY <3>2, VersionsTurn
    <3> QED BY <3>1, <3>2
  <2> QED BY <2>1
<1>2. CASE s = t \/ t = u \/ s = u
  BY <1>1, <1>2, VersionSame DEF Ordered
<1>3. CASE s # t /\ t # u /\ s # u
  <2>1. VersionCompare(s, t) \in {-1, 1} /\ VersionCompare(t, u) \in {-1, 1} /\ VersionCompare(s, u) \in {-1, 1}
    BY <1>3, VersionsTurn
  <2>2. VersionCompare(s, t) = -1 /\ VersionCompare(t, u) = -1 => VersionCompare(s, u) = -1
    BY <1>3, VersionsClimb
  <2>3. VersionCompare(u, t) = -1 /\ VersionCompare(t, s) = -1 => VersionCompare(u, s) = -1
    BY <1>3, VersionsClimb
  <2>4. VersionCompare(s, t) = 1 /\ VersionCompare(t, u) = 1 => VersionCompare(s, u) = 1
    BY <1>1, <2>1, <2>3
  <2> QED BY <2>1, <2>2, <2>4, OrderedStrictly
<1> QED BY <1>2, <1>3

(* The bytes musl compares after leading zeros: they keep their order,     *)
(* unless one is before '0' and the other is a digit.                      *)
Wrapped(b) == (b - 48) % 256

LEMMA AfterZeros ==
  ASSUME NEW b \in 0 .. 255, NEW c \in 0 .. 255, b # c, Digit(b) \/ Digit(c)
  PROVE  /\ b < 48 \/ c < 48 => Compare(Wrapped(b), Wrapped(c)) = 0 - Compare(b, c)
         /\ ~(b < 48 \/ c < 48) => Compare(Wrapped(b), Wrapped(c)) = Compare(b, c)
<1> DEFINE x == Wrapped(b)
           y == Wrapped(c)
<1>0. x = (b - 48) % 256 /\ y = (c - 48) % 256
  BY DEF Wrapped
<1> HIDE DEF x, y
<1>1. \A z \in 0 .. 255 : (z < 48 => (z - 48) % 256 = z + 208) /\ (z >= 48 => (z - 48) % 256 = z - 48)
  OBVIOUS
<1>2. (Digit(b) => b \in 48 .. 57) /\ (Digit(c) => c \in 48 .. 57)
  BY DEF Digit
<1>3. /\ b < 48 => x = b + 208
      /\ b >= 48 => x = b - 48
      /\ c < 48 => y = c + 208
      /\ c >= 48 => y = c - 48
  BY <1>0, <1>1
<1>4. b \in Int /\ c \in Int /\ 0 <= b /\ b <= 255 /\ 0 <= c /\ c <= 255
  OBVIOUS
<1>5. /\ b < 48 \/ c < 48 => Compare(x, y) = 0 - Compare(b, c)
      /\ ~(b < 48 \/ c < 48) => Compare(x, y) = Compare(b, c)
  BY <1>2, <1>3, <1>4 DEF Compare
<1> QED BY <1>5 DEF x, y

(* What musl's function gives, and where the code differs from it.         *)
LEMMA AsMuslCompares ==
  ASSUME NEW s \in Texts, NEW t \in Texts, s # t
  PROVE  VersionCompare(s, t) = IF EndsZeros(s, t) THEN 0 - MuslCompare(s, t) ELSE MuslCompare(s, t)
<1> DEFINE i == Differ(s, t)
           d == RunStart(s, i)
           zeros == d < i /\ \A j \in d .. i - 1 : s[j] = 48
           si == ByteAt(s, i)
           ti == ByteAt(t, i)
           longer == Leading(ByteAt(s, d)) /\ Leading(ByteAt(t, d)) /\ Digits(s, i) # Digits(t, i)
<1>1. Parts(s, t, i)
  BY DifferIs
<1>2. /\ EndsZeros(s, t) <=> zeros /\ (Digit(si) \/ Digit(ti)) /\ (si < 48 \/ ti < 48)
      /\ MuslCompare(s, t) = IF longer THEN Compare(Digits(s, i), Digits(t, i))
                             ELSE IF zeros /\ (Digit(si) \/ Digit(ti))
                             THEN Compare((si - 48) % 256, (ti - 48) % 256)
                             ELSE Compare(si, ti)
  BY DEF EndsZeros, MuslCompare
<1> HIDE DEF i
<1>3. Len(s) \in Nat /\ i \in Nat /\ 1 <= i /\ i <= Len(s) + 1 /\ Place(s, i) /\ Place(t, i)
  BY <1>1, ByteIs DEF Parts, Place
<1>4. d \in Nat /\ 1 <= d /\ d <= i /\ RunStart(t, i) = d
  BY <1>1, <1>3, CommonRun, RunStartIs DEF Parts, RunOf
<1>5. VersionCompare(s, t) = IF longer THEN Compare(Digits(s, i), Digits(t, i)) ELSE Compare(si, ti)
  BY <1>1, <1>4, VersionsPart DEF Counted
<1>6. zeros => ~longer
  <2>1. zeros => s[d] = 48 /\ ByteAt(s, d) = s[d]
    BY <1>3, <1>4, ByteIs
  <2> QED BY <2>1 DEF Leading
<1>7. si \in 0 .. 255 /\ ti \in 0 .. 255 /\ si # ti
  BY <1>1, <1>3, ByteIs DEF Parts
<1> HIDE DEF d, zeros, si, ti, longer
<1>8. Compare(si, ti) = 0 - (0 - Compare(si, ti))
  <2>1. Compare(si, ti) \in {-1, 0, 1}
    BY DEF Compare
  <2> QED BY <2>1
<1>9. CASE zeros /\ (Digit(si) \/ Digit(ti))
  <2>1. MuslCompare(s, t) = Compare((si - 48) % 256, (ti - 48) % 256) /\ VersionCompare(s, t) = Compare(si, ti)
    BY <1>2, <1>5, <1>6, <1>9
  <2>2. MuslCompare(s, t) = IF si < 48 \/ ti < 48 THEN 0 - Compare(si, ti) ELSE Compare(si, ti)
    <3>1. MuslCompare(s, t) = Compare(Wrapped(si), Wrapped(ti))
      BY <2>1 DEF Wrapped
    <3>2. /\ si < 48 \/ ti < 48 => Compare(Wrapped(si), Wrapped(ti)) = 0 - Compare(si, ti)
          /\ ~(si < 48 \/ ti < 48) => Compare(Wrapped(si), Wrapped(ti)) = Compare(si, ti)
      <4>1. \A b, c \in 0 .. 255 : b # c /\ (Digit(b) \/ Digit(c)) =>
              /\ b < 48 \/ c < 48 => Compare(Wrapped(b), Wrapped(c)) = 0 - Compare(b, c)
              /\ ~(b < 48 \/ c < 48) => Compare(Wrapped(b), Wrapped(c)) = Compare(b, c)
        BY AfterZeros, Zenon
      <4>2. si \in 0 .. 255 /\ ti \in 0 .. 255 /\ si # ti /\ (Digit(si) \/ Digit(ti))
        BY <1>7, <1>9, Zenon
      <4> QED BY <4>1, <4>2, Zenon
    <3> QED BY <3>1, <3>2
  <2> QED BY <1>2, <1>8, <1>9, <2>1, <2>2
<1>10. CASE ~(zeros /\ (Digit(si) \/ Digit(ti)))
  BY <1>2, <1>5, <1>10
<1> QED BY <1>9, <1>10

(* Versions are totally ordered, whatever their runs of digits and zeros,  *)
(* only a version equals itself, and the order is that of musl, but for    *)
(* two runs of zeros of which one ends before a sign before '0'.           *)
THEOREM VersionsSorted ==
  ASSUME NEW s \in Texts, NEW t \in Texts, NEW u \in Texts
  PROVE  SortsVersions(s, t, u)
<1>1. Ordered(VersionCompare(s, t), VersionCompare(t, u), VersionCompare(s, u))
  BY VersionsOrdered
<1>2. VersionCompare(s, t) = 0 - VersionCompare(t, s) /\ (VersionCompare(s, t) = 0 <=> s = t)
  <2>1. CASE s = t
    BY <2>1, VersionSame
  <2>2. CASE s # t
    <3>1. VersionCompare(t, s) = 0 - VersionCompare(s, t) /\ VersionCompare(s, t) \in {-1, 1}
      BY <2>2, VersionsTurn
    <3> QED BY <2>2, <3>1
  <2> QED BY <2>1, <2>2
<1>3. Total(VersionCompare(s, t), VersionCompare(t, s), VersionCompare(t, u), VersionCompare(s, u))
  BY <1>1, <1>2 DEF Total, Ordered
<1>4. (VersionCompare(s, t) = 0) = (s = t)
  BY <1>2
<1> QED BY <1>3, <1>4, AsMuslCompares DEF SortsVersions

(* What is asked of an order is answered as the comparisons above answer.  *)
THEOREM OrdersAreTotal == WellAsked => SortsConsistently
<1> SUFFICES ASSUME WellAsked PROVE SortsConsistently
  OBVIOUS
<1>1. ASSUME Asks("order")
      PROVE  /\ SortsMaps(question[1], question[2], question[3], question[4])
             /\ ReversesKeysOnly(question[1], question[2], question[4])
  <2>1. /\ question[1] \in Item /\ question[2] \in Item /\ question[3] \in Item /\ question[4] \in How
    BY <1>1 DEF WellAsked
  <2> QED BY <2>1, MapsSorted
<1>2. ASSUME Asks("versions") PROVE SortsVersions(question[1], question[2], question[3])
  <2>1. question[1] \in Texts /\ question[2] \in Texts /\ question[3] \in Texts
    BY <1>2 DEF WellAsked
  <2> QED BY <2>1, VersionsSorted
<1> QED BY <1>1, <1>2 DEF SortsConsistently
-----------------------------------------------------------------------------
(* The tables of names.                                                    *)
LEMMA InIs == \A ns, functions, m, f : <<m, f>> \in In(ns, functions) <=> m = ns /\ f \in functions
BY DEF In

(* A name of the tables has two parts.                                     *)
LEMMA KnownAreDotted ==
  \A name \in CoreNames \cup GatedNames \cup Methods : name = <<name[1], name[2]>> /\ Dotted(name)
<1>1. \A ns, functions : \A name \in In(ns, functions) : name = <<name[1], name[2]>> /\ Len(name) = 2
  BY DEF In
<1> QED BY <1>1 DEF Dotted, CoreNames, GatedNames, Methods, StringMethods, NumberMethods, ListMethods, MapMethods,
     ReMethods

(* Name by name, lint's table is the interpreter's.                        *)
LEMMA LintKnows ==
  ASSUME NEW ns, NEW f, <<ns, f>> \notin Promised
  PROVE  <<ns, f>> \in KnownFunctions <=> <<ns, f>> \in CoreNames \cup GatedNames \cup Methods
BY InIs DEF Promised, KnownFunctions, KnownSystem, KnownConnections, KnownFormats, KnownText, KnownValues,
   CoreNames, GatedNames, Methods, StringMethods, NumberMethods, ListMethods, MapMethods, ReMethods

LEMMA Interprets ==
  \A name : \A named \in BOOLEAN :
    Interpreted([name |-> name, named |-> named]) # Unknown <=> name \in CoreNames \cup GatedNames \cup Methods
<1> TAKE name
<1> TAKE named \in BOOLEAN
<1>1. \A m, f, c, st : Runs(m, f, c, st) # Unknown
  <2> TAKE m, f, c, st
  <2>1. <<m, f>> # <<>>
    OBVIOUS
  <2>2. Runs(m, f, c, st).runs = <<m, f>> /\ Unknown.runs = <<>>
    BY DEF Runs, Unknown
  <2> QED BY <2>1, <2>2
<1> QED BY <1>1 DEF Interpreted

LEMMA LintKnowsNames == \A name : KnowsName(name)
<1> SUFFICES ASSUME NEW name, name \notin Promised
             PROVE  name \in KnownFunctions <=> name \in CoreNames \cup GatedNames \cup Methods
  BY Interprets DEF KnowsName
<1>1. name \in KnownFunctions => name = <<name[1], name[2]>>
  <2>1. \A ns, functions : \A n \in In(ns, functions) : n = <<n[1], n[2]>>
    BY DEF In
  <2> QED BY <2>1 DEF KnownFunctions, KnownSystem, KnownConnections, KnownFormats, KnownText, KnownValues
<1> QED BY <1>1, KnownAreDotted, LintKnows

LEMMA KnownAreMacros ==
  \A ns, f : <<ns, f>> \in CoreNames \cup GatedNames \cup Methods => <<ns, f>> \in Macros
BY InIs DEF
   CoreNames, GatedNames, Methods, StringMethods, NumberMethods, ListMethods, MapMethods, ReMethods,
   Macros, StateMacros, SysMacros, OsMacros, UserMacros, FileMacros, MetaMacros, LabelMacros,
    MathMacros, TimeMacros, ArgsMacros, JsonMacros, YamlMacros, HclMacros, CsvMacros, XmlMacros,
    EnvMacros, DnsMacros, HttpMacros, NetMacros, PexMacros, CryptoMacros, DbMacros, AmqpMacros,
    TemplateMacros, LlmMacros, NotificationMacros, ReMacros, TextMacros, SearchMacros, HexMacros,
    NumberMacros, ListMacros, SortMacros, MapMacros

(* Functions are not methods.                                              *)
LEMMA Apart ==
  /\ \A ns, f : <<ns, f>> \in CoreNames \cup GatedNames => ns \notin MethodSpace /\ ns \in Modules
  /\ \A ns, f : <<ns, f>> \in Methods => ns \in MethodSpace
<1>1. \A ns, f : <<ns, f>> \in CoreNames \cup GatedNames => ns \notin MethodSpace
  BY InIs DEF CoreNames, GatedNames, MethodSpace
<1>2. \A ns, f : <<ns, f>> \in CoreNames \cup GatedNames => ns \in Modules
  <2> TAKE ns, f
  <2>1. <<ns, f>>[1] = ns
    OBVIOUS
  <2> QED BY <2>1 DEF Modules
<1>3. \A ns, f : <<ns, f>> \in Methods => ns \in MethodSpace
  BY InIs DEF MethodSpace, Methods, StringMethods, NumberMethods, ListMethods, MapMethods, ReMethods
<1> QED BY <1>1, <1>2, <1>3

LEMMA StateTablesAgree ==
  \A ns, f : <<ns, f>> \in CoreNames \cup GatedNames => (NeedsState(<<ns, f>>) <=> <<ns, f>> \in WithState)
<1> TAKE ns, f
<1>1. <<ns, f>>[1] = ns
  OBVIOUS
<1>2. <<ns, f>> \in {n \in GatedNames : n[1] \in {"net", "pex"}} <=> <<ns, f>> \in GatedNames /\ ns \in {"net", "pex"}
  BY <1>1
<1>3. <<ns, f>> = <<"os", "argv">> <=> ns = "os" /\ f = "argv"
  OBVIOUS
<1> HIDE DEF WithState
<1> QED BY <1>2, <1>3, InIs DEF WithState, NeedsState, CoreNames, GatedNames

(* Functions whose Rust names differ.                                      *)
Rust(ns, f, g) ==
  \/ ns = "sys" /\ f = "print" /\ g = "print_no_newline"
  \/ ns = "sys" /\ f = "eprint" /\ g = "eprint_newline"
  \/ ns = "sys" /\ f = "exit" /\ g = "exit_process"
  \/ ns = "math" /\ f = "mod" /\ g = "modulo"
  \/ ns = "fs" /\ f = "move" /\ g = "move_file"
  \/ ns = "notifications" /\ f = "os" /\ g = "os_notify"
  \/ ns \in {"json", "yaml", "hcl", "csv", "xml", "env"} /\ f = "parse" /\ g = "parse_value"

LEMMA RenamedAre ==
  /\ \A ns, f, g : Rust(ns, f, g) => [name |-> <<ns, f>>, rust |-> g] \in Renamed
  /\ \A r \in Renamed : Rust(r.name[1], r.name[2], r.rust) /\ r.name = <<r.name[1], r.name[2]>>
BY DEF Rust, Renamed

LEMMA RustNameIs ==
  \A ns, f : /\ \A g : Rust(ns, f, g) => RustName(<<ns, f>>) = g
             /\ (\A g : ~Rust(ns, f, g)) => RustName(<<ns, f>>) = f
<1> TAKE ns, f
<1>1. <<ns, f>>[1] = ns /\ <<ns, f>>[2] = f
  OBVIOUS
<1>2. ASSUME NEW g, Rust(ns, f, g) PROVE RustName(<<ns, f>>) = g
  <2>1. \E r \in Renamed : r.name = <<ns, f>>
    <3> DEFINE r == [name |-> <<ns, f>>, rust |-> g]
    <3>1. r \in Renamed /\ r.name = <<ns, f>>
      BY <1>2, RenamedAre
    <3> HIDE DEF r
    <3> QED BY <3>1
  <2>2. \A r \in Renamed : r.name = <<ns, f>> => r.rust = g
    <3> TAKE r \in Renamed
    <3> HAVE r.name = <<ns, f>>
    <3>1. Rust(ns, f, r.rust)
      BY <1>1, RenamedAre
    <3> QED BY <1>2, <3>1 DEF Rust
  <2> DEFINE c == CHOOSE r \in Renamed : r.name = <<ns, f>>
  <2>3. c \in Renamed /\ c.name = <<ns, f>>
    BY <2>1
  <2>4. RustName(<<ns, f>>) = c.rust
    BY <2>1 DEF RustName
  <2> HIDE DEF c
  <2> QED BY <2>2, <2>3, <2>4
<1>3. ASSUME \A g : ~Rust(ns, f, g) PROVE RustName(<<ns, f>>) = f
  <2>1. ~\E r \in Renamed : r.name = <<ns, f>>
    BY <1>1, <1>3, RenamedAre
  <2> QED BY <1>1, <2>1 DEF RustName
<1> QED BY <1>2, <1>3

(* The transpiler names a known function as it is named.                   *)
LEMMA RustNamesAgree ==
  \A ns, f : <<ns, f>> \in CoreNames \cup GatedNames => FunctionToRustName(<<ns, f>>, f) = RustName(<<ns, f>>)
<1> TAKE ns, f
<1> HAVE <<ns, f>> \in CoreNames \cup GatedNames
<1>1. <<ns, f>>[1] = ns
  OBVIOUS
<1>2. \A m, g : <<ns, f>> = <<m, g>> <=> ns = m /\ f = g
  OBVIOUS
<1>3. f \in {"mod", "move", "parse", "match"} => 
        \/ <<ns, f>> = <<"math", "mod">> \/ <<ns, f>> = <<"fs", "move">> \/ <<ns, f>> = <<"args", "parse">>
        \/ ns \in {"json", "yaml", "hcl", "csv", "xml", "env"} /\ f = "parse"
  BY InIs DEF CoreNames, GatedNames
<1>4. CASE \E g : Rust(ns, f, g)
  <2>1. PICK g : Rust(ns, f, g)
    BY <1>4
  <2>2. RustName(<<ns, f>>) = g
    BY <2>1, RustNameIs
  <2>3. FunctionToRustName(<<ns, f>>, f) = g
    BY <1>1, <1>2, <2>1 DEF FunctionToRustName, Rust
  <2> QED BY <2>2, <2>3
<1>5. CASE ~\E g : Rust(ns, f, g)
  <2>1. RustName(<<ns, f>>) = f
    BY <1>5, RustNameIs
  <2>2. FunctionToRustName(<<ns, f>>, f) = f
    BY <1>1, <1>2, <1>3, <1>5 DEF FunctionToRustName, Rust
  <2> QED BY <2>1, <2>2
<1> QED BY <1>4, <1>5

(* What is generated for a known name is the function of that name.        *)
LEMMA FunctionsAre ==
  \A ns, g, named, rt : Runs(ns, g, named, rt) \in Functions =>
    \E f : <<ns, f>> \in CoreNames \cup GatedNames /\ RustName(<<ns, f>>) = g
<1> TAKE ns, g, named, rt
<1> HAVE Runs(ns, g, named, rt) \in Functions
<1>1. PICK name \in CoreNames \cup GatedNames, b \in BOOLEAN :
        Runs(ns, g, named, rt) = Runs(name[1], RustName(name), b, name \in WithState)
  BY DEF Functions
<1>2. name[1] = ns /\ RustName(name) = g
  BY <1>1 DEF Runs
<1> QED BY <1>2, KnownAreDotted

LEMMA FunctionOf ==
  ASSUME NEW name \in CoreNames \cup GatedNames, NEW named \in BOOLEAN
  PROVE  Runs(name[1], RustName(name), named, name \in WithState) \in Functions
BY DEF Functions

(* A known call.                                                           *)
LEMMA KnownTranspiled ==
  ASSUME NEW name \in CoreNames \cup GatedNames \cup Methods, NEW named \in BOOLEAN
  PROVE  Transpiled([name |-> name, named |-> named]) = Interpreted([name |-> name, named |-> named])
<1> DEFINE called == {m \in Macros : MacroName(m) = MacroName(name)}
<1>1. name \in called
  BY KnownAreDotted, KnownAreMacros
<1>2. called = {name}
  BY <1>1, MacroNamesDiffer
<1>3. (CHOOSE m \in called : TRUE) = name
  BY <1>2
<1> QED BY <1>1, <1>3 DEF Transpiled

LEMMA KnownOxide ==
  ASSUME NEW name \in CoreNames \cup GatedNames \cup Methods, NEW named \in BOOLEAN
  PROVE  Oxide([name |-> name, named |-> named]) = Interpreted([name |-> name, named |-> named])
<1> DEFINE call == [name |-> name, named |-> named]
<1>1. name = <<name[1], name[2]>> /\ Dotted(name) /\ SplitName(name) = name
  BY KnownAreDotted DEF SplitName
<1>2. CASE name \in CoreNames \cup GatedNames
  <2>1. name[1] \notin MethodSpace /\ name[1] \in Modules
    BY <1>1, <1>2, Apart
  <2>2. FunctionToRustName(name, name[2]) = RustName(name)
    BY <1>1, <1>2, RustNamesAgree
  <2>3. NeedsState(name) = (name \in WithState)
    <3>1. NeedsState(name) <=> name \in WithState
      BY <1>1, <1>2, StateTablesAgree
    <3>2. NeedsState(name) \in BOOLEAN /\ (name \in WithState) \in BOOLEAN
      BY DEF NeedsState
    <3> QED BY <3>1, <3>2
  <2>4. Runs(name[1], RustName(name), named, name \in WithState) \in Functions
    BY <1>2, FunctionOf
  <2>5. Oxide(call) = Runs(name[1], RustName(name), named, name \in WithState)
    BY <1>1, <2>1, <2>2, <2>3, <2>4 DEF Oxide
  <2> QED BY <1>2, <2>5 DEF Interpreted
<1>3. CASE name \notin CoreNames \cup GatedNames
  <2>1. name \in Methods /\ name[1] \in MethodSpace
    BY <1>1, <1>3, Apart
  <2>2. Oxide(call) = Runs("type_methods", name, FALSE, FALSE)
    BY <1>1, <2>1 DEF Oxide
  <2> QED BY <1>3, <2>1, <2>2 DEF Interpreted
<1> QED BY <1>2, <1>3

(* A call the interpreter does not know.                                   *)
LEMMA UnknownTranspiled ==
  ASSUME NEW name, NEW named \in BOOLEAN, ~RunsWhenCompiled(name)
  PROVE  Transpiled([name |-> name, named |-> named]) \in {Unknown, NotCompiled}
<1> DEFINE called == {m \in Macros : MacroName(m) = MacroName(name)}
           m == CHOOSE m \in called : TRUE
<1>1. CASE called = {}
  BY <1>1 DEF Transpiled
<1>2. CASE called # {}
  <2>1. m \in called
    BY <1>2
  <2>2. m \notin CoreNames \cup GatedNames \cup Methods
    BY <2>1 DEF RunsWhenCompiled
  <2>3. Transpiled([name |-> name, named |-> named]) = Interpreted([name |-> m, named |-> named])
    BY <1>2 DEF Transpiled
  <2> HIDE DEF m
  <2> QED BY <2>2, <2>3 DEF Interpreted
<1> QED BY <1>1, <1>2

(* No function is called as the transpiler names one of another name.      *)
LEMMA NoOtherRustName ==
  ASSUME NEW ns, NEW f, NEW g, <<ns, f>> \notin CoreNames \cup GatedNames,
         <<ns, g>> \in CoreNames \cup GatedNames, FunctionToRustName(<<ns, f>>, f) = RustName(<<ns, g>>)
  PROVE  RunsWhenCompiled(<<ns, f>>)
<1>1. <<ns, f>>[1] = ns /\ <<ns, f>>[2] = f /\ Dotted(<<ns, f>>)
  BY DEF Dotted
<1>2. \A m, h : <<ns, f>> = <<m, h>> <=> ns = m /\ f = h
  OBVIOUS
<1>3. <<ns, f>> \notin {<<"sys", "print">>, <<"sys", "eprint">>, <<"sys", "exit">>, <<"notifications", "os">>,
                      <<"math", "mod">>, <<"fs", "move">>}
      /\ ~(ns \in {"json", "yaml", "hcl", "csv", "xml", "env"} /\ f = "parse")
  BY InIs DEF CoreNames, GatedNames
<1>4. g \notin {"modulo", "move_file", "is_match"}
  BY InIs DEF CoreNames, GatedNames
<1>5. CASE \E h : Rust(ns, g, h)
  <2>1. PICK h : Rust(ns, g, h)
    BY <1>5
  <2>2. RustName(<<ns, g>>) = h
    BY <2>1, RustNameIs
  <2>3. h = f
    BY <1>1, <1>2, <1>3, <2>1, <2>2 DEF FunctionToRustName, Rust
  <2>4. [name |-> <<ns, g>>, rust |-> f] \in Renamed
    BY <2>1, <2>3, RenamedAre
  <2> QED BY <1>1, <2>4 DEF RunsWhenCompiled
<1>6. CASE ~\E h : Rust(ns, g, h)
  <2>1. RustName(<<ns, g>>) = g
    BY <1>6, RustNameIs
  <2>2. f = g
    BY <1>1, <1>2, <1>3, <1>4, <1>6, <2>1 DEF FunctionToRustName, Rust
  <2> QED BY <2>2
<1> QED BY <1>5, <1>6

LEMMA UnknownOxide ==
  ASSUME NEW name \in CallNamed, NEW named \in BOOLEAN,
         name \notin CoreNames \cup GatedNames \cup Methods, ~RunsWhenCompiled(name)
  PROVE  Oxide([name |-> name, named |-> named]) \in {Unknown, NotCompiled}
<1> DEFINE call == [name |-> name, named |-> named]
<1>1. CASE Dotted(name)
  <2>1. name = <<name[1], name[2]>> /\ SplitName(name) = name
    BY <1>1 DEF SplitName, Dotted, CallNamed
  <2>2. CASE name[1] \in MethodSpace
    BY <2>1, <2>2 DEF Oxide
  <2>3. CASE name[1] \notin MethodSpace
    <3>1. Runs(name[1], FunctionToRustName(name, name[2]), named, NeedsState(name)) \notin Functions
      BY <2>1, FunctionsAre, NoOtherRustName
    <3> QED BY <2>1, <2>3, <3>1 DEF Oxide
  <2> QED BY <2>2, <2>3
<1>2. CASE ~Dotted(name)
  <2>1. SplitName(name) = <<"sys", name[1]>> /\ name = <<name[1]>>
    BY <1>2 DEF SplitName, Dotted, CallNamed
  <2>2. CASE name[1] \notin MethodSpace \cup Modules
    BY <2>2 DEF Oxide
  <2>3. CASE name[1] \in MethodSpace \cup Modules
    <3>1. Runs("sys", FunctionToRustName(name, name[1]), named, NeedsState(name)) \notin Functions
      <4>1. SUFFICES ASSUME NEW g, <<"sys", g>> \in CoreNames \cup GatedNames,
                            RustName(<<"sys", g>>) = FunctionToRustName(name, name[1])
                     PROVE  FALSE
        BY FunctionsAre
      <4>2. name[1] \in {"string", "number", "list", "map", "re", "sys", "os", "args", "math", "fs", "time", "json",
              "http", "net", "pex", "dns", "crypto", "yaml", "hcl", "csv", "xml", "env", "db", "amqp", "template",
              "llm", "notifications"}
        <5>1. \A m, h : <<m, h>> \in CoreNames \cup GatedNames =>
                m \in {"sys", "os", "args", "math", "fs", "time", "json",
              "http", "net", "pex", "dns", "crypto", "yaml", "hcl", "csv", "xml", "env", "db", "amqp", "template",
              "llm", "notifications"}
          BY InIs DEF CoreNames, GatedNames
        <5>2. \A m \in Modules : \E h : <<m, h>> \in CoreNames \cup GatedNames
          BY KnownAreDotted DEF Modules
        <5> QED BY <2>3, <5>1, <5>2 DEF MethodSpace
      <4>3. FunctionToRustName(name, name[1]) = name[1]
        <5>1. \A m, h : name # <<m, h>>
          BY <2>1
        <5> QED BY <4>2, <5>1 DEF FunctionToRustName
      <4>4. g \in {"echo", "printf", "print", "eprint", "read_line", "sleep", "panic", "exit",
             "exec", "read_all", "chroot", "nice", "sync", "stdin_isatty", "stdout_isatty"}
        BY <4>1, InIs DEF CoreNames, GatedNames
      <4>5. RustName(<<"sys", g>>) \in {g, "print_no_newline", "eprint_newline", "exit_process"}
        <5>1. CASE \E h : Rust("sys", g, h)
          BY <5>1, RustNameIs DEF Rust
        <5>2. CASE ~\E h : Rust("sys", g, h)
          BY <5>2, RustNameIs
        <5> QED BY <5>1, <5>2
      <4> QED BY <4>1, <4>2, <4>3, <4>4, <4>5
    <3>2. "sys" \notin MethodSpace
      BY DEF MethodSpace
    <3>3. SplitName(name)[1] = "sys" /\ SplitName(name)[2] = name[1]
      BY <2>1
    <3> QED BY <2>3, <3>1, <3>2, <3>3 DEF Oxide
  <2> QED BY <2>2, <2>3
<1> QED BY <1>1, <1>2

(* Every call, of a name that any table holds or of any other, runs the    *)
(* function the interpreter runs, however the script is run, and lint      *)
(* knows its name if and only if the interpreter does, but for the listed  *)
(* names.                                                                  *)
THEOREM CallsRunTheSame == WellAsked => SameFunction
<1> SUFFICES ASSUME WellAsked, Asks("function") PROVE Same(question) /\ KnowsName(question.name)
  BY DEF SameFunction
<1> DEFINE name  == question.name
           named == question.named
<1>1. question = [name |-> name, named |-> named] /\ name \in CallNamed /\ named \in BOOLEAN
  BY DEF WellAsked
<1> HIDE DEF name, named
<1>2. Interpreted([name |-> name, named |-> named]) # Unknown <=> name \in CoreNames \cup GatedNames \cup Methods
  BY <1>1, Interprets
<1>3. Same(question)
  <2>1. CASE name \in CoreNames \cup GatedNames \cup Methods
    BY <1>1, <2>1, KnownTranspiled, KnownOxide, <1>2 DEF Same
  <2>2. CASE name \notin CoreNames \cup GatedNames \cup Methods
    BY <1>1, <2>2, <1>2, UnknownTranspiled, UnknownOxide DEF Same
  <2> QED BY <2>1, <2>2
<1>4. KnowsName(name)
  BY LintKnowsNames
<1> QED BY <1>1, <1>3, <1>4
-----------------------------------------------------------------------------
(* Where a call or a statement that shares variables can stand, every step *)
(* on the way to it goes to a field that is no name, and lint goes there.  *)
LEMMA LintReaches ==
  ASSUME NEW program, IsProgram(program), NEW way \in DOMAIN program, program[way].n \in {"call"} \cup Sharers
  PROVE  way \in Reached(program, Lints)
<1>1. SUFFICES ASSUME NEW k \in DOMAIN way PROVE Lints(program[Above(way, k)], way[k])
  BY DEF Reached
<1> DEFINE t == program[Above(way, k)]
<1>2. /\ FieldCount(t) > 0 => way[k] <= FieldCount(t)
      /\ ~NamesOnly(t, way[k])
  BY DEF IsProgram
<1>3. way[k] \in Nat \ {0}
  BY DEF IsProgram
<1> HIDE DEF t
<1>4. Lints(t, way[k])
  BY <1>2, <1>3 DEF FieldCount, NamesOnly, Sharers, Lints
<1> QED BY <1>4 DEF t

(* What is emitted and lint reaches, the analysis walks.                   *)
LEMMA AnalysisReaches ==
  ASSUME NEW program, IsProgram(program), NEW way \in Reached(program, Emits),
         program[way].n \in {"call"} \cup Sharers
  PROVE  way \in Reached(program, Walks)
<1>1. way \in DOMAIN program /\ way \in Reached(program, Lints)
  BY LintReaches DEF Reached
<1>2. SUFFICES ASSUME NEW k \in DOMAIN way PROVE Walks(program[Above(way, k)], way[k])
  BY <1>1 DEF Reached
<1>3. Emits(program[Above(way, k)], way[k]) /\ Lints(program[Above(way, k)], way[k])
  BY <1>1 DEF Reached
<1> QED BY <1>3 DEF Emits, Lints, Walks

(* The gated namespaces have a feature each.                               *)
LEMMA GatedHaveFeatures == \A name \in GatedNames : name[1] \in FeatureNamespaces
<1>1. \A ns, f : <<ns, f>> \in GatedNames => ns \in FeatureNamespaces
  BY InIs DEF GatedNames, FeatureNamespaces
<1> QED BY <1>1, KnownAreDotted

(* Whatever statements and expressions a program nests in each other, the  *)
(* library an oxide program is built with has all that the program refers  *)
(* to; and lint reports all unknown functions, and nothing it need not,    *)
(* and warns of all statements that share variables.                       *)
THEOREM CallsAreCounted == WellAsked => NoCallMissed
<1> SUFFICES ASSUME NEW program, IsProgram(program) PROVE Suffices(program) /\ ReportsAll(program)
  BY DEF WellAsked, NoCallMissed
<1> DEFINE emitted == Reached(program, Emits)
           walked  == Reached(program, Walks)
           linted  == Reached(program, Lints)
<1>1. /\ emitted \subseteq DOMAIN program /\ linted \subseteq DOMAIN program
      /\ \A way \in emitted : program[way].n \in {"call"} \cup Sharers => way \in walked
      /\ \A way \in DOMAIN program : program[way].n \in {"call"} \cup Sharers => way \in linted
  BY LintReaches, AnalysisReaches DEF Reached
<1> HIDE DEF emitted, walked, linted
<1>2. Suffices(program)
  <2> DEFINE features == RequiredFeatures(program)
  <2>1. \A name \in Called(program, emitted) \cap GatedNames : name[1] \in features
    <3> TAKE name \in Called(program, emitted) \cap GatedNames
    <3>1. name \in Called(program, walked)
      BY <1>1 DEF Called
    <3>2. name[1] \in FeatureNamespaces
      BY GatedHaveFeatures
    <3> QED BY <3>1, <3>2 DEF RequiredFeatures, walked
  <2>2. "amqp_consume" \in NodeKinds(program, emitted) => "amqp" \in features
    <3>1. "amqp_consume" \in NodeKinds(program, emitted) => "amqp_consume" \in NodeKinds(program, walked)
      BY <1>1 DEF NodeKinds, Sharers
    <3> QED BY <3>1 DEF RequiredFeatures, walked
  <2>3. "http_listen" \in NodeKinds(program, emitted) => "http" \in features
    <3>1. "http_listen" \in NodeKinds(program, emitted) => "http_listen" \in NodeKinds(program, walked)
      BY <1>1 DEF NodeKinds, Sharers
    <3> QED BY <3>1 DEF RequiredFeatures, walked
  <2> HIDE DEF features
  <2> QED BY <2>1, <2>2, <2>3 DEF Suffices, emitted, features
<1>3. ReportsAll(program)
  <2>1. Called(program, linted) = Called(program, DOMAIN program)
    BY <1>1 DEF Called
  <2>2. Sharing(program, linted) = Sharing(program, DOMAIN program)
    BY <1>1 DEF Sharing
  <2>3. \A name \in Called(program, DOMAIN program) \ Promised :
          name \in Called(program, linted) \ KnownFunctions
            <=> ~(Interpreted([name |-> name, named |-> FALSE]) # Unknown)
    BY <2>1, LintKnowsNames DEF KnowsName
  <2>4. LintProgram(program) = [errors |-> Called(program, linted) \ KnownFunctions, warnings |-> Sharing(program, linted)]
    BY DEF LintProgram, linted
  <2> QED BY <2>2, <2>3, <2>4 DEF ReportsAll
<1> QED BY <1>2, <1>3
-----------------------------------------------------------------------------
(* args.parse.  What has nought and, below a bound, the next of what it    *)
(* has, has all numbers up to the bound.                                   *)
LEMMA UpTo ==
  ASSUME NEW N \in Nat, NEW S, 0 \in S, \A n \in 0 .. N - 1 : n \in S => n + 1 \in S
  PROVE  0 .. N \subseteq S
<1> SUFFICES ASSUME (0 .. N) \ S # {} PROVE FALSE
  OBVIOUS
<1> DEFINE Out == (0 .. N) \ S
<1>0. Out \subseteq Nat /\ Out # {}
  OBVIOUS
<1> HIDE DEF Out
<1>1. PICK x \in Out : \A y \in Out : x <= y
  BY <1>0, LeastIs
<1> USE DEF Out
<1>2. x # 0 /\ x \in 1 .. N
  BY <1>1
<1>3. x - 1 \in 0 .. N - 1 /\ x - 1 \in 0 .. N /\ x - 1 + 1 = x /\ ~(x <= x - 1)
  BY <1>2
<1>4. x - 1 \in S
  BY <1>1, <1>3
<1>5. x \in S
  BY <1>3, <1>4
<1> QED BY <1>1, <1>5

(* The provers do not know that a string is one: the characters of lines.  *)
Char == STRING \cup {Dash, "=", "+", "@"}
Line == Seq(Char)

LEMMA Chars1 ==
  /\ Dash \in Char /\ "=" \in Char /\ "+" \in Char /\ "@" \in Char
  /\ \A c \in Char : <<c>> \in Line
  /\ \A w \in Line : w \in Seq(Char) /\ Len(w) \in Nat /\ DOMAIN w = 1 .. Len(w)
                      /\ \A i \in 1 .. Len(w) : w[i] \in Char
  /\ Word \subseteq Line
<1>1. Dash \in Char /\ "=" \in Char /\ "+" \in Char /\ "@" \in Char
  BY DEF Char
<1>2. \A w \in Word : w \in Line
  <2>1. STRING \subseteq Char
    BY DEF Char
  <2> QED BY <2>1, SeqMonotonic DEF Word, Line
<1>3. \A S : \A c \in S : <<c>> \in Seq(S)
  OBVIOUS
<1>4. \A S : \A w \in Seq(S) : Len(w) \in Nat /\ DOMAIN w = 1 .. Len(w) /\ \A i \in 1 .. Len(w) : w[i] \in S
  OBVIOUS
<1> QED BY <1>1, <1>2, <1>3, <1>4 DEF Line

(* Two texts joined.                                                       *)
LEMMA Joined ==
  ASSUME NEW u \in Line, NEW v \in Line
  PROVE  /\ u \o v \in Line /\ Len(u \o v) = Len(u) + Len(v)
         /\ \A i \in 1 .. Len(u) + Len(v) : (u \o v)[i] = IF i <= Len(u) THEN u[i] ELSE v[i - Len(u)]
  BY ConcatProperties DEF Line

LEMMA Grouped == \A x, y, z \in Line : (x \o y) \o z = x \o (y \o z)
  BY ConcatAssociative DEF Line

(* The words behind a place, and a text cut where two were joined.         *)
LEMMA BehindIs ==
  ASSUME NEW S, NEW s \in Seq(S), NEW n \in 0 .. Len(s)
  PROVE  /\ Behind(s, n) \in Seq(S) /\ Len(Behind(s, n)) = Len(s) - n
         /\ \A i \in 1 .. Len(s) - n : Behind(s, n)[i] = s[n + i]
<1>1. n + 1 \in Int /\ Len(s) \in Int /\ \A i \in n + 1 .. Len(s) : s[i] \in S
  OBVIOUS
<1>2. /\ SubSeq(s, n + 1, Len(s)) \in Seq(S)
      /\ Len(SubSeq(s, n + 1, Len(s))) = IF n + 1 <= Len(s) THEN Len(s) - (n + 1) + 1 ELSE 0
      /\ \A i \in 1 .. Len(s) - (n + 1) + 1 : SubSeq(s, n + 1, Len(s))[i] = s[n + 1 + i - 1]
  BY <1>1, SubSeqProperties
<1>3. /\ Len(s) - (n + 1) + 1 = Len(s) - n /\ (~(n + 1 <= Len(s)) => Len(s) - n = 0)
      /\ \A i \in 1 .. Len(s) - n : n + 1 + i - 1 = n + i
  OBVIOUS
<1> QED BY <1>2, <1>3 DEF Behind

LEMMA Cut ==
  ASSUME NEW S, NEW u \in Seq(S), NEW v \in Seq(S)
  PROVE  SubSeq(u \o v, 1, Len(u)) = u /\ Behind(u \o v, Len(u)) = v
<1>1. /\ u \o v \in Seq(S) /\ Len(u \o v) = Len(u) + Len(v) /\ Len(u) \in Nat /\ Len(v) \in Nat
      /\ \A i \in 1 .. Len(u) + Len(v) : (u \o v)[i] = IF i <= Len(u) THEN u[i] ELSE v[i - Len(u)]
  BY ConcatProperties
<1>2. SubSeq(u \o v, 1, Len(u)) = u
  <2>1. \A i \in 1 .. Len(u) : (u \o v)[i] \in S
    BY <1>1
  <2>2. /\ SubSeq(u \o v, 1, Len(u)) \in Seq(S)
        /\ Len(SubSeq(u \o v, 1, Len(u))) = IF 1 <= Len(u) THEN Len(u) - 1 + 1 ELSE 0
        /\ \A i \in 1 .. Len(u) - 1 + 1 : SubSeq(u \o v, 1, Len(u))[i] = (u \o v)[1 + i - 1]
    BY <1>1, <2>1, SubSeqProperties
  <2>3. Len(u) - 1 + 1 = Len(u) /\ \A i \in 1 .. Len(u) : 1 + i - 1 = i /\ (u \o v)[i] = u[i]
    BY <1>1
  <2>4. /\ Len(SubSeq(u \o v, 1, Len(u))) = Len(u)
        /\ \A i \in 1 .. Len(SubSeq(u \o v, 1, Len(u))) : SubSeq(u \o v, 1, Len(u))[i] = u[i]
    BY <1>1, <2>2, <2>3
  <2> QED BY <2>2, <2>4, SeqEqual
<1>3. Behind(u \o v, Len(u)) = v
  <2> DEFINE b == Behind(u \o v, Len(u))
  <2>1. /\ b \in Seq(S) /\ Len(b) = Len(u \o v) - Len(u)
        /\ \A i \in 1 .. Len(u \o v) - Len(u) : b[i] = (u \o v)[Len(u) + i]
    <3>1. Len(u) \in 0 .. Len(u \o v)
      BY <1>1
    <3> QED BY <1>1, <3>1, BehindIs
  <2>2. \A i \in 1 .. Len(v) : (u \o v)[Len(u) + i] = v[i]
    <3>1. \A i \in 1 .. Len(v) : /\ Len(u) + i \in 1 .. Len(u) + Len(v) /\ ~(Len(u) + i <= Len(u))
                                 /\ Len(u) + i - Len(u) = i
      BY <1>1
    <3> QED BY <1>1, <3>1
  <2>3. Len(b) = Len(v) /\ \A i \in 1 .. Len(b) : b[i] = v[i]
    BY <1>1, <2>1, <2>2
  <2> HIDE DEF b
  <2>4. b = v
    BY <2>1, <2>3, SeqEqual
  <2> QED BY <2>4 DEF b
<1> QED BY <1>2, <1>3

(* A character in front of a text, and two.                                *)
LEMMA Fronted ==
  ASSUME NEW S, NEW c \in S, NEW s \in Seq(S)
  PROVE  /\ <<c>> \o s \in Seq(S) /\ Len(<<c>> \o s) = Len(s) + 1 /\ Tail(<<c>> \o s) = s
         /\ (<<c>> \o s)[1] = c /\ \A i \in 1 .. Len(s) : (<<c>> \o s)[i + 1] = s[i]
<1>1. <<c>> \in Seq(S) /\ Len(<<c>>) = 1 /\ <<c>>[1] = c
  OBVIOUS
<1>2. /\ <<c>> \o s \in Seq(S) /\ Len(<<c>> \o s) = 1 + Len(s) /\ Len(s) \in Nat
      /\ \A i \in 1 .. 1 + Len(s) : (<<c>> \o s)[i] = IF i <= 1 THEN <<c>>[i] ELSE s[i - 1]
  BY <1>1, ConcatProperties
<1>3. \A i \in 1 .. Len(s) : i + 1 \in 1 .. 1 + Len(s) /\ ~(i + 1 <= 1) /\ i + 1 - 1 = i
  BY <1>2
<1>4. 1 \in 1 .. 1 + Len(s)
  BY <1>2
<1>5. (<<c>> \o s)[1] = c /\ \A i \in 1 .. Len(s) : (<<c>> \o s)[i + 1] = s[i]
  BY <1>1, <1>2, <1>3, <1>4
<1>6. Tail(<<c>> \o s) = s
  <2> DEFINE t == <<c>> \o s
  <2>1. t \in Seq(S) /\ t # <<>> /\ Len(t) = Len(s) + 1
    BY <1>2
  <2>2. \A i \in 1 .. Len(s) : t[i + 1] = s[i]
    BY <1>5
  <2> HIDE DEF t
  <2>3. Tail(t) \in Seq(S) /\ Len(Tail(t)) = Len(t) - 1 /\ \A i \in 1 .. Len(Tail(t)) : Tail(t)[i] = t[i + 1]
    BY <2>1, HeadTailProperties
  <2>4. Len(Tail(t)) = Len(s) /\ \A i \in 1 .. Len(Tail(t)) : Tail(t)[i] = s[i]
    BY <1>2, <2>1, <2>2, <2>3
  <2>5. Tail(t) = s
    BY <2>3, <2>4, SeqEqual
  <2> QED BY <2>5 DEF t
<1> QED BY <1>2, <1>5, <1>6

LEMMA FrontedTwice ==
  ASSUME NEW S, NEW c \in S, NEW d \in S, NEW s \in Seq(S)
  PROVE  /\ <<c, d>> \o s \in Seq(S) /\ Len(<<c, d>> \o s) = Len(s) + 2 /\ Behind(<<c, d>> \o s, 2) = s
         /\ (<<c, d>> \o s)[1] = c /\ (<<c, d>> \o s)[2] = d
<1>1. <<c, d>> \in Seq(S) /\ Len(<<c, d>>) = 2 /\ <<c, d>>[1] = c /\ <<c, d>>[2] = d
  OBVIOUS
<1>2. /\ <<c, d>> \o s \in Seq(S) /\ Len(<<c, d>> \o s) = 2 + Len(s) /\ Len(s) \in Nat
      /\ \A i \in 1 .. 2 + Len(s) : (<<c, d>> \o s)[i] = IF i <= 2 THEN <<c, d>>[i] ELSE s[i - 2]
  BY <1>1, ConcatProperties
<1>3. 1 \in 1 .. 2 + Len(s) /\ 2 \in 1 .. 2 + Len(s)
  BY <1>2
<1>4. (<<c, d>> \o s)[1] = c /\ (<<c, d>> \o s)[2] = d
  BY <1>1, <1>2, <1>3
<1>5. Behind(<<c, d>> \o s, 2) = s
  BY <1>1, Cut
<1> QED BY <1>2, <1>4, <1>5

LEMMA SubSeqShort ==
  ASSUME NEW S, NEW w \in Seq(S)
  PROVE  /\ Len(w) >= 1 => SubSeq(w, 1, 1) = <<w[1]>>
         /\ Len(w) >= 2 => SubSeq(w, 1, 2) = <<w[1], w[2]>>
<1>1. Len(w) \in Nat
  OBVIOUS
<1>2. ASSUME Len(w) >= 1 PROVE SubSeq(w, 1, 1) = <<w[1]>>
  <2>1. 1 \in Int /\ \A i \in 1 .. 1 : w[i] \in S
    BY <1>1, <1>2
  <2>2. /\ SubSeq(w, 1, 1) \in Seq(S) /\ Len(SubSeq(w, 1, 1)) = IF 1 <= 1 THEN 1 - 1 + 1 ELSE 0
        /\ \A i \in 1 .. 1 - 1 + 1 : SubSeq(w, 1, 1)[i] = w[1 + i - 1]
    BY <2>1, SubSeqProperties
  <2>3. <<w[1]>> \in Seq(S) /\ Len(<<w[1]>>) = 1 /\ <<w[1]>>[1] = w[1]
    BY <2>1
  <2>4. Len(SubSeq(w, 1, 1)) = 1 /\ SubSeq(w, 1, 1)[1] = w[1]
    BY <2>2
  <2> DEFINE u == SubSeq(w, 1, 1)
             v == <<w[1]>>
  <2>5. /\ u \in Seq(S) /\ v \in Seq(S) /\ Len(u) = Len(v)
        /\ \A i \in 1 .. Len(u) : i = 1
        /\ u[1] = v[1]
    BY <2>2, <2>3, <2>4
  <2> HIDE DEF u, v
  <2>6. u = v
    BY <2>5, SeqEqual
  <2> QED BY <2>6 DEF u, v
<1>3. ASSUME Len(w) >= 2 PROVE SubSeq(w, 1, 2) = <<w[1], w[2]>>
  <2>1. 1 \in Int /\ 2 \in Int /\ \A i \in 1 .. 2 : w[i] \in S
    BY <1>1, <1>3
  <2>2. /\ SubSeq(w, 1, 2) \in Seq(S) /\ Len(SubSeq(w, 1, 2)) = IF 1 <= 2 THEN 2 - 1 + 1 ELSE 0
        /\ \A i \in 1 .. 2 - 1 + 1 : SubSeq(w, 1, 2)[i] = w[1 + i - 1]
    BY <2>1, SubSeqProperties
  <2>3. /\ <<w[1], w[2]>> \in Seq(S) /\ Len(<<w[1], w[2]>>) = 2
        /\ <<w[1], w[2]>>[1] = w[1] /\ <<w[1], w[2]>>[2] = w[2]
    BY <2>1
  <2>4. Len(SubSeq(w, 1, 2)) = 2 /\ SubSeq(w, 1, 2)[1] = w[1] /\ SubSeq(w, 1, 2)[2] = w[2]
    BY <2>2
  <2> DEFINE u == SubSeq(w, 1, 2)
             v == <<w[1], w[2]>>
  <2>5. /\ u \in Seq(S) /\ v \in Seq(S) /\ Len(u) = Len(v)
        /\ \A i \in 1 .. Len(u) : i = 1 \/ i = 2
        /\ u[1] = v[1] /\ u[2] = v[2]
    BY <2>2, <2>3, <2>4
  <2> HIDE DEF u, v
  <2>6. u = v
    BY <2>5, SeqEqual
  <2> QED BY <2>6 DEF u, v
<1> QED BY <1>2, <1>3

LEMMA OneOnly ==
  ASSUME NEW S, NEW w \in Seq(S), Len(w) = 1
  PROVE  w = <<w[1]>>
<1> DEFINE v == <<w[1]>>
<1>1. w[1] \in S
  OBVIOUS
<1>2. v \in Seq(S) /\ Len(v) = 1 /\ v[1] = w[1]
  BY <1>1
<1> HIDE DEF v
<1>3. \A j \in 1 .. Len(w) : w[j] = v[j]
  BY <1>2
<1>4. w = v
  BY <1>2, <1>3, SeqEqual
<1> QED BY <1>4 DEF v

(* What a word begins with.                                                *)
LEMMA BeginsWith ==
  ASSUME NEW w \in Line
  PROVE  /\ \A c : Begins(w, <<c>>) <=> Len(w) >= 1 /\ w[1] = c
         /\ \A c, d : Begins(w, <<c, d>>) <=> Len(w) >= 2 /\ w[1] = c /\ w[2] = d
<1>1. w \in Seq(Char) /\ Len(w) \in Nat
  BY Chars1
<1>2. ASSUME NEW c PROVE Begins(w, <<c>>) <=> Len(w) >= 1 /\ w[1] = c
  <2>1. Len(<<c>>) = 1 /\ <<c>>[1] = c
    OBVIOUS
  <2>2. ASSUME Len(w) >= 1 PROVE SubSeq(w, 1, 1) = <<w[1]>>
    BY <1>1, <2>2, SubSeqShort
  <2>3. <<w[1]>> = <<c>> <=> w[1] = c
    OBVIOUS
  <2> QED BY <1>1, <2>1, <2>2, <2>3 DEF Begins
<1>3. ASSUME NEW c, NEW d PROVE Begins(w, <<c, d>>) <=> Len(w) >= 2 /\ w[1] = c /\ w[2] = d
  <2>1. Len(<<c, d>>) = 2
    OBVIOUS
  <2>2. ASSUME Len(w) >= 2 PROVE SubSeq(w, 1, 2) = <<w[1], w[2]>>
    BY <1>1, <2>2, SubSeqShort
  <2>3. <<w[1], w[2]>> = <<c, d>> <=> w[1] = c /\ w[2] = d
    OBVIOUS
  <2> QED BY <1>1, <2>1, <2>2, <2>3 DEF Begins
<1> QED BY <1>2, <1>3

(* What a word is taken for, as far as positional words leave the choice.  *)
LEMMA Classes ==
  ASSUME NEW cfg, Configured(cfg), NEW r, ~cfg.permute => r.pos = <<>>, NEW w \in Line
  PROVE  /\ Len(w) >= 2 /\ w[1] = Dash /\ w[2] # Dash => Class(cfg, r, w) = "short"
         /\ Len(w) >= 3 /\ w[1] = Dash /\ w[2] = Dash => Class(cfg, r, w) = "long"
         /\ cfg.plus_flags /\ Len(w) >= 2 /\ w[1] = "+" => Class(cfg, r, w) = "plus"
         /\ cfg.at_tokens /\ Len(w) >= 1 /\ w[1] = "@" => Class(cfg, r, w) = "at"
         /\ Plain(cfg, w) /\ cfg.permute => Class(cfg, r, w) = "positional"
         /\ Plain(cfg, w) /\ ~cfg.permute /\ w # <<Dash>> => Class(cfg, r, w) = "operands"
         /\ w = <<Dash, Dash>> => Class(cfg, r, w) = "end"
<1>1. /\ \A c : Begins(w, <<c>>) <=> Len(w) >= 1 /\ w[1] = c
      /\ \A c, d : Begins(w, <<c, d>>) <=> Len(w) >= 2 /\ w[1] = c /\ w[2] = d
  BY BeginsWith
<1>2. Len(w) \in Nat /\ cfg.permute \in BOOLEAN /\ cfg.plus_flags \in BOOLEAN /\ cfg.at_tokens \in BOOLEAN
  BY Chars1 DEF Configured
<1>3. /\ w = <<Dash>> => Len(w) = 1 /\ w[1] = Dash
      /\ w = <<Dash, Dash>> => Len(w) = 2 /\ w[1] = Dash /\ w[2] = Dash
  OBVIOUS
<1>4. Dash # "@" /\ Dash # "+" /\ "@" # "+"
  BY DEF Dash
<1>5. ~(~cfg.permute /\ r.pos # <<>>)
  OBVIOUS
<1>b. /\ Begins(w, <<Dash>>) <=> Len(w) >= 1 /\ w[1] = Dash
      /\ Begins(w, <<"@">>) <=> Len(w) >= 1 /\ w[1] = "@"
      /\ Begins(w, <<"+">>) <=> Len(w) >= 1 /\ w[1] = "+"
      /\ Begins(w, <<Dash, Dash>>) <=> Len(w) >= 2 /\ w[1] = Dash /\ w[2] = Dash
  BY <1>1
<1> DEFINE one  == Begins(w, <<Dash>>)
           two  == Begins(w, <<Dash, Dash>>)
           at   == Begins(w, <<"@">>)
           plus == Begins(w, <<"+">>)
<1>c. Class(cfg, r, w) =
        IF w = <<Dash, Dash>> THEN "end" ELSE IF w = <<Dash>> THEN "positional"
        ELSE IF cfg.at_tokens /\ at THEN "at" ELSE IF cfg.plus_flags /\ plus /\ Len(w) > 1 THEN "plus"
        ELSE IF two THEN "long" ELSE IF one THEN "short" ELSE IF cfg.permute THEN "positional" ELSE "operands"
  BY <1>5 DEF Class
<1>d. Plain(cfg, w) <=> /\ ~one \/ w = <<Dash>>
                        /\ ~(cfg.at_tokens /\ at) /\ ~(cfg.plus_flags /\ plus /\ Len(w) > 1)
  BY DEF Plain
<1>e. /\ one <=> Len(w) >= 1 /\ w[1] = Dash
      /\ at <=> Len(w) >= 1 /\ w[1] = "@"
      /\ plus <=> Len(w) >= 1 /\ w[1] = "+"
      /\ two <=> Len(w) >= 2 /\ w[1] = Dash /\ w[2] = Dash
  BY <1>b
<1> HIDE DEF one, two, at, plus
<1>6. Len(w) >= 2 /\ w[1] = Dash /\ w[2] # Dash => Class(cfg, r, w) = "short"
  BY <1>2, <1>3, <1>4, <1>c, <1>e
<1>7. ASSUME Len(w) >= 3, w[1] = Dash, w[2] = Dash PROVE Class(cfg, r, w) = "long"
  <2>1. w # <<Dash, Dash>> /\ w # <<Dash>>
    BY <1>2, <1>3, <1>7
  <2>2. ~at /\ ~plus
    BY <1>4, <1>7, <1>e
  <2>3. two
    BY <1>2, <1>7, <1>e
  <2> QED BY <1>c, <2>1, <2>2, <2>3
<1>8. ASSUME cfg.plus_flags, Len(w) >= 2, w[1] = "+" PROVE Class(cfg, r, w) = "plus"
  <2>1. w # <<Dash, Dash>> /\ w # <<Dash>> /\ ~at /\ plus /\ Len(w) > 1
    BY <1>2, <1>3, <1>4, <1>8, <1>e
  <2> QED BY <1>8, <1>c, <2>1
<1>9. cfg.at_tokens /\ Len(w) >= 1 /\ w[1] = "@" => Class(cfg, r, w) = "at"
  BY <1>2, <1>3, <1>4, <1>c, <1>e
<1>10. /\ Plain(cfg, w) /\ cfg.permute => Class(cfg, r, w) = "positional"
       /\ Plain(cfg, w) /\ ~cfg.permute /\ w # <<Dash>> => Class(cfg, r, w) = "operands"
  BY <1>2, <1>3, <1>4, <1>c, <1>d, <1>e
<1>11. w = <<Dash, Dash>> => Class(cfg, r, w) = "end"
  BY <1>c
<1> QED BY <1>6, <1>7, <1>8, <1>9, <1>10, <1>11

(* A name without the sign = that is given a value is cut at that sign.    *)
LEMMA SignAt ==
  ASSUME NEW name \in Line, NEW v \in Line, ~Has(name, "=")
  PROVE  LET body == name \o <<"=">> \o v
         IN  /\ Has(body, "=") /\ EqualsAt(body) = Len(name) + 1
             /\ SubSeq(body, 1, EqualsAt(body) - 1) = name /\ Behind(body, EqualsAt(body)) = v
<1> DEFINE body == name \o <<"=">> \o v
           head == name \o <<"=">>
           k    == Len(name) + 1
<1>1. /\ head \in Line /\ Len(head) = k /\ Len(name) \in Nat
      /\ \A i \in 1 .. k : head[i] = IF i <= Len(name) THEN name[i] ELSE <<"=">>[i - Len(name)]
  <2>1. <<"=">> \in Line /\ Len(<<"=">>) = 1 /\ Len(name) \in Nat
    BY Chars1
  <2> QED BY <2>1, Joined
<1>2. Len(v) \in Nat
  BY Chars1
<1>3. /\ body \in Line /\ Len(body) = k + Len(v)
      /\ \A i \in 1 .. k + Len(v) : body[i] = IF i <= k THEN head[i] ELSE v[i - k]
  BY <1>1, Joined
<1>4. body[k] = "=" /\ \A i \in 1 .. Len(name) : body[i] = name[i]
  <2>1. k \in 1 .. k /\ k \in 1 .. k + Len(v) /\ ~(k <= Len(name)) /\ k - Len(name) = 1 /\ <<"=">>[1] = "="
    BY <1>1, <1>2
  <2>2. \A i \in 1 .. Len(name) : i \in 1 .. k /\ i \in 1 .. k + Len(v) /\ i <= k /\ i <= Len(name)
    BY <1>1, <1>2
  <2> HIDE DEF head, body
  <2> QED BY <1>1, <1>3, <2>1, <2>2
<1>5. DOMAIN body = 1 .. k + Len(v) /\ DOMAIN name = 1 .. Len(name)
  BY <1>3, Chars1
<1>6. \A i \in 1 .. Len(name) : body[i] # "="
  BY <1>4, <1>5 DEF Has
<1>7. Has(body, "=") /\ EqualsAt(body) = k
  <2> HIDE DEF body
  <2>1. k \in DOMAIN body /\ body[k] = "=" /\ \A j \in 1 .. k - 1 : body[j] # "="
    BY <1>1, <1>2, <1>4, <1>5, <1>6
  <2>2. ASSUME NEW i \in DOMAIN body, body[i] = "=", \A j \in 1 .. i - 1 : body[j] # "=" PROVE i = k
    <3>1. i \in Int /\ i >= 1 /\ k \in Int /\ k >= 1
      BY <1>1, <1>2, <1>5, <2>2
    <3>2. ~(i \in 1 .. Len(name)) /\ ~(k \in 1 .. i - 1)
      BY <1>4, <1>6, <2>2
    <3> QED BY <1>1, <3>1, <3>2
  <2> QED BY <2>1, <2>2 DEF Has, EqualsAt
<1>8. SubSeq(body, 1, k - 1) = name
  <2>1. name \in Seq(Char) /\ v \in Seq(Char) /\ <<"=">> \in Seq(Char) /\ "=" \in Char
    BY Chars1 DEF Line
  <2>2. body = name \o (<<"=">> \o v) /\ <<"=">> \o v \in Seq(Char)
    BY <2>1, ConcatAssociative, Fronted
  <2>3. SubSeq(name \o (<<"=">> \o v), 1, Len(name)) = name
    BY <2>1, <2>2, Cut
  <2>4. k - 1 = Len(name)
    BY <1>1
  <2> QED BY <2>2, <2>3, <2>4
<1>9. Behind(body, k) = v
  BY <1>1, Cut DEF Line
<1> QED BY <1>7, <1>8, <1>9

(* Arguments and the words they are spelled with.                          *)
LEMMA ArgumentIs ==
  ASSUME NEW a \in Argument
  PROVE  /\ a.k \in {"flags", "short", "long", "plus", "value", "at", "pos"}
         /\ a.k \in {"flags", "short"} => a.letters \in Line
         /\ a.k \in {"short", "long", "plus", "value"} => a.name \in Line
         /\ a.k \in {"short", "value"} => a.glued \in BOOLEAN
         /\ a.k \in {"short", "value", "at", "pos"} => a.v \in Line
<1>1. /\ a.k \in {"flags", "short", "long", "plus", "value", "at", "pos"}
      /\ a.k \in {"flags", "short"} => a.letters \in Word
      /\ a.k \in {"short", "long", "plus", "value"} => a.name \in Word
      /\ a.k \in {"short", "value"} => a.glued \in BOOLEAN
      /\ a.k \in {"short", "value", "at", "pos"} => a.v \in Word
  BY DEF Argument
<1> QED BY <1>1, Chars1

LEMMA SpelledIs ==
  ASSUME NEW a \in Argument
  PROVE  Spelled(a) \in Seq(Line) /\ Len(Spelled(a)) \in {1, 2}
<1>1. <<Dash>> \in Line /\ <<"+">> \in Line /\ <<"@">> \in Line /\ <<"=">> \in Line
  BY Chars1
<1>2. <<Dash, Dash>> \in Line
  <2>1. Dash \in Char
    BY Chars1
  <2>2. \A S : \A c \in S : <<c, c>> \in Seq(S)
    OBVIOUS
  <2> QED BY <2>1, <2>2 DEF Line
<1>3. \A u, v \in Line : u \o v \in Line
  BY Joined
<1>4. /\ \A w \in Line : <<w>> \in Seq(Line) /\ Len(<<w>>) = 1
      /\ \A w, v \in Line : <<w, v>> \in Seq(Line) /\ Len(<<w, v>>) = 2
  <2>1. \A S : /\ \A w \in S : <<w>> \in Seq(S) /\ Len(<<w>>) = 1
               /\ \A w, v \in S : <<w, v>> \in Seq(S) /\ Len(<<w, v>>) = 2
    OBVIOUS
  <2> QED BY <2>1
<1>5. /\ a.k \in {"flags", "short", "long", "plus", "value", "at", "pos"}
      /\ a.k \in {"flags", "short"} => a.letters \in Line
      /\ a.k \in {"short", "long", "plus", "value"} => a.name \in Line
      /\ a.k \in {"short", "value"} => a.glued \in BOOLEAN
      /\ a.k \in {"short", "value", "at", "pos"} => a.v \in Line
  BY ArgumentIs
<1>6. CASE a.k = "flags"
  <2>1. Spelled(a) = <<<<Dash>> \o a.letters>> /\ <<Dash>> \o a.letters \in Line
    BY <1>1, <1>3, <1>5, <1>6 DEF Spelled
  <2> QED BY <1>4, <2>1
<1>7. CASE a.k = "short" /\ a.glued
  <2>1. Spelled(a) = <<<<Dash>> \o a.letters \o a.name \o a.v>> /\ <<Dash>> \o a.letters \o a.name \o a.v \in Line
    BY <1>1, <1>3, <1>5, <1>7 DEF Spelled
  <2> QED BY <1>4, <2>1
<1>8. CASE a.k = "short" /\ ~a.glued
  <2>1. Spelled(a) = <<<<Dash>> \o a.letters \o a.name, a.v>> /\ <<Dash>> \o a.letters \o a.name \in Line
    BY <1>1, <1>3, <1>5, <1>8 DEF Spelled
  <2> QED BY <1>4, <1>5, <1>8, <2>1
<1>9. CASE a.k = "long"
  <2>1. Spelled(a) = <<<<Dash, Dash>> \o a.name>> /\ <<Dash, Dash>> \o a.name \in Line
    BY <1>2, <1>3, <1>5, <1>9 DEF Spelled
  <2> QED BY <1>4, <2>1
<1>10. CASE a.k = "value" /\ a.glued
  <2>1. /\ Spelled(a) = <<<<Dash, Dash>> \o a.name \o <<"=">> \o a.v>>
        /\ <<Dash, Dash>> \o a.name \o <<"=">> \o a.v \in Line
    BY <1>1, <1>2, <1>3, <1>5, <1>10 DEF Spelled
  <2> QED BY <1>4, <2>1
<1>11. CASE a.k = "value" /\ ~a.glued
  <2>1. Spelled(a) = <<<<Dash, Dash>> \o a.name, a.v>> /\ <<Dash, Dash>> \o a.name \in Line
    BY <1>2, <1>3, <1>5, <1>11 DEF Spelled
  <2> QED BY <1>4, <1>5, <1>11, <2>1
<1>12. CASE a.k = "plus"
  <2>1. Spelled(a) = <<<<"+">> \o a.name>> /\ <<"+">> \o a.name \in Line
    BY <1>1, <1>3, <1>5, <1>12 DEF Spelled
  <2> QED BY <1>4, <2>1
<1>13. CASE a.k = "at"
  <2>1. Spelled(a) = <<<<"@">> \o a.v>> /\ <<"@">> \o a.v \in Line
    BY <1>1, <1>3, <1>5, <1>13 DEF Spelled
  <2> QED BY <1>4, <2>1
<1>14. CASE a.k = "pos"
  <2>1. Spelled(a) = <<a.v>> /\ a.v \in Line
    BY <1>5, <1>14 DEF Spelled
  <2> QED BY <1>4, <2>1
<1> QED BY <1>5, <1>6, <1>7, <1>8, <1>9, <1>10, <1>11, <1>12, <1>13, <1>14

(* The letters of a cluster, the one that takes a value, and the value.    *)
Ending(letters, c, v) == letters \o (<<c>> \o v)

(* A letter that takes a value ends a cluster.                             *)
LEMMA ClusterValue ==
  ASSUME NEW cfg, NEW letters \in Line, NoValues(cfg, letters),
         NEW c \in cfg.short_values, c \in Char, NEW v \in Line, NEW all, all = Ending(letters, c, v)
  PROVE  /\ Taking(cfg, all) # {} /\ FirstTaking(cfg, all) = Len(letters) + 1
         /\ SubSeq(all, 1, FirstTaking(cfg, all) - 1) = letters /\ Behind(all, FirstTaking(cfg, all)) = v
         /\ all[FirstTaking(cfg, all)] = c
<1> DEFINE tail == <<c>> \o v
           word == letters \o tail
           n    == Len(letters) + 1
<1>1. tail \in Line /\ Len(tail) = Len(v) + 1 /\ tail[1] = c /\ Len(v) \in Nat /\ Len(letters) \in Nat
  BY Fronted, Chars1 DEF Line
<1> HIDE DEF tail
<1>2. /\ word \in Line /\ Len(word) = Len(letters) + Len(tail) /\ DOMAIN word = 1 .. Len(word)
      /\ \A i \in 1 .. Len(letters) + Len(tail) : word[i] = IF i <= Len(letters) THEN letters[i] ELSE tail[i - Len(letters)]
  BY <1>1, Joined, Chars1
<1>3. n \in DOMAIN word /\ word[n] = c /\ n \in Nat
  <2>1. n \in 1 .. Len(letters) + Len(tail) /\ ~(n <= Len(letters)) /\ n - Len(letters) = 1
    BY <1>1
  <2> HIDE DEF word, n
  <2> QED BY <1>1, <1>2, <2>1
<1>4. \A j \in Taking(cfg, word) : j \in Nat /\ n <= j
  <2> SUFFICES ASSUME NEW j \in DOMAIN word, word[j] \in cfg.short_values PROVE j \in Nat /\ n <= j
    BY DEF Taking
  <2>1. j \in 1 .. Len(letters) + Len(tail)
    BY <1>2
  <2>2. CASE j <= Len(letters)
    <3>1. word[j] = letters[j] /\ j \in DOMAIN letters
      <4>1. j \in 1 .. Len(letters)
        BY <1>1, <2>1, <2>2
      <4> QED BY <1>2, <2>1, <2>2, <4>1, Chars1
    <3> QED BY <3>1 DEF NoValues
  <2> QED BY <1>1, <2>1, <2>2
<1>5. n \in Taking(cfg, word)
  BY <1>3 DEF Taking
<1>6. FirstTaking(cfg, word) = n
  <2> HIDE DEF n, word
  <2>1. \A j \in Taking(cfg, word) : (\A i \in Taking(cfg, word) : j <= i) => j = n
    BY <1>3, <1>4, <1>5
  <2> QED BY <1>4, <1>5, <2>1 DEF FirstTaking
<1>7. n - 1 = Len(letters)
  BY <1>1
<1>8. SubSeq(word, 1, n - 1) = letters
  <2>1. SubSeq(word, 1, Len(letters)) = letters
    BY <1>1, Cut DEF Line
  <2> QED BY <1>7, <2>1
<1>9. Behind(word, n) = v
  <2>1. <<c>> \in Seq(Char) /\ letters \in Seq(Char) /\ v \in Seq(Char) /\ Len(<<c>>) = 1
    BY Chars1 DEF Line
  <2>2. word = (letters \o <<c>>) \o v
    BY <2>1, ConcatAssociative DEF tail
  <2>3. letters \o <<c>> \in Seq(Char) /\ Len(letters \o <<c>>) = n
    BY <2>1, ConcatProperties
  <2>4. Behind((letters \o <<c>>) \o v, Len(letters \o <<c>>)) = v
    BY <2>1, <2>3, Cut
  <2> QED BY <2>2, <2>3, <2>4
<1> HIDE DEF n
<1>10. /\ Taking(cfg, word) # {} /\ FirstTaking(cfg, word) = Len(letters) + 1
       /\ SubSeq(word, 1, FirstTaking(cfg, word) - 1) = letters /\ Behind(word, FirstTaking(cfg, word)) = v
       /\ word[FirstTaking(cfg, word)] = c
  BY <1>3, <1>5, <1>6, <1>8, <1>9 DEF n
<1> QED BY <1>10 DEF tail, Ending

(* An argument stands at a place of a line, and is read there as meant.    *)
StandsAt(words, i, a) ==
  /\ i \in 1 .. Len(words) /\ words[i] = Spelled(a)[1]
  /\ Len(Spelled(a)) = 2 => i + 1 <= Len(words) /\ words[i + 1] = Spelled(a)[2]
Expects(cfg, r)         == Configured(cfg) /\ (~cfg.permute => r.pos = <<>>)
ReadAt(words, i, cfg, r, a) ==
  Round(words, cfg, [i |-> i, r |-> r]) = [i |-> i + Len(Spelled(a)), r |-> Understood(cfg, r, a)]

LEMMA RestIs ==
  ASSUME NEW words \in Seq(Line), NEW i \in 1 .. Len(words)
  PROVE  /\ Behind(words, i) \in Seq(Line)
         /\ i + 1 <= Len(words) => Behind(words, i) # <<>> /\ Behind(words, i)[1] = words[i + 1]
<1>1. i \in 0 .. Len(words)
  OBVIOUS
<1>2. /\ Behind(words, i) \in Seq(Line) /\ Len(Behind(words, i)) = Len(words) - i
      /\ \A j \in 1 .. Len(words) - i : Behind(words, i)[j] = words[i + j]
  BY <1>1, BehindIs
<1>3. ASSUME i + 1 <= Len(words) PROVE Behind(words, i) # <<>> /\ Behind(words, i)[1] = words[i + 1]
  <2>1. 1 \in 1 .. Len(words) - i /\ Len(words) - i > 0
    BY <1>3
  <2> QED BY <1>2, <2>1
<1> QED BY <1>2, <1>3

LEMMA ReadsFlags ==
  ASSUME NEW words \in Seq(Line), NEW i, NEW cfg, NEW r, Expects(cfg, r),
         NEW a \in Argument, StandsAt(words, i, a), MayBe(cfg, a), a.k = "flags"
  PROVE  ReadAt(words, i, cfg, r, a)
<1> DEFINE w == words[i]
<1>1. /\ a.letters \in Line /\ Letters(a.letters) /\ NoValues(cfg, a.letters) /\ a.letters # <<>>
      /\ Spelled(a) = <<<<Dash>> \o a.letters>>
      /\ Understood(cfg, r, a) = [r EXCEPT !.opts = Flags(cfg, r.opts, a.letters)]
  BY ArgumentIs DEF MayBe, Spelled, Understood
<1>2. w = <<Dash>> \o a.letters /\ Len(Spelled(a)) = 1
  BY <1>1 DEF StandsAt
<1>3. a.letters \in Seq(Char) /\ Dash \in Char /\ Len(a.letters) >= 1 /\ 1 \in DOMAIN a.letters /\ 1 \in 1 .. Len(a.letters)
  BY <1>1, Chars1 DEF Line
<1>4. w \in Line /\ Len(w) >= 2 /\ Tail(w) = a.letters /\ w[1] = Dash /\ w[2] = a.letters[1] /\ w[2] # Dash
  <2>1. /\ w \in Seq(Char) /\ Len(w) = Len(a.letters) + 1 /\ Tail(w) = a.letters
        /\ w[1] = Dash /\ \A j \in 1 .. Len(a.letters) : w[j + 1] = a.letters[j]
    BY <1>2, <1>3, Fronted
  <2>2. w[1 + 1] = a.letters[1]
    BY <1>3, <2>1
  <2> QED BY <1>1, <1>3, <2>1, <2>2 DEF Letters, Line
<1> HIDE DEF w
<1>5. Class(cfg, r, w) = "short"
  BY <1>4, Classes DEF Expects
<1> DEFINE c == Cluster(cfg, r.opts, Tail(w), Behind(words, i))
<1>6. c.opts = Flags(cfg, r.opts, a.letters) /\ c.used = 1
  <2>1. Taking(cfg, Tail(w)) = {}
    BY <1>1, <1>4 DEF Taking, NoValues
  <2> QED BY <1>4, <2>1 DEF Cluster
<1> HIDE DEF c
<1> DEFINE s == [i |-> i, r |-> r]
<1>s. s.i = i /\ s.r = r
  OBVIOUS
<1> HIDE DEF s
<1>8. Round(words, cfg, s) = [i |-> i + c.used, r |-> [r EXCEPT !.opts = c.opts]]
  BY <1>s, <1>5 DEF Round, c, w
<1> USE DEF s
<1> QED BY <1>1, <1>2, <1>6, <1>8 DEF ReadAt

LEMMA ShortGrouped ==
  ASSUME NEW letters \in Line, NEW name \in Line, NEW v \in Line
  PROVE  /\ <<Dash>> \o letters \o name \o v = <<Dash>> \o (letters \o (name \o v))
         /\ <<Dash>> \o letters \o name = <<Dash>> \o (letters \o (name \o <<>>))
<1> DEFINE d == <<Dash>>
<1>1. d \in Line
  BY Chars1
<1> HIDE DEF d
<1>2. ((d \o letters) \o name) \o v = d \o (letters \o (name \o v))
  <2> DEFINE dl == d \o letters
             nv == name \o v
  <2>1. dl \in Line /\ nv \in Line
    BY <1>1, Joined
  <2> HIDE DEF dl, nv
  <2>2. (dl \o name) \o v = dl \o (name \o v)
    BY <2>1, Grouped, SMTT(30)
  <2>3. (d \o letters) \o nv = d \o (letters \o nv)
    BY <1>1, <2>1, Grouped, SMTT(30)
  <2>4. dl \o (name \o v) = (d \o letters) \o nv
    BY Zenon DEF dl, nv
  <2>5. (dl \o name) \o v = d \o (letters \o nv)
    BY <2>2, <2>3, <2>4, Zenon
  <2> QED BY <2>5, Zenon DEF dl, nv
<1>3. (d \o letters) \o name = d \o (letters \o name)
  BY <1>1, Grouped
<1>4. name \o <<>> = name
  BY ConcatEmptySeq DEF Line
<1> QED BY <1>2, <1>3, <1>4 DEF d

(* The word of a cluster that ends with a letter that takes a value.       *)
LEMMA ShortWord ==
  ASSUME NEW letters \in Line, Letters(letters), NEW c \in Char, c # Dash, NEW v \in Line,
         NEW tail, tail = Ending(letters, c, v), NEW w, w = <<Dash>> \o tail
  PROVE  w \in Line /\ Len(w) >= 2 /\ Tail(w) = tail /\ w[1] = Dash /\ w[2] # Dash
<1> DEFINE u == <<c>> \o v
<1>1. Dash \in Char
  BY Chars1
<1>4. /\ Len(letters) \in Nat /\ Len(v) \in Nat
      /\ \A j \in 1 .. Len(letters) : letters[j] # Dash
  BY Chars1 DEF Letters
<1>5. u \in Line /\ Len(u) = 1 + Len(v) /\ u[1] = c
  BY Fronted, Chars1 DEF Line
<1>t. tail = letters \o u
  BY DEF Ending
<1> HIDE DEF u
<1>6. tail \in Line /\ Len(tail) \in Nat /\ Len(tail) >= 1 /\ tail[1] # Dash
  <2>1. /\ letters \o u \in Line /\ Len(letters \o u) = Len(letters) + Len(u)
        /\ \A j \in 1 .. Len(letters) + Len(u) :
             (letters \o u)[j] = IF j <= Len(letters) THEN letters[j] ELSE u[j - Len(letters)]
    BY <1>5, Joined
  <2>2. 1 \in 1 .. Len(letters) + Len(u) /\ Len(letters) + Len(u) \in Nat
    BY <1>4, <1>5
  <2>3. CASE Len(letters) = 0
    <3>1. (letters \o u)[1] = u[1 - 0]
      BY <2>1, <2>2, <2>3
    <3> QED BY <1>4, <1>5, <2>1, <2>2, <3>1, <1>t
  <2>4. CASE Len(letters) > 0
    <3>1. (letters \o u)[1] = letters[1] /\ 1 \in 1 .. Len(letters)
      BY <1>4, <2>1, <2>2, <2>4
    <3> QED BY <1>4, <2>1, <2>2, <3>1, <1>t
  <2> QED BY <1>4, <1>5, <1>t, <2>1, <2>3, <2>4
<1>7. w \in Line /\ Len(w) >= 2 /\ Tail(w) = tail /\ w[1] = Dash /\ w[2] # Dash
  <2>1. tail \in Seq(Char)
    BY <1>6 DEF Line
  <2>2. /\ w \in Seq(Char) /\ Len(w) = Len(tail) + 1 /\ Tail(w) = tail
        /\ w[1] = Dash /\ \A j \in 1 .. Len(tail) : w[j + 1] = tail[j]
    BY <1>1, <2>1, Fronted
  <2>3. w[1 + 1] = tail[1] /\ Len(w) >= 2
    BY <1>6, <2>2
  <2> QED BY <1>6, <2>2, <2>3 DEF Line
<1> QED BY <1>7

(* What is read of it.                                                     *)
LEMMA ClusterTail ==
  ASSUME NEW cfg, NEW opts, NEW letters \in Line, NoValues(cfg, letters),
         NEW c \in cfg.short_values, c \in Char, NEW x \in Line, NEW rest,
         NEW cluster, cluster = Cluster(cfg, opts, Ending(letters, c, x), rest)
  PROVE  /\ x # <<>> => /\ cluster.opts = StoreGiven(cfg, Flags(cfg, opts, letters), <<c>>, x)
                        /\ cluster.used = 1
         /\ x = <<>> /\ rest # <<>> => /\ cluster.opts = StoreGiven(cfg, Flags(cfg, opts, letters), <<c>>, rest[1])
                                       /\ cluster.used = 2
<1> DEFINE tail == Ending(letters, c, x)
           k == FirstTaking(cfg, tail)
<1>1. /\ Taking(cfg, tail) # {} /\ k = Len(letters) + 1
      /\ SubSeq(tail, 1, k - 1) = letters /\ Behind(tail, k) = x
      /\ tail[k] = c
  BY ClusterValue
<1> HIDE DEF tail
<1>2. Cluster(cfg, opts, tail, rest) =
        [opts |-> StoreGiven(cfg, Flags(cfg, opts, letters), <<c>>, IF x # <<>> \/ rest = <<>> THEN x ELSE rest[1]),
         used |-> IF x # <<>> \/ rest = <<>> THEN 1 ELSE 2]
  BY <1>1 DEF Cluster, k
<1>3. cluster = Cluster(cfg, opts, tail, rest)
  BY DEF tail
<1> QED BY <1>2, <1>3

LEMMA ReadsShort ==
  ASSUME NEW words \in Seq(Line), NEW i, NEW cfg, NEW r, Expects(cfg, r),
         NEW a \in Argument, StandsAt(words, i, a), MayBe(cfg, a), a.k = "short"
  PROVE  ReadAt(words, i, cfg, r, a)
<1> DEFINE w       == words[i]
           letters == a.letters
           name    == a.name
           value   == a.v
           c       == a.name[1]
           v       == IF a.glued THEN a.v ELSE <<>>
           tail    == letters \o (name \o v)
           rest    == Behind(words, i)
           after   == Store(cfg, Flags(cfg, r.opts, letters), name, Text(value))
<1>1. /\ letters \in Line /\ Letters(letters) /\ NoValues(cfg, letters)
      /\ name \in Line /\ Len(name) = 1 /\ Letters(name) /\ c = name[1] /\ c \in cfg.short_values
      /\ value \in Line /\ value # <<>> /\ a.glued \in BOOLEAN
      /\ a.glued => v = value /\ Spelled(a) = <<<<Dash>> \o letters \o name \o value>>
      /\ ~a.glued => v = <<>> /\ Spelled(a) = <<<<Dash>> \o letters \o name, value>>
      /\ Understood(cfg, r, a) = [r EXCEPT !.opts = after]
  BY ArgumentIs DEF MayBe, Spelled, Understood
<1> HIDE DEF w, letters, name, value, c, v, after
<1>2. c \in Char /\ name = <<c>> /\ v \in Line
  <2>1. DOMAIN name = 1 .. Len(name) /\ name \in Seq(Char) /\ 1 \in 1 .. Len(name)
    BY <1>1, Chars1
  <2>2. name = <<name[1]>> /\ name[1] \in Char
    <3>1. name = <<name[1]>>
      BY <1>1, <2>1, OneOnly
    <3> QED BY <1>1, <3>1, Chars1
  <2>3. <<>> \in Line
    BY DEF Line
  <2> QED BY <1>1, <2>2, <2>3
<1>3. w = <<Dash>> \o tail
  <2>1. CASE a.glued
    <3>1. w = <<Dash>> \o letters \o name \o value
      BY <1>1, <2>1 DEF StandsAt, w
    <3>2. <<Dash>> \o letters \o name \o value = <<Dash>> \o (letters \o (name \o value))
      BY <1>1, ShortGrouped
    <3> QED BY <1>1, <2>1, <3>1, <3>2
  <2>2. CASE ~a.glued
    <3>1. w = <<Dash>> \o letters \o name
      BY <1>1, <2>2 DEF StandsAt, w
    <3>2. <<Dash>> \o letters \o name = <<Dash>> \o (letters \o (name \o <<>>))
      BY <1>1, ShortGrouped
    <3> QED BY <1>1, <2>2, <3>1, <3>2
  <2> QED BY <1>1, <2>1, <2>2
<1>6. tail = Ending(letters, c, v)
  BY <1>2 DEF Ending
<1> HIDE DEF tail
<1>4. w \in Line /\ Len(w) >= 2 /\ Tail(w) = tail /\ w[1] = Dash /\ w[2] # Dash
  <2>1. c # Dash
    <3>1. 1 \in DOMAIN name
      BY <1>1, Chars1
    <3> QED BY <1>1, <3>1 DEF Letters
  <2> HIDE DEF tail
  <2>2. letters \in Line /\ Letters(letters) /\ c \in Char /\ v \in Line
    BY <1>1, <1>2
  <2> QED BY <1>3, <1>6, <2>1, <2>2, ShortWord
<1>5. Class(cfg, r, w) = "short"
  BY <1>4, Classes DEF Expects
<1> DEFINE cluster == Cluster(cfg, r.opts, tail, rest)
           s       == [i |-> i, r |-> r]
<1>s. s.i = i /\ s.r = r
  OBVIOUS
<1> HIDE DEF s
<1>7. Round(words, cfg, s) = [i |-> i + cluster.used, r |-> [r EXCEPT !.opts = cluster.opts]]
  BY <1>s, <1>4, <1>5 DEF Round, w
<1>8. StoreGiven(cfg, Flags(cfg, r.opts, letters), <<c>>, value) = after
  BY <1>1, <1>2 DEF StoreGiven, after
<1> DEFINE o == r.opts
<1>9. cluster.opts = after /\ cluster.used = Len(Spelled(a))
  <2>1. cluster = Cluster(cfg, o, Ending(letters, c, v), rest)
    BY <1>6
  <2> HIDE DEF cluster, o, rest
  <2>2. /\ v # <<>> => /\ cluster.opts = StoreGiven(cfg, Flags(cfg, o, letters), <<c>>, v)
                       /\ cluster.used = 1
        /\ v = <<>> /\ rest # <<>> => /\ cluster.opts = StoreGiven(cfg, Flags(cfg, o, letters), <<c>>, rest[1])
                                      /\ cluster.used = 2
    BY <1>1, <1>2, <2>1, ClusterTail, SMTT(30)
  <2> USE DEF o, rest
  <2>3. CASE a.glued
    <3>1. Len(Spelled(a)) = 1
      BY <1>1, <2>3
    <3> QED BY <1>1, <1>8, <2>2, <2>3, <3>1
  <2>4. CASE ~a.glued
    <3>1. Len(Spelled(a)) = 2 /\ Spelled(a)[2] = value
      BY <1>1, <2>4
    <3>2. i \in 1 .. Len(words) /\ i + 1 <= Len(words) /\ words[i + 1] = value
      BY <3>1 DEF StandsAt
    <3>3. rest # <<>> /\ rest[1] = value
      BY <3>2, RestIs
    <3> QED BY <1>1, <1>8, <2>2, <2>4, <3>1, <3>3
  <2> QED BY <1>1, <2>3, <2>4
<1> HIDE DEF cluster
<1> QED BY <1>1, <1>7, <1>9 DEF ReadAt, s

(* What is read of a long name alone, and before a value.                  *)
Alone(cfg, name) == IF MayTake(cfg, name) THEN Text(<<"always">>) ELSE Flag(TRUE)

LEMMA AloneReads ==
  ASSUME NEW cfg, NEW opts, NEW rest, NEW name, ~Has(name, "="), ~Takes(cfg, name),
         NEW long, long = LongOption(cfg, opts, name, rest)
  PROVE  long.opts = Store(cfg, opts, NormaliseLong(name), Alone(cfg, name)) /\ long.used = 1
<1>1. CASE MayTake(cfg, name)
  <2>1. long = [opts |-> Store(cfg, opts, NormaliseLong(name), Text(<<"always">>)), used |-> 1]
    BY <1>1 DEF LongOption, MayTake
  <2> QED BY <1>1, <2>1 DEF Alone
<1>2. CASE ~MayTake(cfg, name)
  <2>1. long = [opts |-> Store(cfg, opts, NormaliseLong(name), Flag(TRUE)), used |-> 1]
    BY <1>2 DEF LongOption, MayTake, Takes
  <2> QED BY <1>2, <2>1 DEF Alone
<1> QED BY <1>1, <1>2

LEMMA TakingReads ==
  ASSUME NEW cfg, NEW opts, NEW rest, NEW name, ~Has(name, "="), Takes(cfg, name),
         NEW v, rest # <<>>, rest[1] = v, v # <<>>, ~Begins(v, <<Dash>>),
         NEW long, long = LongOption(cfg, opts, name, rest)
  PROVE  long.opts = Store(cfg, opts, NormaliseLong(name), Text(v)) /\ long.used = 2
<1>1. long = [opts |-> StoreGiven(cfg, opts, NormaliseLong(name), v), used |-> 2]
  BY DEF LongOption, MayTake, Takes
<1>2. StoreGiven(cfg, opts, NormaliseLong(name), v) = Store(cfg, opts, NormaliseLong(name), Text(v))
  BY DEF StoreGiven
<1> QED BY <1>1, <1>2

(* A name, the sign = and a value.                                         *)
Signed(name, v) == name \o <<"=">> \o v

LEMMA SignedReads ==
  ASSUME NEW cfg, NEW opts, NEW rest, NEW name \in Line, ~Has(name, "="), NEW v \in Line, v # <<>>,
         NEW long, long = LongOption(cfg, opts, Signed(name, v), rest)
  PROVE  long.opts = Store(cfg, opts, NormaliseLong(name), Text(v)) /\ long.used = 1
<1> DEFINE body == Signed(name, v)
<1>1. /\ Has(body, "=") /\ SubSeq(body, 1, EqualsAt(body) - 1) = name /\ Behind(body, EqualsAt(body)) = v
  BY SignAt DEF Signed
<1> HIDE DEF body
<1>2. long = LongOption(cfg, opts, body, rest)
  BY DEF body
<1>3. StoreGiven(cfg, opts, NormaliseLong(name), v) = Store(cfg, opts, NormaliseLong(name), Text(v))
  BY DEF StoreGiven
<1>4. CASE MayTake(cfg, name)
  <2>1. long = [opts |-> Store(cfg, opts, NormaliseLong(name), Text(v)), used |-> 1]
    BY <1>1, <1>2, <1>4 DEF LongOption, MayTake
  <2> QED BY <2>1
<1>5. CASE Takes(cfg, name)
  <2>1. long = [opts |-> StoreGiven(cfg, opts, NormaliseLong(name), v), used |-> 1]
    BY <1>1, <1>2, <1>5 DEF LongOption, MayTake, Takes
  <2> QED BY <1>3, <2>1
<1>6. CASE ~MayTake(cfg, name) /\ ~Takes(cfg, name)
  <2>1. long = [opts |-> Store(cfg, opts, NormaliseLong(name), Text(v)), used |-> 1]
    BY <1>1, <1>2, <1>6 DEF LongOption, MayTake, Takes
  <2> QED BY <2>1
<1> QED BY <1>4, <1>5, <1>6

(* The word of a long name.                                                *)
LEMMA LongWord ==
  ASSUME NEW body \in Line, Len(body) >= 1, NEW w, w = <<Dash, Dash>> \o body
  PROVE  w \in Line /\ Len(w) >= 3 /\ w[1] = Dash /\ w[2] = Dash /\ Behind(w, 2) = body
<1>1. Dash \in Char /\ body \in Seq(Char) /\ Len(body) \in Nat
  BY Chars1
<1> QED BY <1>1, FrontedTwice DEF Line

LEMMA LongGrouped ==
  ASSUME NEW name \in Line, NEW v \in Line
  PROVE  /\ <<Dash, Dash>> \o name \o <<"=">> \o v = <<Dash, Dash>> \o Signed(name, v)
         /\ Signed(name, v) \in Line /\ Len(Signed(name, v)) >= 1
<1> DEFINE d == <<Dash, Dash>>
           e == <<"=">>
           n == name \o e
<1>1. d \in Line /\ e \in Line /\ Len(e) = 1
  <2>1. Dash \in Char /\ <<"=">> \in Line
    BY Chars1
  <2>2. \A S : \A c \in S : <<c, c>> \in Seq(S)
    OBVIOUS
  <2> QED BY <2>1, <2>2 DEF Line
<1> HIDE DEF d, e
<1>2. n \in Line /\ Len(n) = Len(name) + 1 /\ Len(name) \in Nat /\ Len(v) \in Nat
  <2>1. Len(name) \in Nat /\ Len(v) \in Nat
    BY Chars1
  <2>2. name \o e \in Line /\ Len(name \o e) = Len(name) + Len(e)
    BY <1>1, Joined
  <2> QED BY <1>1, <2>1, <2>2
<1>3. (d \o name) \o e = d \o n
  BY <1>1, Grouped
<1> HIDE DEF n
<1>4. (d \o n) \o v = d \o (n \o v)
  BY <1>1, <1>2, Grouped
<1>5. n \o v \in Line /\ Len(n \o v) = Len(n) + Len(v)
  BY <1>2, Joined
<1>6. Signed(name, v) = n \o v
  BY DEF Signed, n, e
<1>7. Len(n \o v) >= 1
  BY <1>2, <1>5
<1> QED BY <1>3, <1>4, <1>5, <1>6, <1>7 DEF d, e

LEMMA ReadsLong ==
  ASSUME NEW words \in Seq(Line), NEW i, NEW cfg, NEW r, Expects(cfg, r),
         NEW a \in Argument, StandsAt(words, i, a), MayBe(cfg, a), a.k \in {"long", "value"}
  PROVE  ReadAt(words, i, cfg, r, a)
<1> DEFINE w    == words[i]
           name == a.name
           o    == r.opts
           rest == Behind(words, i)
           body == Behind(w, 2)
           after == IF a.k = "value" THEN Store(cfg, o, NormaliseLong(name), Text(a.v))
                    ELSE Store(cfg, o, NormaliseLong(name), Alone(cfg, name))
           long == LongOption(cfg, o, body, rest)
           s    == [i |-> i, r |-> r]
<1>1. name \in Line /\ name # <<>> /\ ~Has(name, "=") /\ Len(name) >= 1
  <2>1. name \in Line /\ name # <<>> /\ ~Has(name, "=")
    BY ArgumentIs DEF MayBe
  <2>2. name \in Seq(Char)
    BY <2>1 DEF Line
  <2> QED BY <2>1, <2>2
<1>2. Understood(cfg, r, a) = [r EXCEPT !.opts = after]
  BY DEF Understood, Alone
<1>3. ASSUME NEW b \in Line, Len(b) >= 1, w = <<Dash, Dash>> \o b
      PROVE  body = b /\ Round(words, cfg, s) = [i |-> i + long.used, r |-> [r EXCEPT !.opts = long.opts]]
  <2> HIDE DEF w
  <2>1. w \in Line /\ Len(w) >= 3 /\ w[1] = Dash /\ w[2] = Dash /\ Behind(w, 2) = b
    BY <1>3, LongWord
  <2>2. Class(cfg, r, w) = "long"
    BY <2>1, Classes DEF Expects
  <2>3. s.i = i /\ s.r = r
    OBVIOUS
  <2> HIDE DEF s
  <2> QED BY <2>1, <2>2, <2>3 DEF Round, w
<1>4. CASE a.k = "long"
  <2>1. Spelled(a) = <<<<Dash, Dash>> \o name>> /\ ~Takes(cfg, name)
    BY <1>4 DEF Spelled, MayBe
  <2>2. w = <<Dash, Dash>> \o name /\ Len(Spelled(a)) = 1
    BY <2>1 DEF StandsAt
  <2>3. body = name /\ Round(words, cfg, s) = [i |-> i + long.used, r |-> [r EXCEPT !.opts = long.opts]]
    BY <1>1, <1>3, <2>2
  <2> HIDE DEF body, rest
  <2>4. long = LongOption(cfg, o, name, rest)
    BY <2>3
  <2>5. after = Store(cfg, o, NormaliseLong(name), Alone(cfg, name))
    BY <1>4
  <2> HIDE DEF long, name, o, after
  <2>6. long.opts = after /\ long.used = 1
    BY <1>1, <2>1, <2>4, <2>5, AloneReads
  <2> QED BY <1>2, <2>2, <2>3, <2>6 DEF ReadAt, s
<1>5. CASE a.k = "value" /\ a.glued
  <2>0. a.v \in Line /\ a.v # <<>>
    BY <1>5, ArgumentIs DEF MayBe
  <2> DEFINE x == <<Dash, Dash>> \o name \o <<"=">> \o a.v
  <2>1. Spelled(a) = <<x>>
    BY <1>5 DEF Spelled
  <2> HIDE DEF x
  <2>2. w = x /\ Len(Spelled(a)) = 1
    BY <2>1 DEF StandsAt
  <2> DEFINE v == a.v
  <2> HIDE DEF v, name
  <2>3. /\ <<Dash, Dash>> \o name \o <<"=">> \o v = <<Dash, Dash>> \o Signed(name, v)
        /\ Signed(name, v) \in Line /\ Len(Signed(name, v)) >= 1
    BY <1>1, <2>0, LongGrouped DEF v
  <2>4. w = <<Dash, Dash>> \o Signed(name, v)
    BY <2>2, <2>3 DEF v, x
  <2>5. body = Signed(name, v) /\ Round(words, cfg, s) = [i |-> i + long.used, r |-> [r EXCEPT !.opts = long.opts]]
    BY <1>3, <2>3, <2>4
  <2> HIDE DEF body, rest
  <2>6. long = LongOption(cfg, o, Signed(name, v), rest)
    BY <2>5
  <2>7. after = Store(cfg, o, NormaliseLong(name), Text(v))
    BY <1>5 DEF v
  <2> HIDE DEF long, o, after
  <2>8. v \in Line /\ v # <<>>
    BY <2>0 DEF v
  <2>9. long.opts = after /\ long.used = 1
    BY <1>1, <2>6, <2>7, <2>8, SignedReads
  <2> QED BY <1>2, <2>2, <2>5, <2>9 DEF ReadAt, s
<1>6. CASE a.k = "value" /\ ~a.glued
  <2>0. a.v \in Line /\ a.v # <<>> /\ Takes(cfg, name) /\ ~Begins(a.v, <<Dash>>)
    BY <1>6, ArgumentIs DEF MayBe
  <2>1. Spelled(a) = <<<<Dash, Dash>> \o name, a.v>>
    BY <1>6 DEF Spelled
  <2>2. Len(Spelled(a)) = 2 /\ Spelled(a)[1] = <<Dash, Dash>> \o name /\ Spelled(a)[2] = a.v
    BY <2>1
  <2>3. w = <<Dash, Dash>> \o name /\ i \in 1 .. Len(words) /\ i + 1 <= Len(words) /\ words[i + 1] = a.v
    BY <2>2 DEF StandsAt
  <2>4. rest # <<>> /\ rest[1] = a.v
    BY <2>3, RestIs
  <2>5. body = name /\ Round(words, cfg, s) = [i |-> i + long.used, r |-> [r EXCEPT !.opts = long.opts]]
    BY <1>1, <1>3, <2>3
  <2> HIDE DEF body, rest
  <2>6. long = LongOption(cfg, o, name, rest)
    BY <2>5
  <2>7. after = Store(cfg, o, NormaliseLong(name), Text(a.v))
    BY <1>6
  <2> DEFINE v == a.v
  <2>8. v # <<>> /\ ~Begins(v, <<Dash>>) /\ rest[1] = v
    BY <2>0, <2>4
  <2> HIDE DEF long, name, o, after, v
  <2>9. long.opts = Store(cfg, o, NormaliseLong(name), Text(v)) /\ long.used = 2
    BY <1>1, <2>0, <2>4, <2>6, <2>8, TakingReads
  <2> QED BY <1>2, <2>2, <2>5, <2>7, <2>9 DEF ReadAt, s, v
<1> QED BY <1>4, <1>5, <1>6, ArgumentIs

LEMMA ReadsOthers ==
  ASSUME NEW words \in Seq(Line), NEW i, NEW cfg, NEW r, Expects(cfg, r),
         NEW a \in Argument, StandsAt(words, i, a), MayBe(cfg, a), a.k \in {"plus", "at", "pos"}
  PROVE  ReadAt(words, i, cfg, r, a)
<1> DEFINE w == words[i]
           s == [i |-> i, r |-> r]
<1>s. s.i = i /\ s.r = r
  OBVIOUS
<1> HIDE DEF s
<1>1. ASSUME NEW c \in Char, NEW v \in Line, w = <<c>> \o v
      PROVE  w \in Line /\ Len(w) = Len(v) + 1 /\ Len(v) \in Nat /\ w[1] = c /\ Tail(w) = v
  <2> HIDE DEF w
  <2>1. v \in Seq(Char) /\ Len(v) \in Nat
    BY Chars1
  <2> QED BY <1>1, <2>1, Fronted DEF Line
<1>2. CASE a.k = "plus"
  <2>1. /\ a.name \in Line /\ a.name # <<>> /\ cfg.plus_flags /\ Spelled(a) = <<<<"+">> \o a.name>>
        /\ Understood(cfg, r, a) = [r EXCEPT !.plus = PlusOption(r.plus, a.name)]
    BY <1>2, ArgumentIs DEF MayBe, Spelled, Understood
  <2>2. w = <<"+">> \o a.name /\ Len(Spelled(a)) = 1 /\ "+" \in Char /\ Len(a.name) >= 1
    <3>1. a.name \in Seq(Char)
      BY <2>1, Chars1
    <3> QED BY <2>1, <3>1, Chars1 DEF StandsAt
  <2>3. w \in Line /\ Len(w) = Len(a.name) + 1 /\ Len(a.name) \in Nat /\ w[1] = "+" /\ Tail(w) = a.name
    BY <1>1, <2>1, <2>2
  <2> HIDE DEF w
  <2>4. Class(cfg, r, w) = "plus"
    <3>1. Len(w) >= 2
      BY <2>2, <2>3
    <3> QED BY <2>1, <2>3, <3>1, Classes DEF Expects
  <2>5. Round(words, cfg, s) = [i |-> i + 1, r |-> [r EXCEPT !.plus = PlusOption(r.plus, a.name)]]
    BY <1>s, <2>3, <2>4 DEF Round, w
  <2> QED BY <2>1, <2>2, <2>5 DEF ReadAt, s
<1>3. CASE a.k = "at"
  <2>1. /\ a.v \in Line /\ cfg.at_tokens /\ Spelled(a) = <<<<"@">> \o a.v>>
        /\ Understood(cfg, r, a) = [r EXCEPT !.at = Append(r.at, a.v)]
    BY <1>3, ArgumentIs DEF MayBe, Spelled, Understood
  <2>2. w = <<"@">> \o a.v /\ Len(Spelled(a)) = 1 /\ "@" \in Char
    BY SMTT(30), <2>1, Chars1 DEF StandsAt
  <2>3. w \in Line /\ Len(w) = Len(a.v) + 1 /\ Len(a.v) \in Nat /\ w[1] = "@" /\ Tail(w) = a.v
    BY <1>1, <2>1, <2>2
  <2> HIDE DEF w
  <2>4. Class(cfg, r, w) = "at"
    <3>1. Len(w) >= 1
      BY <2>3
    <3> QED BY <2>1, <2>3, <3>1, Classes DEF Expects
  <2>5. Round(words, cfg, s) = [i |-> i + 1, r |-> [r EXCEPT !.at = Append(r.at, a.v)]]
    BY <1>s, <2>3, <2>4 DEF Round, w
  <2> QED BY <2>1, <2>2, <2>5 DEF ReadAt, s
<1>4. CASE a.k = "pos"
  <2>1. /\ a.v \in Line /\ cfg.permute /\ Plain(cfg, a.v) /\ Spelled(a) = <<a.v>>
        /\ Understood(cfg, r, a) = [r EXCEPT !.pos = Append(r.pos, a.v)]
    BY <1>4, ArgumentIs DEF MayBe, Spelled, Understood
  <2>2. w = a.v /\ Len(Spelled(a)) = 1
    BY <2>1 DEF StandsAt
  <2>3. w \in Line /\ Plain(cfg, w)
    BY <2>1, <2>2
  <2> HIDE DEF w
  <2>4. Class(cfg, r, w) = "positional"
    BY <2>1, <2>3, Classes DEF Expects
  <2>5. Round(words, cfg, s) = [i |-> i + 1, r |-> [r EXCEPT !.pos = Append(r.pos, a.v)]]
    BY <1>s, <2>2, <2>4 DEF Round, w
  <2> QED BY <2>1, <2>2, <2>5 DEF ReadAt, s
<1> QED BY <1>2, <1>3, <1>4

LEMMA ReadsArgument ==
  ASSUME NEW words \in Seq(Line), NEW i, NEW cfg, NEW r, Expects(cfg, r),
         NEW a \in Argument, StandsAt(words, i, a), MayBe(cfg, a)
  PROVE  ReadAt(words, i, cfg, r, a)
<1>1. a.k \in {"flags", "short", "long", "plus", "value", "at", "pos"}
  BY ArgumentIs
<1>2. CASE a.k = "flags"
  BY <1>2, ReadsFlags
<1>3. CASE a.k = "short"
  BY <1>3, ReadsShort
<1>4. CASE a.k \in {"long", "value"}
  BY <1>4, ReadsLong
<1>5. CASE a.k \in {"plus", "at", "pos"}
  BY <1>5, ReadsOthers
<1> QED BY <1>1, <1>2, <1>3, <1>4, <1>5

(* What is understood keeps its shape; only with permute there are         *)
(* positional words among the arguments.                                   *)
Shaped(r) == r = [opts |-> r.opts, pos |-> r.pos, plus |-> r.plus, at |-> r.at] /\ r.pos \in Seq(Line)

LEMMA UnderstoodKeeps ==
  ASSUME NEW cfg, NEW r, Shaped(r), Expects(cfg, r), NEW a \in Argument, MayBe(cfg, a),
         NEW next, next = Understood(cfg, r, a)
  PROVE  Shaped(next) /\ Expects(cfg, next)
<1>1. a.k \in {"flags", "short", "long", "plus", "value", "at", "pos"}
  BY ArgumentIs
<1>2. CASE a.k = "pos"
  <2>1. /\ a.v \in Line /\ cfg.permute
        /\ next = [r EXCEPT !.pos = Append(r.pos, a.v)]
    BY <1>2, ArgumentIs DEF MayBe, Understood
  <2>2. Append(r.pos, a.v) \in Seq(Line)
    BY <2>1, AppendProperties DEF Shaped
  <2>3. /\ next = [opts |-> next.opts, pos |-> next.pos, plus |-> next.plus, at |-> next.at]
        /\ next.pos = Append(r.pos, a.v)
    BY <2>1 DEF Shaped
  <2> QED BY <2>1, <2>2, <2>3 DEF Shaped, Expects
<1>3. CASE a.k \in {"flags", "short", "long", "value"}
  <2>1. \E o : next = [r EXCEPT !.opts = o]
    BY <1>3 DEF Understood
  <2>2. PICK o : next = [r EXCEPT !.opts = o]
    BY <2>1
  <2>3. next = [opts |-> next.opts, pos |-> next.pos, plus |-> next.plus, at |-> next.at] /\ next.pos = r.pos
    BY <2>2 DEF Shaped
  <2> QED BY <2>3 DEF Shaped, Expects
<1>4. CASE a.k \in {"plus", "at"}
  <2>1. \E o : next = [r EXCEPT !.plus = o] \/ next = [r EXCEPT !.at = o]
    BY <1>4 DEF Understood
  <2>2. PICK o : next = [r EXCEPT !.plus = o] \/ next = [r EXCEPT !.at = o]
    BY <2>1
  <2>3. next = [opts |-> next.opts, pos |-> next.pos, plus |-> next.plus, at |-> next.at] /\ next.pos = r.pos
    BY <2>2 DEF Shaped
  <2> QED BY <2>3 DEF Shaped, Expects
<1> QED BY <1>1, <1>2, <1>3, <1>4

(* The words of a command line, one argument after the other; what its     *)
(* arguments mean; and the rounds of the loop.                             *)
Onward(line, cfg, s) == IF s.i > Len(line) THEN s ELSE Round(line, cfg, s)
Joins(words, args) ==
  words[0] = <<>> /\ \A n \in 1 .. Len(args) : words[n] = words[n - 1] \o Spelled(args[n])
Understands(meant, args, cfg) ==
  meant[0] = Nothing /\ \A n \in 1 .. Len(args) : meant[n] = Understood(cfg, meant[n - 1], args[n])
Goes(after, line, cfg) ==
  /\ after[0] = [i |-> 1, r |-> Nothing]
  /\ \A n \in 1 .. Len(line) : after[n] = Onward(line, cfg, after[n - 1])

(* The words of the arguments, one after the other.                        *)
LEMMA WordsAre ==
  ASSUME NEW args \in Seq(Argument)
  PROVE  \E words : Joins(words, args) /\ Words(args) = words[Len(args)]
<1> DEFINE Def(f, m) == f = [n \in 0 .. m |-> IF n = 0 THEN <<>> ELSE f[n - 1] \o Spelled(args[n])]
           S         == {m \in Nat : \E f : Def(f, m)}
           N         == Len(args)
<1>1. N \in Nat
  OBVIOUS
<1>2. 0 \in S
  <2> DEFINE f == [n \in 0 .. 0 |-> <<>>]
  <2>1. \A n \in 0 .. 0 : n = 0
    OBVIOUS
  <2>2. Def(f, 0)
    BY <2>1
  <2> HIDE DEF f
  <2> QED BY <2>2
<1>3. ASSUME NEW m \in 0 .. N - 1, m \in S PROVE m + 1 \in S
  <2>1. PICK f : Def(f, m)
    BY <1>3
  <2> DEFINE g == [n \in 0 .. m + 1 |-> IF n \in 0 .. m THEN f[n] ELSE f[m] \o Spelled(args[m + 1])]
  <2>2. ASSUME NEW n \in 0 .. m + 1
        PROVE  g[n] = IF n = 0 THEN <<>> ELSE g[n - 1] \o Spelled(args[n])
    <3>1. CASE n = 0
      <4>1. 0 \in 0 .. m /\ n \in 0 .. m /\ g[n] = f[n]
        BY <3>1
      <4>2. f[0] = <<>>
        BY <2>1, <4>1
      <4> QED BY <3>1, <4>1, <4>2
    <3>2. CASE n \in 1 .. m
      <4>1. n \in 0 .. m /\ n - 1 \in 0 .. m /\ n # 0 /\ n - 1 \in 0 .. m + 1
        BY <3>2
      <4>2. g[n] = f[n] /\ g[n - 1] = f[n - 1]
        BY <4>1
      <4>3. f[n] = f[n - 1] \o Spelled(args[n])
        BY <2>1, <4>1
      <4> HIDE DEF g
      <4> QED BY <4>1, <4>2, <4>3
    <3>3. CASE n = m + 1
      <4>1. n \notin 0 .. m /\ n - 1 = m /\ m \in 0 .. m /\ m \in 0 .. m + 1 /\ n # 0
        BY <3>3
      <4>2. g[n] = f[m] \o Spelled(args[m + 1]) /\ g[m] = f[m]
        BY <3>3, <4>1
      <4> HIDE DEF g
      <4> QED BY <3>3, <4>1, <4>2
    <3> QED BY <3>1, <3>2, <3>3
  <2>3. g = [n \in 0 .. m + 1 |-> g[n]]
    OBVIOUS
  <2> HIDE DEF g
  <2>4. Def(g, m + 1)
    BY <2>2, <2>3
  <2>5. m + 1 \in Nat
    OBVIOUS
  <2> HIDE DEF Def
  <2> QED BY <2>4, <2>5
<1>4. \E f : Def(f, N)
  <2>1. N \in 0 .. N
    BY <1>1
  <2> HIDE DEF N, S
  <2>2. 0 .. N \subseteq S
    BY <1>1, <1>2, <1>3, UpTo
  <2>3. N \in S
    BY <2>1, <2>2
  <2> QED BY <2>3 DEF S
<1> DEFINE h == CHOOSE f : Def(f, N)
<1>5. Def(h, N)
  <2> HIDE DEF Def, N
  <2> QED BY <1>4
<1>6. Words(args) = h[Len(args)]
  BY DEF Words
<1> HIDE DEF h
<1>7. h[0] = <<>>
  <2>1. 0 \in 0 .. N
    BY <1>1
  <2> QED BY <1>5, <2>1
<1>8. ASSUME NEW n \in 1 .. N PROVE h[n] = h[n - 1] \o Spelled(args[n])
  <2>1. n \in 0 .. N /\ n # 0
    BY <1>1
  <2> QED BY <1>5, <2>1
<1> QED BY <1>6, <1>7, <1>8 DEF Joins

(* What they mean, one after the other.                                    *)
LEMMA MeaningIs ==
  ASSUME NEW cfg, NEW args \in Seq(Argument)
  PROVE  \E meant : Understands(meant, args, cfg) /\ Meaning(cfg, args) = meant[Len(args)]
<1> DEFINE Def(f, m) == f = [n \in 0 .. m |-> IF n = 0 THEN Nothing ELSE Understood(cfg, f[n - 1], args[n])]
           S         == {m \in Nat : \E f : Def(f, m)}
           N         == Len(args)
<1>1. N \in Nat
  OBVIOUS
<1>2. 0 \in S
  <2> DEFINE f == [n \in 0 .. 0 |-> Nothing]
  <2>1. \A n \in 0 .. 0 : n = 0
    OBVIOUS
  <2>2. Def(f, 0)
    BY <2>1
  <2> HIDE DEF f
  <2> QED BY <2>2
<1>3. ASSUME NEW m \in 0 .. N - 1, m \in S PROVE m + 1 \in S
  <2>1. PICK f : Def(f, m)
    BY <1>3
  <2> DEFINE g == [n \in 0 .. m + 1 |-> IF n \in 0 .. m THEN f[n] ELSE Understood(cfg, f[m], args[m + 1])]
  <2>2. ASSUME NEW n \in 0 .. m + 1
        PROVE  g[n] = IF n = 0 THEN Nothing ELSE Understood(cfg, g[n - 1], args[n])
    <3>1. CASE n = 0
      <4>1. 0 \in 0 .. m /\ n \in 0 .. m /\ g[n] = f[n]
        BY <3>1
      <4>2. f[0] = Nothing
        BY <2>1, <4>1
      <4> QED BY <3>1, <4>1, <4>2
    <3>2. CASE n \in 1 .. m
      <4>1. n \in 0 .. m /\ n - 1 \in 0 .. m /\ n # 0 /\ n - 1 \in 0 .. m + 1
        BY <3>2
      <4>2. g[n] = f[n] /\ g[n - 1] = f[n - 1]
        BY <4>1
      <4>3. f[n] = Understood(cfg, f[n - 1], args[n])
        BY <2>1, <4>1
      <4> HIDE DEF g
      <4> QED BY <4>1, <4>2, <4>3
    <3>3. CASE n = m + 1
      <4>1. n \notin 0 .. m /\ n - 1 = m /\ m \in 0 .. m /\ m \in 0 .. m + 1 /\ n # 0
        BY <3>3
      <4>2. g[n] = Understood(cfg, f[m], args[m + 1]) /\ g[m] = f[m]
        BY <3>3, <4>1
      <4> HIDE DEF g
      <4> QED BY <3>3, <4>1, <4>2
    <3> QED BY <3>1, <3>2, <3>3
  <2>3. g = [n \in 0 .. m + 1 |-> g[n]]
    OBVIOUS
  <2> HIDE DEF g
  <2>4. Def(g, m + 1)
    BY <2>2, <2>3
  <2>5. m + 1 \in Nat
    OBVIOUS
  <2> HIDE DEF Def
  <2> QED BY <2>4, <2>5
<1>4. \E f : Def(f, N)
  <2>1. N \in 0 .. N
    BY <1>1
  <2> HIDE DEF N, S
  <2>2. 0 .. N \subseteq S
    BY <1>1, <1>2, <1>3, UpTo
  <2>3. N \in S
    BY <2>1, <2>2
  <2> QED BY <2>3 DEF S
<1> DEFINE h == CHOOSE f : Def(f, N)
<1>5. Def(h, N)
  <2> HIDE DEF Def, N
  <2> QED BY <1>4
<1>6. Meaning(cfg, args) = h[Len(args)]
  BY DEF Meaning
<1> HIDE DEF h
<1>7. h[0] = Nothing
  <2>1. 0 \in 0 .. N
    BY <1>1
  <2> QED BY <1>5, <2>1
<1>8. ASSUME NEW n \in 1 .. N PROVE h[n] = Understood(cfg, h[n - 1], args[n])
  <2>1. n \in 0 .. N /\ n # 0
    BY <1>1
  <2> QED BY <1>5, <2>1
<1> QED BY <1>6, <1>7, <1>8 DEF Understands

(* The rounds of the loop.                                                 *)
LEMMA ParseIs ==
  ASSUME NEW cfg, NEW line \in Seq(Line)
  PROVE  \E after : Goes(after, line, cfg) /\ DoParse(line, cfg) = after[Len(line)].r
<1> DEFINE Def(f, m) == f = [n \in 0 .. m |-> IF n = 0 THEN [i |-> 1, r |-> Nothing] ELSE Onward(line, cfg, f[n - 1])]
           S         == {m \in Nat : \E f : Def(f, m)}
           N         == Len(line)
<1>1. N \in Nat
  OBVIOUS
<1>2. 0 \in S
  <2> DEFINE f == [n \in 0 .. 0 |-> [i |-> 1, r |-> Nothing]]
  <2>1. \A n \in 0 .. 0 : n = 0
    OBVIOUS
  <2>2. Def(f, 0)
    BY <2>1
  <2> HIDE DEF f
  <2> QED BY <2>2
<1>3. ASSUME NEW m \in 0 .. N - 1, m \in S PROVE m + 1 \in S
  <2>1. PICK f : Def(f, m)
    BY <1>3
  <2> DEFINE g == [n \in 0 .. m + 1 |-> IF n \in 0 .. m THEN f[n] ELSE Onward(line, cfg, f[m])]
  <2>2. ASSUME NEW n \in 0 .. m + 1
        PROVE  g[n] = IF n = 0 THEN [i |-> 1, r |-> Nothing] ELSE Onward(line, cfg, g[n - 1])
    <3>1. CASE n = 0
      <4>1. 0 \in 0 .. m /\ n \in 0 .. m /\ g[n] = f[n]
        BY <3>1
      <4>2. f[0] = [i |-> 1, r |-> Nothing]
        BY <2>1, <4>1
      <4> QED BY <3>1, <4>1, <4>2
    <3>2. CASE n \in 1 .. m
      <4>1. n \in 0 .. m /\ n - 1 \in 0 .. m /\ n # 0 /\ n - 1 \in 0 .. m + 1
        BY <3>2
      <4>2. g[n] = f[n] /\ g[n - 1] = f[n - 1]
        BY <4>1
      <4>3. f[n] = Onward(line, cfg, f[n - 1])
        BY <2>1, <4>1
      <4> HIDE DEF g
      <4> QED BY <4>1, <4>2, <4>3
    <3>3. CASE n = m + 1
      <4>1. n \notin 0 .. m /\ n - 1 = m /\ m \in 0 .. m /\ m \in 0 .. m + 1 /\ n # 0
        BY <3>3
      <4>2. g[n] = Onward(line, cfg, f[m]) /\ g[m] = f[m]
        BY <3>3, <4>1
      <4> HIDE DEF g
      <4> QED BY <3>3, <4>1, <4>2
    <3> QED BY <3>1, <3>2, <3>3
  <2>3. g = [n \in 0 .. m + 1 |-> g[n]]
    OBVIOUS
  <2> HIDE DEF g
  <2>4. Def(g, m + 1)
    BY <2>2, <2>3
  <2>5. m + 1 \in Nat
    OBVIOUS
  <2> HIDE DEF Def
  <2> QED BY <2>4, <2>5
<1>4. \E f : Def(f, N)
  <2>1. N \in 0 .. N
    BY <1>1
  <2> HIDE DEF N, S
  <2>2. 0 .. N \subseteq S
    BY <1>1, <1>2, <1>3, UpTo
  <2>3. N \in S
    BY <2>1, <2>2
  <2> QED BY <2>3 DEF S
<1> DEFINE h == CHOOSE f : Def(f, N)
<1>5. Def(h, N)
  <2> HIDE DEF Def, N
  <2> QED BY <1>4
<1>6. DoParse(line, cfg) = h[Len(line)].r
  BY DEF DoParse, Onward
<1> HIDE DEF h
<1>7. h[0] = [i |-> 1, r |-> Nothing]
  <2>1. 0 \in 0 .. N
    BY <1>1
  <2> QED BY <1>5, <2>1
<1>8. ASSUME NEW n \in 1 .. N PROVE h[n] = Onward(line, cfg, h[n - 1])
  <2>1. n \in 0 .. N /\ n # 0
    BY <1>1
  <2> QED BY <1>5, <2>1
<1> QED BY <1>6, <1>7, <1>8 DEF Goes

(* A line begins with what it was joined from.                             *)
Agrees(u, v) == Len(u) <= Len(v) /\ \A i \in 1 .. Len(u) : v[i] = u[i]

LEMMA JoinAgrees ==
  ASSUME NEW u \in Seq(Line), NEW v \in Seq(Line)
  PROVE  /\ u \o v \in Seq(Line) /\ Len(u \o v) = Len(u) + Len(v) /\ Agrees(u, u \o v)
         /\ \A i \in 1 .. Len(v) : (u \o v)[Len(u) + i] = v[i]
<1>1. /\ u \o v \in Seq(Line) /\ Len(u \o v) = Len(u) + Len(v) /\ Len(u) \in Nat /\ Len(v) \in Nat
      /\ \A i \in 1 .. Len(u) + Len(v) : (u \o v)[i] = IF i <= Len(u) THEN u[i] ELSE v[i - Len(u)]
  BY ConcatProperties
<1> DEFINE w == u \o v
<1> HIDE DEF w
<1>2. Agrees(u, w)
  BY <1>1 DEF Agrees, w
<1>3. \A i \in 1 .. Len(v) : w[Len(u) + i] = v[i]
  <2>1. \A i \in 1 .. Len(v) : Len(u) + i \in 1 .. Len(u) + Len(v) /\ ~(Len(u) + i <= Len(u)) /\ Len(u) + i - Len(u) = i
    BY <1>1
  <2> QED BY <1>1, <2>1 DEF w
<1> QED BY <1>1, <1>2, <1>3 DEF w

LEMMA AgreesOn ==
  ASSUME NEW u \in Seq(Line), NEW v \in Seq(Line), NEW w \in Seq(Line), Agrees(u, v), Agrees(v, w)
  PROVE  Agrees(u, w)
<1>1. Len(u) \in Nat /\ Len(v) \in Nat /\ Len(w) \in Nat
  OBVIOUS
<1> QED BY <1>1 DEF Agrees

(* Every argument stands where the words of those before it end.           *)
LEMMA WordsStand ==
  ASSUME NEW args \in Seq(Argument), NEW words, Joins(words, args),
         NEW line \in Seq(Line), Agrees(words[Len(args)], line)
  PROVE  \A k \in 0 .. Len(args) :
           /\ words[k] \in Seq(Line) /\ k <= Len(words[k]) /\ Len(words[k]) <= Len(line)
           /\ k < Len(args) => /\ StandsAt(line, Len(words[k]) + 1, args[k + 1])
                               /\ Len(words[k + 1]) = Len(words[k]) + Len(Spelled(args[k + 1]))
<1> USE DEF Joins
<1> DEFINE N == Len(args)
           S == {k \in Nat : /\ words[k] \in Seq(Line) /\ k <= Len(words[k])
                             /\ \A j \in 0 .. k : words[j] \in Seq(Line) /\ Agrees(words[j], words[k])}
<1>1. N \in Nat /\ \A n \in 1 .. N : args[n] \in Argument
  OBVIOUS
<1>2. \A n \in 1 .. N : Spelled(args[n]) \in Seq(Line) /\ Len(Spelled(args[n])) \in {1, 2}
  BY <1>1, SpelledIs
<1>3. 0 \in S
  <2>1. words[0] \in Seq(Line) /\ Len(words[0]) = 0
    OBVIOUS
  <2>2. \A j \in 0 .. 0 : j = 0
    OBVIOUS
  <2>3. Agrees(words[0], words[0])
    BY <2>1 DEF Agrees
  <2>4. 0 <= Len(words[0])
    BY <2>1
  <2>5. \A j \in 0 .. 0 : words[j] \in Seq(Line) /\ Agrees(words[j], words[0])
    BY <2>1, <2>2, <2>3
  <2> QED BY <2>1, <2>4, <2>5
<1>4. ASSUME NEW k \in 0 .. N - 1, k \in S PROVE k + 1 \in S
  <2>1. /\ k + 1 \in 1 .. N /\ k + 1 - 1 = k /\ k + 1 \in Nat
        /\ \A j \in 0 .. k + 1 : j \in 0 .. k \/ j = k + 1
    BY <1>1
  <2> DEFINE u == words[k]
             v == Spelled(args[k + 1])
             w == words[k + 1]
  <2>a. w = u \o v
    <3> DEFINE n == k + 1
    <3>1. n \in 1 .. N /\ n - 1 = k
      BY <2>1
    <3> HIDE DEF n
    <3>2. words[n] = words[n - 1] \o Spelled(args[n])
      BY <3>1
    <3>3. words[n] = words[k] \o Spelled(args[n])
      BY <3>1, <3>2, Zenon
    <3> QED BY <3>3 DEF n
  <2>b. u \in Seq(Line) /\ k <= Len(u)
    BY <1>4
  <2>c. v \in Seq(Line) /\ Len(v) \in {1, 2}
    BY <1>2, <2>1
  <2>d. Len(u) \in Nat
    BY <2>b
  <2>2. w = u \o v /\ u \in Seq(Line) /\ v \in Seq(Line) /\ Len(v) \in {1, 2} /\ k <= Len(u) /\ Len(u) \in Nat
    BY <2>a, <2>b, <2>c, <2>d
  <2>3. \A j \in 0 .. k : words[j] \in Seq(Line) /\ Agrees(words[j], u)
    BY <1>4
  <2> HIDE DEF u, v, w
  <2>4. w \in Seq(Line) /\ Len(w) = Len(u) + Len(v) /\ Agrees(u, w)
    BY <2>2, JoinAgrees
  <2>5. k + 1 <= Len(w) /\ Agrees(w, w)
    <3>1. k + 1 <= Len(w) /\ Len(w) \in Nat
      <4>1. \A x, z \in Nat : \A y \in {1, 2} : k <= x => k + 1 <= x + y /\ x + y \in Nat
        OBVIOUS
      <4> QED BY <2>2, <2>4, <4>1
    <3> QED BY <3>1 DEF Agrees
  <2>6. ASSUME NEW j \in 0 .. k + 1 PROVE words[j] \in Seq(Line) /\ Agrees(words[j], w)
    <3>1. CASE j \in 0 .. k
      <4>1. words[j] \in Seq(Line) /\ Agrees(words[j], u)
        BY <2>3, <3>1
      <4> DEFINE x == words[j]
      <4> HIDE DEF x
      <4>2. Agrees(x, w)
        BY <2>2, <2>4, <4>1, AgreesOn DEF x
      <4> QED BY <4>1, <4>2 DEF x
    <3>2. CASE j = k + 1
      BY <2>4, <2>5, <3>2 DEF w
    <3> QED BY <2>1, <3>1, <3>2
  <2>7. words[k + 1] \in Seq(Line) /\ k + 1 <= Len(words[k + 1])
    BY <2>4, <2>5 DEF w
  <2> QED BY <2>1, <2>6, <2>7 DEF w
<1>5. 0 .. N \subseteq S
  <2> HIDE DEF N, S
  <2> QED BY <1>1, <1>3, <1>4, UpTo
<1>6. \A k \in 0 .. N : words[k] \in Seq(Line) /\ k <= Len(words[k]) /\ Agrees(words[k], words[N])
  <2>1. N \in S
    <3>1. N \in 0 .. N
      BY <1>1
    <3> HIDE DEF N, S
    <3> QED BY <1>5, <3>1
  <2> QED BY <1>5, <2>1
<1>7. ASSUME NEW k \in 0 .. N PROVE Agrees(words[k], line) /\ Len(words[k]) <= Len(line)
  <2>1. N \in 0 .. N
    BY <1>1
  <2> DEFINE u == words[k]
             v == words[N]
  <2>2. u \in Seq(Line) /\ v \in Seq(Line) /\ Agrees(u, v) /\ Agrees(v, line)
    BY <1>6, <2>1
  <2> HIDE DEF u, v
  <2>3. Agrees(u, line)
    BY <2>2, AgreesOn
  <2>4. Len(u) <= Len(line)
    BY <2>3 DEF Agrees
  <2> QED BY <2>3, <2>4 DEF u
<1>8. ASSUME NEW k \in 0 .. N, k < N
      PROVE  /\ StandsAt(line, Len(words[k]) + 1, args[k + 1])
             /\ Len(words[k + 1]) = Len(words[k]) + Len(Spelled(args[k + 1]))
  <2>1. k + 1 \in 1 .. N /\ k + 1 - 1 = k /\ k + 1 \in 0 .. N
    BY <1>1, <1>8
  <2> DEFINE u == words[k]
             v == Spelled(args[k + 1])
             w == words[k + 1]
  <2>a. w = u \o v
    <3> DEFINE n == k + 1
    <3>1. n \in 1 .. N /\ n - 1 = k
      BY <2>1
    <3> HIDE DEF n
    <3>2. words[n] = words[n - 1] \o Spelled(args[n])
      BY <3>1
    <3>3. words[n] = words[k] \o Spelled(args[n])
      BY <3>1, <3>2, Zenon
    <3> QED BY <3>3 DEF n
  <2>b. u \in Seq(Line) /\ Agrees(w, line)
    BY <1>6, <1>7, <2>1
  <2>c. v \in Seq(Line) /\ Len(v) \in {1, 2}
    BY <1>2, <2>1
  <2>2. w = u \o v /\ u \in Seq(Line) /\ v \in Seq(Line) /\ Len(v) \in {1, 2} /\ Agrees(w, line)
    BY <2>a, <2>b, <2>c
  <2> HIDE DEF u, v, w
  <2>3. /\ w \in Seq(Line) /\ Len(w) = Len(u) + Len(v) /\ Len(u) \in Nat /\ Len(line) \in Nat
        /\ \A i \in 1 .. Len(v) : w[Len(u) + i] = v[i]
    BY <2>2, JoinAgrees
  <2>4. Len(w) <= Len(line) /\ \A i \in 1 .. Len(w) : line[i] = w[i]
    BY <2>2 DEF Agrees
  <2>5. Len(u) + 1 \in 1 .. Len(line) /\ line[Len(u) + 1] = v[1]
    <3>1. 1 \in 1 .. Len(v) /\ Len(u) + 1 \in 1 .. Len(w) /\ Len(u) + 1 \in 1 .. Len(line)
      <4>1. \A x, z, y \in Nat : y \in {1, 2} /\ x + y <= z =>
               1 \in 1 .. y /\ x + 1 \in 1 .. x + y /\ x + 1 \in 1 .. z
        OBVIOUS
      <4>2. Len(v) \in Nat /\ Len(u) + Len(v) <= Len(line)
        BY <2>2, <2>3, <2>4
      <4> QED BY <2>2, <2>3, <4>1, <4>2
    <3>2. w[Len(u) + 1] = v[1]
      BY <2>3, <3>1
    <3> QED BY <2>4, <3>1, <3>2
  <2>6. Len(v) = 2 => Len(u) + 1 + 1 <= Len(line) /\ line[Len(u) + 1 + 1] = v[2]
    <3> SUFFICES ASSUME Len(v) = 2 PROVE Len(u) + 1 + 1 <= Len(line) /\ line[Len(u) + 1 + 1] = v[2]
      OBVIOUS
    <3>1. 2 \in 1 .. Len(v) /\ Len(u) + 2 \in 1 .. Len(w) /\ Len(u) + 1 + 1 = Len(u) + 2 /\ Len(u) + 2 <= Len(line)
      BY <2>2, <2>3, <2>4
    <3>2. w[Len(u) + 2] = v[2]
      BY <2>3, <3>1
    <3> QED BY <2>4, <3>1, <3>2
  <2>7. StandsAt(line, Len(u) + 1, args[k + 1])
    BY <2>5, <2>6 DEF StandsAt, v
  <2>8. Len(w) = Len(u) + Len(Spelled(args[k + 1]))
    BY <2>3 DEF v
  <2> QED BY <2>7, <2>8 DEF u, w
<1> QED BY <1>6, <1>7, <1>8

LEMMA WordsTyped ==
  ASSUME NEW args \in Seq(Argument), NEW words, Joins(words, args)
  PROVE  \A k \in 0 .. Len(args) : words[k] \in Seq(Line)
<1>j. words[0] = <<>> /\ \A n \in 1 .. Len(args) : words[n] = words[n - 1] \o Spelled(args[n])
  BY DEF Joins
<1> DEFINE N == Len(args)
           S == {k \in Nat : words[k] \in Seq(Line)}
<1>1. N \in Nat /\ \A n \in 1 .. N : args[n] \in Argument
  OBVIOUS
<1>2. 0 \in S
  <2>1. <<>> \in Seq(Line) /\ 0 \in Nat
    OBVIOUS
  <2>2. words[0] \in Seq(Line)
    BY <1>j, <2>1, Zenon
  <2> QED BY <2>1, <2>2
<1>3. ASSUME NEW k \in 0 .. N - 1, k \in S PROVE k + 1 \in S
  <2> DEFINE n == k + 1
  <2>1. n \in 1 .. N /\ n - 1 = k /\ n \in Nat
    BY <1>1
  <2> HIDE DEF n
  <2>2. words[n] = words[n - 1] \o Spelled(args[n])
    BY <1>j, <2>1
  <2>3. words[n] = words[k] \o Spelled(args[n])
    BY <2>1, <2>2, Zenon
  <2>4. Spelled(args[n]) \in Seq(Line)
    BY <1>1, <2>1, SpelledIs
  <2> DEFINE u == words[k]
             v == Spelled(args[n])
  <2>5. u \in Seq(Line) /\ v \in Seq(Line) /\ words[n] = u \o v
    BY <1>3, <2>3, <2>4
  <2> HIDE DEF u, v
  <2>6. u \o v \in Seq(Line)
    BY <2>5, JoinAgrees
  <2>7. words[n] \in Seq(Line)
    BY <2>5, <2>6
  <2>8. n \in S
    BY <2>1, <2>7
  <2> QED BY <2>8 DEF n
<1>4. 0 .. N \subseteq S
  <2> HIDE DEF N, S
  <2> QED BY <1>1, <1>2, <1>3, UpTo
<1> QED BY <1>4

(* Once no word is left the loop is over.                                  *)
LEMMA Over ==
  ASSUME NEW line \in Seq(Line), NEW cfg, NEW after, Goes(after, line, cfg),
         NEW m \in 0 .. Len(line), after[m].i > Len(line)
  PROVE  after[Len(line)] = after[m]
<1>g. \A n \in 1 .. Len(line) : after[n] = Onward(line, cfg, after[n - 1])
  BY DEF Goes
<1> DEFINE L == Len(line)
           S == {k \in Nat : m + k <= L => after[m + k] = after[m]}
<1>1. L \in Nat /\ m \in Nat /\ L - m \in Nat /\ m + (L - m) = L
  OBVIOUS
<1>2. 0 \in S
  <2>1. m + 0 = m
    BY <1>1
  <2> QED BY <2>1
<1>3. ASSUME NEW k \in 0 .. L - m - 1, k \in S PROVE k + 1 \in S
  <2>1. m + k <= L /\ m + (k + 1) \in 1 .. L /\ m + (k + 1) - 1 = m + k /\ k + 1 \in Nat
    BY <1>1
  <2>2. after[m + k] = after[m]
    BY <1>3, <2>1
  <2>3. after[m + (k + 1)] = Onward(line, cfg, after[m + k])
    BY <1>g, <2>1
  <2>4. Onward(line, cfg, after[m]) = after[m]
    BY DEF Onward
  <2> QED BY <2>1, <2>2, <2>3, <2>4
<1>4. 0 .. L - m \subseteq S
  <2> HIDE DEF L, S
  <2> QED BY <1>1, <1>2, <1>3, UpTo
<1>5. L - m \in 0 .. L - m
  BY <1>1
<1>6. L - m \in S
  <2> HIDE DEF L, S
  <2> QED BY <1>4, <1>5
<1> QED BY <1>1, <1>6

(* All arguments are read, one in every round.                             *)
LEMMA ArgumentsRead ==
  ASSUME NEW cfg, Configured(cfg), NEW args \in Seq(Argument), \A n \in 1 .. Len(args) : MayBe(cfg, args[n]),
         NEW words, Joins(words, args), NEW meant, Understands(meant, args, cfg),
         NEW line \in Seq(Line), Agrees(words[Len(args)], line), NEW after, Goes(after, line, cfg)
  PROVE  /\ Len(args) <= Len(words[Len(args)]) /\ words[Len(args)] \in Seq(Line)
         /\ after[Len(args)] = [i |-> Len(words[Len(args)]) + 1, r |-> meant[Len(args)]]
         /\ Shaped(meant[Len(args)]) /\ Expects(cfg, meant[Len(args)])
<1> USE DEF Understands, Goes
<1> DEFINE N == Len(args)
           Read(k) == /\ after[k] = [i |-> Len(words[k]) + 1, r |-> meant[k]]
                      /\ Shaped(meant[k]) /\ Expects(cfg, meant[k])
           S == {k \in Nat : Read(k)}
<1>1. N \in Nat /\ \A n \in 1 .. N : args[n] \in Argument
  OBVIOUS
<1>2. \A k \in 0 .. N :
        /\ words[k] \in Seq(Line) /\ k <= Len(words[k]) /\ Len(words[k]) <= Len(line)
        /\ k < N => /\ StandsAt(line, Len(words[k]) + 1, args[k + 1])
                    /\ Len(words[k + 1]) = Len(words[k]) + Len(Spelled(args[k + 1]))
  BY WordsStand
<1>3. Read(0)
  <2>1. Len(words[0]) + 1 = 1
    BY DEF Joins
  <2>2. Shaped(Nothing) /\ Expects(cfg, Nothing)
    BY DEF Shaped, Expects, Nothing
  <2>3. after[0] = [i |-> Len(words[0]) + 1, r |-> meant[0]]
    BY <2>1
  <2> QED BY <2>2, <2>3
<1>4. ASSUME NEW k \in 0 .. N - 1, Read(k) PROVE Read(k + 1)
  <2> DEFINE a == args[k + 1]
             r == meant[k]
             i == Len(words[k]) + 1
             n == k + 1
  <2>1. n \in 1 .. N /\ n - 1 = k /\ k \in 0 .. N /\ k < N /\ n \in 0 .. N
    BY <1>1
  <2>2. a \in Argument /\ MayBe(cfg, a)
    BY <1>1, <2>1
  <2>3. /\ StandsAt(line, i, a) /\ Len(words[n]) = Len(words[k]) + Len(Spelled(a))
        /\ Len(words[n]) <= Len(line) /\ n <= Len(words[n]) /\ Len(words[k]) \in Nat
        /\ Len(words[n]) \in Nat /\ Len(line) \in Nat
    <3>1. words[k] \in Seq(Line) /\ words[n] \in Seq(Line)
      BY <1>2, <2>1
    <3>2. \A w \in Seq(Line) : Len(w) \in Nat
      OBVIOUS
    <3> QED BY <1>2, <2>1, <3>1, <3>2
  <2>4. Shaped(r) /\ Expects(cfg, r) /\ after[k] = [i |-> i, r |-> r]
    BY <1>4
  <2>5. meant[n] = Understood(cfg, r, a)
    <3> HIDE DEF n
    <3>1. meant[n] = Understood(cfg, meant[n - 1], args[n])
      BY <2>1
    <3>2. meant[n] = Understood(cfg, meant[k], args[n])
      BY <2>1, <3>1, Zenon
    <3> QED BY <3>2 DEF n
  <2>6. after[n] = Onward(line, cfg, after[k])
    <3> HIDE DEF n
    <3>1. n \in 1 .. Len(line)
      <4>1. \A x, y, z \in Nat : x >= 1 /\ x <= y /\ y <= z => x \in 1 .. z
        OBVIOUS
      <4>2. n \in Nat /\ n >= 1
        BY <1>1, <2>1
      <4> QED BY <2>3, <4>1, <4>2
    <3>2. after[n] = Onward(line, cfg, after[n - 1])
      BY <3>1
    <3> QED BY <2>1, <3>2, Zenon
  <2>s. Len(Spelled(a)) \in {1, 2}
    BY <2>2, SpelledIs
  <2> HIDE DEF a, r, n
  <2>7. i <= Len(line) /\ i + Len(Spelled(a)) = Len(words[n]) + 1
    <3>1. \A x, y, z \in Nat : \A l \in {1, 2} : y = x + l /\ y <= z => x + 1 <= z /\ x + 1 + l = y + 1
      OBVIOUS
    <3> DEFINE l == Len(Spelled(a))
               x == Len(words[k])
               y == Len(words[n])
               z == Len(line)
    <3>2. x \in Nat /\ y \in Nat /\ z \in Nat /\ l \in {1, 2} /\ y = x + l /\ y <= z /\ i = x + 1
      BY <2>3, <2>s
    <3> HIDE DEF l, x, y, z, i
    <3>3. x + 1 <= z /\ x + 1 + l = y + 1
      BY <3>1, <3>2
    <3>4. i <= z /\ i + l = y + 1
      BY <3>2, <3>3
    <3> QED BY <3>4 DEF l, y, z
  <2> DEFINE s == [i |-> i, r |-> r]
  <2>8. ReadAt(line, i, cfg, r, a)
    <3> HIDE DEF i
    <3> QED BY <2>2, <2>3, <2>4, ReadsArgument
  <2>9. Round(line, cfg, s) = [i |-> Len(words[n]) + 1, r |-> meant[n]]
    BY <2>5, <2>7, <2>8 DEF ReadAt
  <2>10. Onward(line, cfg, s) = Round(line, cfg, s)
    <3>1. s.i = i
      OBVIOUS
    <3>2. ~(i > Len(line))
      BY <2>3, <2>7
    <3> HIDE DEF s, i
    <3> QED BY <3>1, <3>2 DEF Onward
  <2>11. after[n] = [i |-> Len(words[n]) + 1, r |-> meant[n]]
    BY <2>4, <2>6, <2>9, <2>10
  <2>12. Shaped(meant[n]) /\ Expects(cfg, meant[n])
    BY <2>2, <2>4, <2>5, UnderstoodKeeps
  <2> QED BY <2>11, <2>12 DEF n
<1>5. N \in S
  <2>1. 0 \in S
    BY <1>3
  <2>2. ASSUME NEW k \in 0 .. N - 1, k \in S PROVE k + 1 \in S
    <3>1. k + 1 \in Nat /\ Read(k)
      BY <1>1, <2>2
    <3>2. Read(k + 1)
      BY <1>4, <3>1
    <3> HIDE DEF Read
    <3> QED BY <3>1, <3>2
  <2>3. N \in 0 .. N
    BY <1>1
  <2> HIDE DEF N, S
  <2>4. 0 .. N \subseteq S
    BY <1>1, <2>1, <2>2, UpTo
  <2> QED BY <2>3, <2>4
<1>6. Read(N) /\ words[N] \in Seq(Line) /\ N <= Len(words[N])
  <2>1. N \in 0 .. N
    BY <1>1
  <2> HIDE DEF Read
  <2> QED BY <1>2, <1>5, <2>1
<1> QED BY <1>6

LEMMA GroupedWords == \A x, y, z \in Seq(Line) : (x \o y) \o z = x \o (y \o z)
  BY ConcatAssociative

(* What stands behind the arguments.                                       *)
TakesRest(line, cfg, u, r, rest) ==
  /\ line \in Seq(Line) /\ Agrees(u, line) /\ Len(u) + 1 <= Len(line)
  /\ Onward(line, cfg, [i |-> Len(u) + 1, r |-> r]) = [i |-> Len(line) + 1, r |-> [r EXCEPT !.pos = r.pos \o rest]]
MarkedOff(u, rest) == u \o <<<<Dash, Dash>>>> \o rest

LEMMA EndRead ==
  ASSUME NEW cfg, NEW r, Expects(cfg, r), NEW u \in Seq(Line), NEW rest \in Seq(Line)
  PROVE  TakesRest(MarkedOff(u, rest), cfg, u, r, rest)
<1> DEFINE line == MarkedOff(u, rest)
           d == <<Dash, Dash>>
           e == <<d>>
           v == u \o e
           n == Len(u) + 1
           s == [i |-> n, r |-> r]
<1>1. d \in Line /\ e \in Seq(Line) /\ Len(e) = 1 /\ e[1] = d
  <2>1. Dash \in Char
    BY Chars1
  <2>2. \A S : \A c \in S : <<c, c>> \in Seq(S) /\ <<c>> \in Seq(S) /\ Len(<<c>>) = 1
    OBVIOUS
  <2>3. d \in Line
    BY <2>1, <2>2 DEF Line
  <2> HIDE DEF d
  <2> QED BY <2>2, <2>3
<1>d. d = <<Dash, Dash>>
  OBVIOUS
<1>v. line = v \o rest
  BY DEF MarkedOff
<1> HIDE DEF d, e, line
<1>2. v \in Seq(Line) /\ Len(v) = n /\ Agrees(u, v) /\ v[n] = d /\ n \in Nat /\ n >= 1
  <2>1. /\ u \o e \in Seq(Line) /\ Len(u \o e) = Len(u) + Len(e) /\ Agrees(u, u \o e)
        /\ \A i \in 1 .. Len(e) : (u \o e)[Len(u) + i] = e[i]
    BY <1>1, JoinAgrees
  <2>2. 1 \in 1 .. Len(e) /\ Len(u) \in Nat
    BY <1>1
  <2> QED BY <1>1, <2>1, <2>2
<1> HIDE DEF v
<1>3. line \in Seq(Line) /\ Len(line) = Len(v) + Len(rest) /\ Agrees(v, line) /\ Len(rest) \in Nat
  <2>1. v \o rest \in Seq(Line) /\ Len(v \o rest) = Len(v) + Len(rest) /\ Agrees(v, v \o rest)
    BY <1>2, JoinAgrees
  <2>2. Len(rest) \in Nat
    OBVIOUS
  <2> DEFINE x == v \o rest
  <2>3. line = x
    BY <1>v
  <2> HIDE DEF x
  <2>4. x \in Seq(Line) /\ Len(x) = Len(v) + Len(rest) /\ Agrees(v, x)
    BY <2>1 DEF x
  <2> QED BY <2>2, <2>3, <2>4
<1>4. Agrees(u, line)
  BY <1>2, <1>3, AgreesOn
<1>5. n <= Len(line) /\ line[n] = d
  BY <1>2, <1>3 DEF Agrees
<1>6. Behind(line, n) = rest
  <2>1. Behind(v \o rest, Len(v)) = rest
    BY <1>2, Cut
  <2> QED BY <1>2, <1>v, <2>1
<1>7. Class(cfg, r, d) = "end"
  BY <1>1, <1>d, Classes DEF Expects
<1>8. s.i = n /\ s.r = r
  OBVIOUS
<1>9. ~(n > Len(line))
  BY <1>2, <1>3, <1>5
<1> HIDE DEF s, n
<1>10. Onward(line, cfg, s) = [i |-> Len(line) + 1, r |-> [r EXCEPT !.pos = r.pos \o rest]]
  BY <1>5, <1>6, <1>7, <1>8, <1>9 DEF Onward, Round
<1> QED BY <1>3, <1>4, <1>5, <1>10 DEF s, n, line, TakesRest

LEMMA FirstBehind ==
  ASSUME NEW u \in Seq(Line), NEW rest \in Seq(Line), rest # <<>>
  PROVE  /\ Tail(rest) \in Seq(Line) /\ <<rest[1]>> \o Tail(rest) = rest
         /\ Behind(u \o rest, Len(u) + 1) = Tail(rest)
<1> DEFINE w == rest[1]
           t == Tail(rest)
           x == <<w>>
           y == x \o t
           v == u \o x
<1>1. w \in Line /\ Len(rest) \in Nat /\ Len(rest) >= 1 /\ Len(u) \in Nat
  OBVIOUS
<1>2. t \in Seq(Line) /\ Len(t) = Len(rest) - 1 /\ \A i \in 1 .. Len(t) : t[i] = rest[i + 1]
  BY HeadTailProperties
<1> HIDE DEF t
<1>3. y \in Seq(Line) /\ Len(y) = Len(t) + 1 /\ y[1] = w /\ \A i \in 1 .. Len(t) : y[i + 1] = t[i]
  BY <1>1, <1>2, Fronted
<1>x. x \in Seq(Line) /\ Len(x) = 1
  BY <1>1
<1> HIDE DEF y
<1>4. Len(y) = Len(rest)
  BY <1>1, <1>2, <1>3
<1>5. ASSUME NEW i \in 1 .. Len(y) PROVE y[i] = rest[i]
  <2>1. CASE i = 1
    BY <1>3, <2>1
  <2>2. CASE i # 1
    <3>1. i - 1 \in 1 .. Len(t) /\ i - 1 + 1 = i
      BY <1>1, <1>2, <1>4, <2>2
    <3>2. y[i - 1 + 1] = t[i - 1] /\ t[i - 1] = rest[i - 1 + 1]
      BY <1>2, <1>3, <3>1
    <3> QED BY <3>1, <3>2
  <2> QED BY <2>1, <2>2
<1>6. y = rest
  BY <1>3, <1>4, <1>5, SeqEqual
<1> HIDE DEF x
<1>7. v \in Seq(Line) /\ Len(v) = Len(u) + 1
  <2>1. u \o x \in Seq(Line) /\ Len(u \o x) = Len(u) + Len(x)
    BY <1>x, JoinAgrees
  <2> QED BY <1>1, <1>x, <2>1
<1>8. v \o t = u \o (x \o t)
  BY <1>2, <1>x, GroupedWords
<1>9. v \o t = u \o rest
  BY <1>6, <1>8, Zenon DEF y
<1> HIDE DEF v
<1>10. Behind(v \o t, Len(v)) = t
  BY <1>2, <1>7, Cut
<1> QED BY <1>2, <1>6, <1>7, <1>9, <1>10 DEF x, y, t

LEMMA OperandsRead ==
  ASSUME NEW cfg, NEW r, Shaped(r), Expects(cfg, r), NEW u \in Seq(Line), NEW rest \in Seq(Line),
         rest # <<>>, ~cfg.permute, Plain(cfg, rest[1]), rest[1] # <<Dash>>
  PROVE  TakesRest(u \o rest, cfg, u, r, rest)
<1> DEFINE line == u \o rest
           n == Len(u) + 1
           w == rest[1]
           t == Tail(rest)
           s == [i |-> n, r |-> r]
<1>1. Len(rest) \in Nat /\ Len(rest) >= 1 /\ w \in Line /\ Len(u) \in Nat
  OBVIOUS
<1>3. /\ line \in Seq(Line) /\ Len(line) = Len(u) + Len(rest) /\ Agrees(u, line)
      /\ \A i \in 1 .. Len(rest) : line[Len(u) + i] = rest[i]
  BY JoinAgrees
<1>4. n <= Len(line) /\ line[n] = w /\ n \in 0 .. Len(line) /\ ~(n > Len(line))
  <2>1. 1 \in 1 .. Len(rest)
    BY <1>1
  <2> QED BY <1>1, <1>3, <2>1
<1>5. t \in Seq(Line) /\ <<w>> \o t = rest /\ Behind(line, n) = t
  BY FirstBehind
<1>6. r.pos \o <<w>> \o t = r.pos \o rest
  <2> DEFINE x == <<w>>
             p == r.pos
  <2>1. x \in Seq(Line) /\ p \in Seq(Line)
    BY <1>1 DEF Shaped
  <2>2. x \o t = rest
    BY <1>5
  <2> HIDE DEF x, p, t
  <2>3. (p \o x) \o t = p \o (x \o t)
    <3>1. t \in Seq(Line)
      BY <1>5
    <3> QED BY <2>1, <3>1, GroupedWords, ZenonT(30)
  <2>4. (p \o x) \o t = p \o rest
    BY <2>2, <2>3, Zenon
  <2> QED BY <2>4 DEF p, x
<1>7. Class(cfg, r, w) = "operands"
  <2> HIDE DEF w
  <2>1. Plain(cfg, w) /\ w # <<Dash>>
    BY DEF w
  <2> QED BY <1>1, <2>1, Classes DEF Expects
<1>8. s.i = n /\ s.r = r
  OBVIOUS
<1> HIDE DEF s, n, w, t, line
<1>9. Onward(line, cfg, s) = [i |-> Len(line) + 1, r |-> [r EXCEPT !.pos = r.pos \o <<w>> \o t]]
  BY <1>4, <1>5, <1>7, <1>8 DEF Onward, Round
<1> QED BY <1>3, <1>4, <1>6, <1>9 DEF s, n, line, TakesRest

(* However the arguments are spelled and wherever they stand, args.parse   *)
(* reads a command line of any length as it is meant.                      *)
THEOREM ArgumentsReadAsMeant ==
  ASSUME NEW args \in Seq(Argument), NEW marked \in BOOLEAN, NEW rest \in Seq(Word), NEW cfg, Configured(cfg)
  PROVE  ReadAsMeant(args, marked, rest, cfg)
<1> DEFINE mark == IF marked THEN <<<<Dash, Dash>>>> ELSE <<>>
           line == Words(args) \o mark \o rest
           m    == Meaning(cfg, args)
           N    == Len(args)
           W    == Words(args)
           whole == [m EXCEPT !.pos = m.pos \o rest]
<1> SUFFICES ASSUME \A i \in DOMAIN args : MayBe(cfg, args[i]),
                    IF cfg.permute \/ marked \/ rest = <<>> THEN TRUE ELSE Plain(cfg, rest[1]) /\ rest[1] # <<Dash>>,
                    cfg.permute /\ ~marked => rest = <<>>
             PROVE  DoParse(line, cfg) = whole
  BY DEF ReadAsMeant
<1>1. N \in Nat /\ \A n \in 1 .. Len(args) : MayBe(cfg, args[n])
  OBVIOUS
<1>2. rest \in Seq(Line)
  BY Chars1, SeqMonotonic
<1>3. PICK words : Joins(words, args) /\ W = words[Len(args)]
  BY WordsAre
<1>4. PICK meant : Understands(meant, args, cfg) /\ m = meant[Len(args)]
  BY MeaningIs
<1> HIDE DEF m, W
<1>5. \A w \in Seq(Line) : Agrees(w, w) /\ w \o <<>> = w
  BY ConcatEmptySeq DEF Agrees
<1>6. W \in Seq(Line) /\ Len(W) \in Nat
  <2>1. \A k \in 0 .. Len(args) : words[k] \in Seq(Line)
    BY <1>3, WordsTyped
  <2>2. Len(args) \in 0 .. Len(args)
    BY <1>1
  <2>3. W \in Seq(Line)
    BY <1>3, <2>1, <2>2
  <2> QED BY <2>3
<1>7. ASSUME NEW all \in Seq(Line), Agrees(W, all)
      PROVE  \E after : /\ Goes(after, all, cfg) /\ DoParse(all, cfg) = after[Len(all)].r
                        /\ N <= Len(W) /\ after[N] = [i |-> Len(W) + 1, r |-> m]
                        /\ Shaped(m) /\ Expects(cfg, m)
  <2>1. PICK after : Goes(after, all, cfg) /\ DoParse(all, cfg) = after[Len(all)].r
    BY ParseIs
  <2>2. Agrees(words[Len(args)], all)
    BY <1>3, <1>7
  <2>3. /\ Len(args) <= Len(words[Len(args)]) /\ words[Len(args)] \in Seq(Line)
        /\ after[Len(args)] = [i |-> Len(words[Len(args)]) + 1, r |-> meant[Len(args)]]
        /\ Shaped(meant[Len(args)]) /\ Expects(cfg, meant[Len(args)])
    <3> HIDE DEF N
    <3> QED BY <1>1, <1>3, <1>4, <2>1, <2>2, ArgumentsRead
  <2>4. N <= Len(W) /\ after[N] = [i |-> Len(W) + 1, r |-> m] /\ Shaped(m) /\ Expects(cfg, m)
    BY <1>3, <1>4, <2>3
  <2> QED BY <2>1, <2>4
<1>8. Shaped(m) /\ Expects(cfg, m) /\ N <= Len(W)
  BY <1>5, <1>6, <1>7
<1> HIDE DEF N, line
<1>9. ASSUME NEW all, TakesRest(all, cfg, W, m, rest)
      PROVE  DoParse(all, cfg) = whole
  <2> DEFINE end == [i |-> Len(all) + 1, r |-> whole]
             at  == [i |-> Len(W) + 1, r |-> m]
             k   == N + 1
  <2>t. all \in Seq(Line) /\ Agrees(W, all) /\ Len(W) + 1 <= Len(all) /\ Onward(all, cfg, at) = end
    BY <1>9 DEF TakesRest
  <2>1. PICK after : Goes(after, all, cfg) /\ DoParse(all, cfg) = after[Len(all)].r /\ after[N] = at
    BY <1>7, <2>t
  <2>l. Len(all) \in Nat
    BY <2>t
  <2>2. k \in 1 .. Len(all) /\ k - 1 = N /\ k \in 0 .. Len(all) /\ Len(all) + 1 > Len(all)
    <3>1. \A x, y, z \in Nat : x <= y /\ y + 1 <= z => /\ x + 1 \in 1 .. z /\ x + 1 - 1 = x /\ x + 1 \in 0 .. z
                                                       /\ z + 1 > z
      OBVIOUS
    <3> QED BY <1>1, <1>6, <1>8, <2>l, <2>t, <3>1
  <2> HIDE DEF k, end, at
  <2>3. after[k] = end
    <3>1. after[k] = Onward(all, cfg, after[k - 1])
      BY <2>1, <2>2 DEF Goes
    <3>2. after[k] = Onward(all, cfg, at)
      BY <2>1, <2>2, <3>1, Zenon
    <3> QED BY <2>t, <3>2
  <2>4. end.i > Len(all) /\ end.r = whole
    BY <2>2 DEF end
  <2> HIDE DEF whole
  <2>5. after[k].i > Len(all) /\ after[k].r = whole
    BY <2>3, <2>4
  <2>6. after[Len(all)] = after[k]
    BY <2>t, <2>1, <2>2, <2>5, Over
  <2> QED BY <2>1, <2>5, <2>6
<1>10. CASE marked
  <2>1. line = MarkedOff(W, rest)
    BY <1>10 DEF MarkedOff, W, line
  <2>2. TakesRest(MarkedOff(W, rest), cfg, W, m, rest)
    BY <1>2, <1>6, <1>8, EndRead
  <2> HIDE DEF whole
  <2>3. TakesRest(line, cfg, W, m, rest)
    BY <2>1, <2>2, Zenon
  <2> QED BY <1>9, <2>3
<1>11. ASSUME ~marked PROVE line = W \o rest
  <2>1. line = (W \o <<>>) \o rest
    BY <1>11 DEF W, line
  <2>2. W \o <<>> = W
    BY <1>5, <1>6
  <2> QED BY <2>1, <2>2, Zenon
<1>12. CASE ~marked /\ rest = <<>>
  <2>1. line = W
    BY <1>5, <1>6, <1>11, <1>12
  <2>2. DoParse(W, cfg) = m
    <3> DEFINE at == [i |-> Len(W) + 1, r |-> m]
    <3>1. PICK after : Goes(after, W, cfg) /\ DoParse(W, cfg) = after[Len(W)].r /\ after[N] = at
      BY <1>5, <1>6, <1>7
    <3>2. N \in 0 .. Len(W) /\ Len(W) + 1 > Len(W)
      BY <1>1, <1>6, <1>8
    <3>3. at.i > Len(W) /\ at.r = m
      BY <3>2
    <3> HIDE DEF at
    <3>4. after[N].i > Len(W) /\ after[N].r = m
      BY <3>1, <3>3
    <3>5. after[Len(W)] = after[N]
      BY <1>6, <3>1, <3>2, <3>4, Over
    <3> QED BY <3>1, <3>4, <3>5
  <2>3. whole = m
    <3>1. m.pos \o rest = m.pos
      BY <1>5, <1>8, <1>12 DEF Shaped
    <3> QED BY <1>8, <3>1 DEF Shaped
  <2> QED BY <2>1, <2>2, <2>3
<1>13. CASE ~marked /\ rest # <<>>
  <2>1. line = W \o rest
    BY <1>11, <1>13
  <2>2. ~cfg.permute /\ Plain(cfg, rest[1]) /\ rest[1] # <<Dash>>
    BY <1>13
  <2>3. TakesRest(W \o rest, cfg, W, m, rest)
    BY <1>2, <1>6, <1>8, <1>13, <2>2, OperandsRead
  <2> HIDE DEF whole
  <2>4. TakesRest(line, cfg, W, m, rest)
    BY <2>1, <2>3, Zenon
  <2> QED BY <1>9, <2>4
<1> QED BY <1>10, <1>12, <1>13

(* ArgsAsMeant holds for all that may be asked.                            *)
THEOREM ArgumentsAsMeant == WellAsked => ArgsAsMeant
<1> SUFFICES ASSUME WellAsked, Asks("args") PROVE ReadAsMeant(question[1], question[2], question[3], question[4])
  BY DEF ArgsAsMeant
<1>1. /\ question[1] \in Seq(Argument) /\ question[2] \in BOOLEAN
      /\ question[3] \in Seq(Word) /\ Configured(question[4])
  BY DEF WellAsked
<1> QED BY <1>1, ArgumentsReadAsMeant
-----------------------------------------------------------------------------
(* Columns.  Layout, a line, its blanks and its positions are recursive    *)
(* functions: Defined says that such a function has the values it is       *)
(* defined by.                                                             *)
(* A function that is defined by what it has at nought and by steps.       *)
Follows(f, N, first, step) == f = [n \in 0 .. N |-> IF n = 0 THEN first ELSE step[n][f[n - 1]]]

LEMMA Defined ==
  ASSUME NEW N \in Nat, NEW S, NEW first \in S, NEW step, \A n \in 1 .. N : \A s \in S : step[n][s] \in S
  PROVE  \E f \in [0 .. N -> S] : Follows(f, N, first, step)
<1> DEFINE Def(f, m) == f \in [0 .. m -> S] /\ f = [n \in 0 .. m |-> IF n = 0 THEN first ELSE step[n][f[n - 1]]]
           Good      == {m \in Nat : \E f : Def(f, m)}
<1>1. 0 \in Good
  <2> DEFINE f == [n \in 0 .. 0 |-> first]
  <2>1. \A n \in 0 .. 0 : n = 0
    OBVIOUS
  <2>2. Def(f, 0)
    BY <2>1
  <2> HIDE DEF f
  <2> QED BY <2>2
<1>2. ASSUME NEW m \in 0 .. N - 1, m \in Good PROVE m + 1 \in Good
  <2>1. PICK f : Def(f, m)
    BY <1>2
  <2> DEFINE g == [n \in 0 .. m + 1 |-> IF n \in 0 .. m THEN f[n] ELSE step[m + 1][f[m]]]
  <2>2. ASSUME NEW n \in 0 .. m + 1
        PROVE  g[n] \in S /\ g[n] = IF n = 0 THEN first ELSE step[n][g[n - 1]]
    <3>1. CASE n = 0
      <4>1. 0 \in 0 .. m /\ n \in 0 .. m /\ g[n] = f[n]
        BY <3>1
      <4>2. f[0] = first /\ f[0] \in S
        BY <2>1, <4>1
      <4> QED BY <3>1, <4>1, <4>2
    <3>2. CASE n \in 1 .. m
      <4>1. n \in 0 .. m /\ n - 1 \in 0 .. m /\ n # 0 /\ n - 1 \in 0 .. m + 1
        BY <3>2
      <4>2. g[n] = f[n] /\ g[n - 1] = f[n - 1]
        BY <4>1
      <4>3. f[n] \in S /\ f[n] = step[n][f[n - 1]]
        BY <2>1, <4>1
      <4> HIDE DEF g
      <4> QED BY <4>1, <4>2, <4>3
    <3>3. CASE n = m + 1
      <4>1. n \notin 0 .. m /\ n - 1 = m /\ m \in 0 .. m /\ m \in 0 .. m + 1 /\ n # 0 /\ m + 1 \in 1 .. N
        BY <3>3
      <4>2. g[n] = step[m + 1][f[m]] /\ g[m] = f[m]
        BY <3>3, <4>1
      <4>3. f[m] \in S
        BY <2>1, <4>1
      <4>4. step[m + 1][f[m]] \in S
        BY <4>1, <4>3
      <4> HIDE DEF g
      <4> QED BY <3>3, <4>1, <4>2, <4>4
    <3> QED BY <3>1, <3>2, <3>3
  <2>3. g = [n \in 0 .. m + 1 |-> g[n]]
    OBVIOUS
  <2> HIDE DEF g
  <2>4. Def(g, m + 1)
    BY <2>2, <2>3
  <2>5. m + 1 \in Nat
    OBVIOUS
  <2> HIDE DEF Def
  <2> QED BY <2>4, <2>5
<1>3. N \in Good
  <2> HIDE DEF Good
  <2>1. 0 .. N \subseteq Good
    BY <1>1, <1>2, UpTo
  <2> QED BY <2>1
<1> QED BY <1>3 DEF Follows

(* Division, of what is a multiple and a rest; and rounded up.             *)
LEMMA DivisionIs ==
  ASSUME NEW x \in Nat, NEW d \in Nat \ {0}
  PROVE  x = d * (x \div d) + (x % d) /\ x % d \in 0 .. d - 1 /\ x \div d \in Nat
OBVIOUS

LEMMA TimesGrow == \A d, q, p \in Nat : q < p => d * q + d <= d * p
OBVIOUS

LEMMA TimesNat == \A d, q \in Nat : d * q \in Nat
OBVIOUS

LEMMA QuotientOf ==
  ASSUME NEW d \in Nat \ {0}, NEW q \in Nat, NEW m \in 0 .. d - 1, NEW x, x = d * q + m
  PROVE  x \div d = q /\ x % d = m
<1>1. d \in Int /\ d > 0 /\ q \in Int /\ m \in Int /\ m >= 0 /\ m < d
  OBVIOUS
<1>2. x \in Int
  BY <1>1
<1> QED BY <1>1, <1>2

LEMMA UpIs ==
  ASSUME NEW n \in Nat \ {0}, NEW d \in Nat \ {0}
  PROVE  /\ Up(n, d) \in Nat \ {0} /\ Up(n, d) <= n
         /\ n <= d * Up(n, d) /\ d * Up(n, d) <= n + d - 1
         /\ (n + d - 1) \div d = Up(n, d)
<1> DEFINE q == n \div d
           m == n % d
<1>1. n = d * q + m /\ m \in 0 .. d - 1 /\ q \in Nat
  BY DivisionIs
<1>2. Up(n, d) = q + (IF m = 0 THEN 0 ELSE 1)
  BY DEF Up
<1> HIDE DEF q, m
<1>3. d \in Nat /\ d >= 1 /\ n \in Nat /\ n >= 1 /\ d * q \in Nat
  BY <1>1, TimesNat
<1>4. \A a, b \in Nat : a >= 1 => b <= a * b
  OBVIOUS
<1>5. q <= d * q
  BY <1>1, <1>3, <1>4
<1>6. CASE m = 0
  <2>1. Up(n, d) = q /\ d * q = n
    BY <1>1, <1>2, <1>3, <1>6
  <2>2. q # 0
    <3>1. \A a \in Nat : a * 0 = 0
      OBVIOUS
    <3> QED BY <1>3, <2>1, <3>1
  <2>3. d - 1 \in 0 .. d - 1 /\ n + d - 1 = d * q + (d - 1)
    BY <1>3, <2>1
  <2>4. (n + d - 1) \div d = q
    BY <1>1, <2>3, QuotientOf
  <2>5. n <= n + d - 1 /\ n <= n
    BY <1>3
  <2> QED BY <1>1, <1>5, <2>1, <2>2, <2>4, <2>5
<1>7. CASE m # 0
  <2>1. Up(n, d) = q + 1 /\ m >= 1
    BY <1>1, <1>2, <1>7
  <2>2. \A a, b \in Nat : a * (b + 1) = a * b + a
    OBVIOUS
  <2>3. d * (q + 1) = d * q + d
    BY <1>1, <1>3, <2>2
  <2>4. /\ m - 1 \in 0 .. d - 1 /\ q + 1 \in Nat /\ n + d - 1 = (d * q + d) + (m - 1)
        /\ n <= d * q + d /\ d * q + d <= n + d - 1 /\ q + 1 <= n
    BY <1>1, <1>3, <1>5, <2>1
  <2>5. n + d - 1 = d * (q + 1) + (m - 1)
    BY <2>3, <2>4
  <2>6. (n + d - 1) \div d = q + 1
    <3> DEFINE i == m - 1
               p == q + 1
               x == n + d - 1
    <3>1. i \in 0 .. d - 1 /\ p \in Nat /\ x = d * p + i
      BY <2>4, <2>5
    <3> HIDE DEF i, p, x
    <3>2. x \div d = p
      BY <3>1, QuotientOf
    <3> QED BY <3>2 DEF p, x
  <2> QED BY <1>1, <2>1, <2>3, <2>4, <2>6
<1> QED BY <1>6, <1>7

(* The sum of the first widths.                                            *)
LEMMA SumIs ==
  ASSUME NEW widths \in Seq(Nat)
  PROVE  /\ Sum(widths, 0) = 0
         /\ \A n \in 0 .. Len(widths) : Sum(widths, n) \in Nat
         /\ \A n \in 1 .. Len(widths) : Sum(widths, n) = Sum(widths, n - 1) + widths[n]
<1> DEFINE N    == Len(widths)
           step == [n \in 1 .. N |-> [s \in Nat |-> s + widths[n]]]
           Def(f) == f = [c \in 0 .. N |-> IF c = 0 THEN 0 ELSE f[c - 1] + widths[c]]
           h    == CHOOSE f : Def(f)
<1>1. N \in Nat /\ \A n \in 1 .. N : widths[n] \in Nat
  OBVIOUS
<1>2. \A n \in 1 .. N : \A s \in Nat : step[n][s] = s + widths[n] /\ step[n][s] \in Nat
  BY <1>1
<1>3. PICK f \in [0 .. N -> Nat] : Follows(f, N, 0, step)
  <2>1. 0 \in Nat
    OBVIOUS
  <2> HIDE DEF step, N
  <2> QED BY <1>1, <1>2, <2>1, Defined
<1>4. \A n \in 0 .. N : f[n] = IF n = 0 THEN 0 ELSE f[n - 1] + widths[n]
  <2>1. \A n \in 0 .. N : n # 0 => n \in 1 .. N /\ n - 1 \in 0 .. N
    BY <1>1
  <2> HIDE DEF step
  <2> QED BY <1>2, <1>3, <2>1 DEF Follows
<1>5. Def(f)
  BY <1>3, <1>4 DEF Follows
<1>6. Def(h)
  <2> HIDE DEF Def
  <2> QED BY <1>5
<1>7. \A n : Sum(widths, n) = h[n]
  BY DEF Sum
<1> HIDE DEF h
<1>8. \A n \in 0 .. N : h[n] = IF n = 0 THEN 0 ELSE h[n - 1] + widths[n]
  BY <1>6
<1>9. h[0] = 0 /\ \A n \in 1 .. N : h[n] = h[n - 1] + widths[n]
  <2>1. 0 \in 0 .. N /\ \A n \in 1 .. N : n \in 0 .. N /\ n # 0
    BY <1>1
  <2> QED BY <1>8, <2>1
<1>10. \A n \in 0 .. N : h[n] \in Nat
  <2> DEFINE G == {n \in 0 .. N : h[n] \in Nat}
  <2>1. 0 \in G
    BY <1>1, <1>9
  <2>2. \A n \in 0 .. N - 1 : n \in G => n + 1 \in G
    <3>1. \A n \in 0 .. N - 1 : n + 1 \in 1 .. N /\ n + 1 \in 0 .. N /\ n + 1 - 1 = n
      BY <1>1
    <3> QED BY <1>1, <1>9, <3>1
  <2> HIDE DEF G
  <2>3. 0 .. N \subseteq G
    BY <1>1, <2>1, <2>2, UpTo
  <2> QED BY <2>3 DEF G
<1> QED BY <1>7, <1>9, <1>10

LEMMA SumGrows ==
  ASSUME NEW widths \in Seq(Nat), NEW i \in 0 .. Len(widths), NEW j \in i .. Len(widths)
  PROVE  Sum(widths, i) <= Sum(widths, j)
<1> DEFINE N == Len(widths)
           S(n) == Sum(widths, n)
           G == {n \in 0 .. N - i : S(i) <= S(i + n)}
<1>1. N \in Nat /\ i \in 0 .. N /\ j \in i .. N /\ \A n \in 1 .. N : widths[n] \in Nat
  OBVIOUS
<1>2. (\A n \in 0 .. N : S(n) \in Nat) /\ \A n \in 1 .. N : S(n) = S(n - 1) + widths[n]
  BY SumIs
<1> HIDE DEF N, S
<1>3. 0 \in G
  BY <1>1, <1>2
<1>4. ASSUME NEW n \in 0 .. (N - i) - 1, n \in G PROVE n + 1 \in G
  <2>1. i + n \in 0 .. N /\ i + n + 1 \in 1 .. N /\ i + n + 1 - 1 = i + n /\ n + 1 \in 0 .. N - i /\ i + (n + 1) = i + n + 1
    BY <1>1
  <2>2. S(i + n + 1) = S(i + n) + widths[i + n + 1] /\ widths[i + n + 1] \in Nat /\ S(i + n) \in Nat /\ S(i) \in Nat
    BY <1>1, <1>2, <2>1
  <2>3. S(i) <= S(i + n)
    BY <1>4
  <2>4. S(i) <= S(i + n + 1)
    BY <2>2, <2>3
  <2> QED BY <2>1, <2>4
<1>5. N - i \in Nat /\ j - i \in 0 .. N - i /\ i + (j - i) = j
  BY <1>1
<1> HIDE DEF G
<1>6. 0 .. N - i \subseteq G
  BY <1>3, <1>4, <1>5, UpTo
<1>7. j - i \in G
  BY <1>5, <1>6
<1> QED BY <1>5, <1>7 DEF G, S

(* A width that is raised raises the sums it is in.                        *)
LEMMA SumRaised ==
  ASSUME NEW widths \in Seq(Nat), NEW c \in 1 .. Len(widths), NEW more \in Nat,
         NEW v, v = [widths EXCEPT ![c] = widths[c] + more]
  PROVE  v \in Seq(Nat) /\ Len(v) = Len(widths) /\ Sum(v, Len(v)) = Sum(widths, Len(widths)) + more
<1> DEFINE N == Len(widths)
           S(n) == Sum(widths, n)
           T(n) == Sum(v, n)
           G == {n \in 0 .. N : (n < c => T(n) = S(n)) /\ (~(n < c) => T(n) = S(n) + more)}
<1>1. N \in Nat /\ c \in 1 .. N /\ \A n \in 1 .. N : widths[n] \in Nat
  OBVIOUS
<1>2. widths[c] + more \in Nat
  BY <1>1
<1>3. v \in Seq(Nat) /\ Len(v) = N /\ \A n \in 1 .. N : v[n] = IF n = c THEN widths[n] + more ELSE widths[n]
  BY <1>1, <1>2, ExceptSeq
<1>4. /\ S(0) = 0 /\ (\A n \in 0 .. N : S(n) \in Nat) /\ \A n \in 1 .. N : S(n) = S(n - 1) + widths[n]
      /\ T(0) = 0 /\ (\A n \in 0 .. N : T(n) \in Nat) /\ \A n \in 1 .. N : T(n) = T(n - 1) + v[n]
  BY <1>3, SumIs
<1> HIDE DEF N, S, T
<1>5. 0 \in G
  BY <1>1, <1>4
<1>6. ASSUME NEW n \in 0 .. N - 1, n \in G PROVE n + 1 \in G
  <2>1. n \in 0 .. N /\ n + 1 \in 1 .. N /\ n + 1 - 1 = n /\ n + 1 \in 0 .. N
    BY <1>1
  <2>2. S(n) \in Nat /\ T(n) \in Nat /\ widths[n + 1] \in Nat
    BY <1>1, <1>4, <2>1
  <2>6. S(n + 1) = S(n) + widths[n + 1]
    BY <1>4, <2>1
  <2>7. T(n + 1) = T(n) + v[n + 1]
    BY SMTT(30), <1>4, <2>1
  <2>3. (n < c => T(n) = S(n)) /\ (~(n < c) => T(n) = S(n) + more)
    BY <1>4, <1>6, <2>1
  <2>4. (n + 1 = c => v[n + 1] = widths[n + 1] + more) /\ (n + 1 # c => v[n + 1] = widths[n + 1])
    BY <1>3, <2>1
  <2> DEFINE s  == S(n)
             t  == T(n)
             w  == widths[n + 1]
             u  == v[n + 1]
             s1 == S(n + 1)
             t1 == T(n + 1)
  <2>8. /\ s \in Nat /\ t \in Nat /\ w \in Nat /\ s1 = s + w /\ t1 = t + u
        /\ (n < c => t = s) /\ (~(n < c) => t = s + more)
        /\ (n + 1 = c => u = w + more) /\ (n + 1 # c => u = w)
    BY <2>2, <2>3, <2>4, <2>6, <2>7, Zenon
  <2> HIDE DEF s, t, w, u, s1, t1
  <2>i. n \in Nat /\ c \in Nat /\ more \in Nat
    BY <1>1
  <2>9. (n + 1 < c => t1 = s1) /\ (~(n + 1 < c) => t1 = s1 + more)
    <3>1. CASE n + 1 < c
      <4>1. n < c /\ n + 1 # c
        BY <2>i, <3>1
      <4> QED BY <2>8, <3>1, <4>1
    <3>2. CASE n + 1 = c
      <4>1. n < c /\ ~(n + 1 < c)
        BY <2>i, <3>2
      <4> QED BY <2>8, <2>i, <3>2, <4>1
    <3>3. CASE ~(n < c)
      <4>1. ~(n + 1 < c) /\ n + 1 # c
        BY <2>i, <3>3
      <4> QED BY <2>8, <2>i, <3>3, <4>1
    <3> QED BY <2>i, <3>1, <3>2, <3>3
  <2>5. (n + 1 < c => T(n + 1) = S(n + 1)) /\ (~(n + 1 < c) => T(n + 1) = S(n + 1) + more)
    BY <2>9 DEF s1, t1
  <2> QED BY <2>1, <2>5
<1> HIDE DEF G
<1>7. 0 .. N \subseteq G
  BY <1>1, <1>5, <1>6, UpTo
<1>8. N \in G /\ ~(N < c)
  BY <1>1, <1>7
<1>9. T(N) = S(N) + more
  BY <1>1, <1>4, <1>8 DEF G
<1> QED BY <1>3, <1>9 DEF N, S, T

LEMMA SumOfSame ==
  ASSUME NEW widths \in Seq(Nat), \A c \in 1 .. Len(widths) : widths[c] = MinColumnWidth
  PROVE  Sum(widths, Len(widths)) = Len(widths) * MinColumnWidth
<1> DEFINE N == Len(widths)
           S(n) == Sum(widths, n)
           G == {n \in 0 .. N : S(n) = n * 3}
<1>1. N \in Nat /\ \A n \in 1 .. N : widths[n] = 3
  BY DEF MinColumnWidth
<1>2. S(0) = 0 /\ (\A n \in 0 .. N : S(n) \in Nat) /\ \A n \in 1 .. N : S(n) = S(n - 1) + widths[n]
  BY SumIs
<1> HIDE DEF N, S
<1>3. 0 \in G
  BY <1>1, <1>2
<1>4. \A n \in 0 .. N - 1 : n \in G => n + 1 \in G
  <2>1. \A n \in 0 .. N - 1 : n + 1 \in 1 .. N /\ n + 1 - 1 = n /\ n + 1 \in 0 .. N /\ n \in Nat
    BY <1>1
  <2>2. \A n \in 0 .. N - 1 : S(n + 1) = S(n) + 3
    BY <1>1, <1>2, <2>1
  <2> QED BY <2>1, <2>2
<1> HIDE DEF G
<1>5. 0 .. N \subseteq G
  BY <1>1, <1>3, <1>4, UpTo
<1>6. N \in G
  BY <1>1, <1>5
<1> QED BY <1>6 DEF G, N, S, MinColumnWidth

Info(cols)          == {i \in [valid : BOOLEAN, length : Nat, widths : Seq(Nat)] : Len(i.widths) = cols}
Needed(name, c, cols) == name + (IF c = cols THEN 0 ELSE 2)

LEMMA ColumnIs ==
  ASSUME NEW n \in Nat \ {0}, NEW cols \in Nat \ {0}, NEW f \in 0 .. n - 1
  PROVE  f \div Up(n, cols) + 1 \in 1 .. cols
<1> DEFINE rows == Up(n, cols)
           q    == f \div rows
<1>1. rows \in Nat \ {0} /\ n <= cols * rows
  BY UpIs
<1>h. n \in Nat /\ n >= 1 /\ f \in Nat /\ f < n /\ cols \in Nat
  OBVIOUS
<1> HIDE DEF rows
<1>2. f = rows * q + (f % rows) /\ f % rows \in 0 .. rows - 1 /\ q \in Nat
  BY <1>h, <1>1, DivisionIs
<1>m. q = f \div rows
  OBVIOUS
<1> HIDE DEF q
<1>3. rows * q <= f
  <2>1. rows * q \in Nat
    BY <1>1, <1>2, TimesNat
  <2>2. \A a, b, m \in Int : m >= 0 /\ a = b + m => b <= a
    OBVIOUS
  <2> QED BY <1>h, <1>1, <1>2, <2>1, <2>2
<1>4. q < cols
  <2> SUFFICES ASSUME cols <= q PROVE FALSE
    BY <1>h, <1>2
  <2>1. \A a, b, c \in Nat : b <= c => b * a <= a * c
    OBVIOUS
  <2>2. cols * rows <= rows * q
    BY <1>h, <1>1, <1>2, <2>1
  <2>3. cols * rows \in Nat /\ rows * q \in Nat
    BY <1>h, <1>1, <1>2, TimesNat
  <2> QED BY <1>h, <1>1, <1>3, <2>2, <2>3
<1>5. q + 1 \in 1 .. cols
  BY <1>h, <1>2, <1>4
<1> QED BY <1>5 DEF q, rows

(* A name widens its column to what it needs, if the layout still fits.    *)
Widened(new, info, name, c, cols, width) ==
  /\ c \in 1 .. cols /\ new \in Info(cols)
  /\ new.valid => info.valid /\ Needed(name, c, cols) <= new.widths[c]
  /\ \A k \in 1 .. cols : info.widths[k] <= new.widths[k]
  /\ info.length = Sum(info.widths, cols) => new.length = Sum(new.widths, cols)
  /\ new = info \/ (new.valid => new.length < width)

LEMMA WithNameIs ==
  ASSUME NEW n \in Nat \ {0}, NEW cols \in Nat \ {0}, NEW info \in Info(cols), NEW f \in 0 .. n - 1,
         NEW name \in Nat, NEW width \in Nat, NEW c, c = f \div Up(n, cols) + 1,
         NEW new, new = WithName(info, n, f, name, width)
  PROVE  Widened(new, info, name, c, cols, width)
<1> DEFINE real == Needed(name, c, cols)
           more == real - info.widths[c]
           v    == [info.widths EXCEPT ![c] = real]
<1>1. c \in 1 .. cols
  BY ColumnIs
<1>2. /\ info.valid \in BOOLEAN /\ info.length \in Nat /\ info.widths \in Seq(Nat) /\ Len(info.widths) = cols
      /\ cols \in Nat /\ info = [valid |-> info.valid, length |-> info.length, widths |-> info.widths]
  BY DEF Info
<1>3. (n + cols - 1) \div cols = Up(n, cols)
  BY UpIs
<1>4. info.widths[c] \in Nat /\ real \in Nat
  BY <1>1, <1>2 DEF Needed
<1>5. new = IF ~info.valid \/ more <= 0 THEN info
            ELSE [valid |-> info.length + more < width, length |-> info.length + more, widths |-> v]
  BY <1>2, <1>3 DEF WithName, Needed
<1>6. CASE ~info.valid \/ more <= 0
  <2>1. new = info
    BY <1>5, <1>6
  <2>2. info.valid => real <= info.widths[c]
    BY <1>4, <1>6
  <2>3. \A k \in 1 .. cols : info.widths[k] \in Nat
    BY <1>2
  <2>4. \A k \in 1 .. cols : info.widths[k] <= info.widths[k]
    BY <2>3
  <2> QED BY <1>1, <2>1, <2>2, <2>4 DEF Widened
<1>7. CASE info.valid /\ ~(more <= 0)
  <2>1. more \in Nat /\ real = info.widths[c] + more /\ ~(real <= info.widths[c])
    BY <1>4, <1>7
  <2>2. new = [valid |-> info.length + more < width, length |-> info.length + more, widths |-> v]
    BY <1>5, <1>7
  <2> HIDE DEF more
  <2>3. v \in Seq(Nat) /\ Len(v) = cols /\ \A k \in 1 .. cols : v[k] = IF k = c THEN real ELSE info.widths[k]
    <3> HIDE DEF real
    <3> QED BY <1>1, <1>2, <1>4, ExceptSeq
  <2>4. Sum(v, cols) = Sum(info.widths, cols) + more
    <3>1. v = [info.widths EXCEPT ![c] = info.widths[c] + more]
      BY <2>1
    <3> HIDE DEF v
    <3>2. Len(v) = Len(info.widths) /\ Sum(v, Len(v)) = Sum(info.widths, Len(info.widths)) + more
      BY <1>1, <1>2, <2>1, <3>1, SumRaised
    <3> QED BY <1>2, <3>2
  <2> HIDE DEF v, real
  <2>5. /\ new.valid = (info.length + more < width) /\ new.length = info.length + more /\ new.widths = v
        /\ new.valid \in BOOLEAN /\ info.length + more \in Nat
    BY <1>2, <2>1, <2>2
  <2>6. new \in Info(cols)
    BY <2>2, <2>3, <2>5 DEF Info
  <2>7. \A k \in 1 .. cols : info.widths[k] <= v[k]
    <3> SUFFICES ASSUME NEW k \in 1 .. cols PROVE info.widths[k] <= v[k]
      OBVIOUS
    <3>1. info.widths[k] \in Nat /\ info.widths[k] <= info.widths[k]
      BY <1>2
    <3>2. info.widths[c] <= real
      BY <1>4, <2>1
    <3>3. CASE k = c
      BY <2>3, <3>2, <3>3
    <3>4. CASE k # c
      BY <2>3, <3>1, <3>4
    <3> QED BY <3>3, <3>4
  <2>8. v[c] = real /\ real <= real
    BY <1>1, <1>4, <2>3
  <2> QED BY <1>1, <1>7, <2>4, <2>5, <2>6, <2>7, <2>8 DEF real, Widened
<1> QED BY <1>2, <1>6, <1>7

(* The widths once the first names are measured.                           *)
Measured(info, names, width, cols, i) ==
  /\ info \in Info(cols) /\ info.length = Sum(info.widths, cols)
  /\ info.valid => \A f \in 1 .. i : LET c == (f - 1) \div Up(Len(names), cols) + 1
                                     IN  Needed(names[f], c, cols) <= info.widths[c]
  /\ info.valid => info.length < width \/ \A c \in 1 .. cols : info.widths[c] = MinColumnWidth

LEMMA CandidateMeasured ==
  ASSUME NEW names, NEW width, NEW cols \in Nat \ {0}
  PROVE  Measured(Candidate(cols), names, width, cols, 0)
<1> DEFINE w == [c \in 1 .. cols |-> MinColumnWidth]
<1>1. cols \in Nat /\ MinColumnWidth \in Nat /\ cols * MinColumnWidth \in Nat
  BY DEF MinColumnWidth
<1>2. w \in Seq(Nat) /\ Len(w) = cols /\ \A c \in 1 .. cols : w[c] = MinColumnWidth
  BY <1>1
<1> HIDE DEF w
<1>3. Sum(w, cols) = cols * MinColumnWidth
  BY <1>2, SumOfSame
<1>4. Candidate(cols) = [valid |-> TRUE, length |-> cols * MinColumnWidth, widths |-> w]
  BY DEF Candidate, w
<1>5. Candidate(cols) \in Info(cols)
  BY <1>1, <1>2, <1>4 DEF Info
<1>6. 1 .. 0 = {}
  OBVIOUS
<1>7. Candidate(cols).length = cols * MinColumnWidth /\ Candidate(cols).widths = w
  BY <1>4
<1> HIDE DEF w
<1> QED BY <1>2, <1>3, <1>5, <1>6, <1>7 DEF Measured

LEMMA NameMeasured ==
  ASSUME NEW names \in Seq(Nat), names # <<>>, NEW width \in Nat, NEW cols \in Nat \ {0},
         NEW i \in 1 .. Len(names), NEW info, Measured(info, names, width, cols, i - 1)
  PROVE  Measured(WithName(info, Len(names), i - 1, names[i], width), names, width, cols, i)
<1> DEFINE n   == Len(names)
           c   == (i - 1) \div Up(n, cols) + 1
           new == WithName(info, n, i - 1, names[i], width)
           at(f) == (f - 1) \div Up(n, cols) + 1
<1>1. n \in Nat \ {0} /\ i \in 1 .. n /\ i - 1 \in 0 .. n - 1 /\ names[i] \in Nat /\ \A f \in 1 .. n : names[f] \in Nat
  BY EmptySeq
<1>2. info \in Info(cols) /\ info.length = Sum(info.widths, cols)
  BY DEF Measured
<1>3. /\ info.valid => \A f \in 1 .. i - 1 : Needed(names[f], at(f), cols) <= info.widths[at(f)]
      /\ info.valid => info.length < width \/ \A k \in 1 .. cols : info.widths[k] = MinColumnWidth
  BY DEF Measured
<1>4. /\ c \in 1 .. cols /\ new \in Info(cols)
      /\ new.valid => info.valid /\ Needed(names[i], c, cols) <= new.widths[c]
      /\ \A k \in 1 .. cols : info.widths[k] <= new.widths[k]
      /\ info.length = Sum(info.widths, cols) => new.length = Sum(new.widths, cols)
      /\ new = info \/ (new.valid => new.length < width)
  <2> HIDE DEF n, c, new
  <2>1. c = (i - 1) \div Up(n, cols) + 1 /\ new = WithName(info, n, i - 1, names[i], width)
    BY DEF c, new
  <2>2. Widened(new, info, names[i], c, cols, width)
    BY <1>1, <1>2, <2>1, WithNameIs
  <2> QED BY <2>2 DEF Widened
<1>5. \A f \in 1 .. n : at(f) \in 1 .. cols
  <2>1. \A f \in 1 .. n : f - 1 \in 0 .. n - 1
    BY <1>1
  <2> HIDE DEF n
  <2> QED BY <1>1, <2>1, ColumnIs
<1>6. \A k \in 1 .. cols : info.widths[k] \in Nat /\ new.widths[k] \in Nat
  <2> HIDE DEF n, c, new
  <2>1. \A x \in Info(cols) : \A k \in 1 .. cols : x.widths[k] \in Nat
    BY SMTT(30) DEF Info
  <2> QED BY <1>2, <1>4, <2>1
<1> HIDE DEF new
<1>7. ASSUME new.valid, NEW f \in 1 .. i PROVE Needed(names[f], at(f), cols) <= new.widths[at(f)]
  <2>1. CASE f = i
    BY <1>4, <1>7, <2>1
  <2>2. CASE f # i
    <3>1. f \in 1 .. i - 1 /\ f \in 1 .. n
      BY <1>1, <2>2
    <3>2. Needed(names[f], at(f), cols) <= info.widths[at(f)]
      BY <1>3, <1>4, <1>7, <3>1
    <3>3. info.widths[at(f)] <= new.widths[at(f)] /\ info.widths[at(f)] \in Nat /\ new.widths[at(f)] \in Nat
      BY <1>4, <1>5, <1>6, <3>1
    <3>4. Needed(names[f], at(f), cols) \in Nat
      BY SMTT(30), <1>1, <3>1 DEF Needed
    <3> HIDE DEF at
    <3> QED BY <3>2, <3>3, <3>4
  <2> QED BY <2>1, <2>2
<1>8. new.valid => new.length < width \/ \A k \in 1 .. cols : new.widths[k] = MinColumnWidth
  BY <1>3, <1>4
<1>9. new.length = Sum(new.widths, cols)
  BY <1>2, <1>4
<1> QED BY <1>4, <1>7, <1>8, <1>9 DEF Measured, new

LEMMA LayoutIs ==
  ASSUME NEW names \in Seq(Nat), names # <<>>, NEW width \in Nat, NEW cols \in Nat \ {0}
  PROVE  Measured(Layout(names, width, cols), names, width, cols, Len(names))
<1> DEFINE N    == Len(names)
           W(i, info) == WithName(info, N, i - 1, names[i], width)
           step == [i \in 1 .. N |-> [info \in Info(cols) |-> W(i, info)]]
           Def(f) == f = [i \in 0 .. N |-> IF i = 0 THEN Candidate(cols) ELSE W(i, f[i - 1])]
           h    == CHOOSE f : Def(f)
<1>1. N \in Nat /\ N # 0 /\ \A i \in 1 .. N : i - 1 \in 0 .. N - 1 /\ names[i] \in Nat
  BY EmptySeq
<1>2. \A i \in 1 .. N : \A info \in Info(cols) : W(i, info) \in Info(cols)
  <2> SUFFICES ASSUME NEW i \in 1 .. N, NEW info \in Info(cols) PROVE W(i, info) \in Info(cols)
    OBVIOUS
  <2> DEFINE c == (i - 1) \div Up(N, cols) + 1
             new == W(i, info)
  <2>1. c = (i - 1) \div Up(N, cols) + 1 /\ new = WithName(info, N, i - 1, names[i], width) /\ N \in Nat \ {0}
    BY <1>1
  <2> HIDE DEF c, new, N
  <2>2. Widened(new, info, names[i], c, cols, width)
    BY <1>1, <2>1, WithNameIs
  <2>3. new \in Info(cols)
    BY <2>2 DEF Widened
  <2> QED BY <2>3 DEF new
<1>3. \A i \in 1 .. N : \A info \in Info(cols) : step[i][info] = W(i, info)
  OBVIOUS
<1>4. Candidate(cols) \in Info(cols)
  BY CandidateMeasured DEF Measured
<1>5. PICK f \in [0 .. N -> Info(cols)] : Follows(f, N, Candidate(cols), step)
  <2>1. \A i \in 1 .. N : \A info \in Info(cols) : step[i][info] \in Info(cols)
    BY <1>2, <1>3
  <2> HIDE DEF step, N
  <2> QED BY <1>1, <1>4, <2>1, Defined
<1>6. Def(f)
  <2>1. \A n \in 0 .. N : n # 0 => n \in 1 .. N /\ n - 1 \in 0 .. N
    BY <1>1
  <2>2. \A n \in 0 .. N : n # 0 => step[n][f[n - 1]] = W(n, f[n - 1])
    <3> HIDE DEF step, W, N
    <3> QED BY <1>3, <1>5, <2>1
  <2>3. f = [n \in 0 .. N |-> IF n = 0 THEN Candidate(cols) ELSE step[n][f[n - 1]]]
    BY <1>5 DEF Follows
  <2> HIDE DEF step, W, N
  <2> QED BY <2>2, <2>3
<1>7. Def(h)
  <2> HIDE DEF Def
  <2> QED BY <1>6
<1>8. Layout(names, width, cols) = h[N]
  BY DEF Layout
<1> HIDE DEF h
<1>9. h[0] = Candidate(cols) /\ \A i \in 1 .. N : h[i] = W(i, h[i - 1])
  <2>1. 0 \in 0 .. N /\ \A n \in 1 .. N : n \in 0 .. N /\ n # 0
    BY <1>1
  <2> HIDE DEF W, N
  <2> QED BY <1>7, <2>1
<1> DEFINE G == {i \in 0 .. N : Measured(h[i], names, width, cols, i)}
<1>10. 0 \in G
  BY <1>1, <1>9, CandidateMeasured
<1>11. ASSUME NEW i \in 0 .. N - 1, i \in G PROVE i + 1 \in G
  <2> DEFINE k == i + 1
  <2>1. k \in 1 .. N /\ k \in 0 .. N /\ k - 1 = i
    BY <1>1
  <2>2. Measured(h[k - 1], names, width, cols, k - 1)
    BY <1>11, <2>1
  <2>3. h[k] = WithName(h[k - 1], Len(names), k - 1, names[k], width)
    BY <1>9, <2>1
  <2> HIDE DEF k
  <2>4. Measured(h[k], names, width, cols, k)
    BY <2>1, <2>2, <2>3, NameMeasured
  <2>5. k \in G
    BY <2>1, <2>4
  <2> QED BY <2>5 DEF k
<1> HIDE DEF G
<1>12. 0 .. N \subseteq G
  <2> HIDE DEF N
  <2> QED BY <1>1, <1>10, <1>11, UpTo
<1>13. N \in G
  BY <1>1, <1>12
<1> QED BY <1>8, <1>13 DEF G

(* The greatest of numbers that are bounded.                               *)
LEMMA GreatestIs ==
  ASSUME NEW S, NEW b \in Nat, S \subseteq 0 .. b, S # {}
  PROVE  Max(S) \in S /\ \A x \in S : Max(S) >= x
<1> DEFINE T == {b - x : x \in S}
<1>1. T \subseteq Nat /\ T # {}
  <2>1. \A x \in S : b - x \in Nat
    OBVIOUS
  <2>2. \E x \in S : b - x \in T
    OBVIOUS
  <2> QED BY <2>1, <2>2
<1> HIDE DEF T
<1>2. PICK t \in T : \A y \in T : t <= y
  BY <1>1, LeastIs
<1>3. PICK m \in S : t = b - m
  BY DEF T
<1>4. ASSUME NEW x \in S PROVE m >= x
  <2>1. b - x \in T
    BY DEF T
  <2>2. t <= b - x
    BY <1>2, <2>1
  <2> QED BY <1>3, <2>2
<1>5. \E z \in S : \A x \in S : z >= x
  BY <1>4
<1> QED BY <1>5 DEF Max

LEMMA ChosenIs ==
  ASSUME NEW names \in Seq(Nat), names # <<>>, NEW width \in Nat \ {0}
  PROVE  \E cols \in 1 .. Len(names) :
           /\ Chosen(names, width) = Layout(names, width, cols)
           /\ cols > 1 => Layout(names, width, cols).valid
           /\ cols * MinColumnWidth <= width + 2
<1> DEFINE n     == Len(names)
           most  == Up(width, MinColumnWidth)
           valid == {c \in 1 .. MaxCols(n, width) : c > 1 => Layout(names, width, c).valid}
<1>1. n \in Nat \ {0}
  BY EmptySeq
<1>2. most \in Nat \ {0} /\ MinColumnWidth * most <= width + MinColumnWidth - 1
  <2>1. MinColumnWidth \in Nat \ {0}
    BY DEF MinColumnWidth
  <2> QED BY <2>1, UpIs
<1> HIDE DEF most, n
<1>3. MaxCols(n, width) = IF 0 < most /\ most < n THEN most ELSE n
  BY DEF MaxCols, most
<1>4. MaxCols(n, width) \in 1 .. n /\ MaxCols(n, width) <= most
  BY <1>1, <1>2, <1>3
<1>5. Chosen(names, width) = Layout(names, width, Max(valid))
  BY DEF Chosen, n
<1>6. valid \subseteq 0 .. n /\ 1 \in valid
  BY <1>1, <1>4
<1> DEFINE cols == Max(valid)
<1>7. cols \in valid
  <2> HIDE DEF valid
  <2> QED BY <1>1, <1>6, GreatestIs
<1>8. cols \in 1 .. MaxCols(n, width) /\ (cols > 1 => Layout(names, width, cols).valid)
  <2> HIDE DEF cols
  <2> QED BY <1>7
<1> HIDE DEF cols, valid
<1>9. cols \in 1 .. n /\ cols <= most /\ cols \in Nat
  BY <1>1, <1>2, <1>4, <1>8
<1>10. cols * MinColumnWidth <= width + 2
  BY <1>2, <1>9 DEF MinColumnWidth
<1> QED BY <1>5, <1>8, <1>9, <1>10 DEF cols, n

(* Where a terminal is after each thing of a line.                         *)
Walk(line, at, names, tabsize) ==
  /\ line \in Seq(Int) /\ at \in [0 .. Len(line) -> Nat] /\ at[0] = 0
  /\ \A i \in 1 .. Len(line) : at[i] = Moved(at[i - 1], line[i], names, tabsize)

LEMMA PositionIs ==
  ASSUME NEW line, NEW at, NEW names, NEW tabsize, Walk(line, at, names, tabsize)
  PROVE  \A i \in 0 .. Len(line) : Position(line, i, names, tabsize) = at[i]
<1> DEFINE N == Len(line)
           M(i, x) == Moved(x, line[i], names, tabsize)
           Def(f) == f = [i \in 0 .. N |-> IF i = 0 THEN 0 ELSE M(i, f[i - 1])]
           h == CHOOSE f : Def(f)
<1>1. N \in Nat /\ at \in [0 .. N -> Nat] /\ at[0] = 0 /\ \A i \in 1 .. N : at[i] = M(i, at[i - 1])
  BY DEF Walk
<1>2. Def(at)
  <2> HIDE DEF M, N
  <2>1. \A i \in 0 .. N : i # 0 => i \in 1 .. N
    BY <1>1
  <2>2. \A i \in 0 .. N : at[i] = IF i = 0 THEN 0 ELSE M(i, at[i - 1])
    BY <1>1, <2>1
  <2> QED BY <1>1, <2>2
<1>3. Def(h)
  <2> HIDE DEF Def
  <2> QED BY <1>2
<1>4. \A i : Position(line, i, names, tabsize) = h[i]
  BY DEF Position
<1> HIDE DEF h, M, N
<1>5. h[0] = 0 /\ \A i \in 1 .. N : h[i] = M(i, h[i - 1])
  <2>1. 0 \in 0 .. N /\ \A n \in 1 .. N : n \in 0 .. N /\ n # 0
    BY <1>1
  <2> QED BY <1>3, <2>1
<1> DEFINE G == {i \in 0 .. N : h[i] = at[i]}
<1>6. 0 \in G
  BY <1>1, <1>5
<1>7. \A i \in 0 .. N - 1 : i \in G => i + 1 \in G
  <2>1. \A i \in 0 .. N - 1 : i + 1 \in 1 .. N /\ i + 1 \in 0 .. N /\ i + 1 - 1 = i
    BY <1>1
  <2> QED BY <1>1, <1>5, <2>1
<1> HIDE DEF G
<1>8. 0 .. N \subseteq G
  BY <1>1, <1>6, <1>7, UpTo
<1> QED BY <1>4, <1>8 DEF G, N

LEMMA WalkOn ==
  ASSUME NEW line, NEW at, NEW names, NEW tabsize, Walk(line, at, names, tabsize), NEW x \in Int,
         NEW end, end = Moved(at[Len(line)], x, names, tabsize), end \in Nat
  PROVE  \E on : /\ Walk(Append(line, x), on, names, tabsize)
                 /\ \A i \in 0 .. Len(line) : on[i] = at[i]
                 /\ on[Len(line) + 1] = end
<1> DEFINE N  == Len(line)
           l  == Append(line, x)
           on == [i \in 0 .. N + 1 |-> IF i <= N THEN at[i] ELSE end]
<1>1. /\ line \in Seq(Int) /\ N \in Nat /\ at \in [0 .. N -> Nat] /\ at[0] = 0
      /\ \A i \in 1 .. N : at[i] = Moved(at[i - 1], line[i], names, tabsize)
  BY DEF Walk
<1>2. l \in Seq(Int) /\ Len(l) = N + 1 /\ l[N + 1] = x /\ \A i \in 1 .. N : l[i] = line[i]
  BY <1>1, AppendProperties
<1>3. /\ on \in [0 .. N + 1 -> Nat] /\ on[N + 1] = end
      /\ \A i \in 0 .. N : on[i] = at[i]
  <2>1. \A i \in 0 .. N + 1 : (i <= N => i \in 0 .. N) /\ (IF i <= N THEN at[i] ELSE end) \in Nat
    BY SMTT(30), <1>1
  <2>2. N + 1 \in 0 .. N + 1 /\ ~(N + 1 <= N) /\ \A i \in 0 .. N : i \in 0 .. N + 1 /\ i <= N
    BY <1>1
  <2> HIDE DEF N
  <2> QED BY <2>1, <2>2
<1> HIDE DEF l, on, N
<1>4. \A i \in 1 .. N + 1 : on[i] = Moved(on[i - 1], l[i], names, tabsize)
  <2> SUFFICES ASSUME NEW i \in 1 .. N + 1 PROVE on[i] = Moved(on[i - 1], l[i], names, tabsize)
    OBVIOUS
  <2>1. CASE i = N + 1
    <3>1. i - 1 = N /\ N \in 0 .. N
      BY <1>1, <2>1
    <3>2. on[i - 1] = at[N] /\ l[i] = x /\ on[i] = end
      BY <1>2, <1>3, <2>1, <3>1
    <3> QED BY <3>2 DEF N
  <2>2. CASE i # N + 1
    <3>1. i \in 1 .. N /\ i \in 0 .. N /\ i - 1 \in 0 .. N
      BY <1>1, <2>2
    <3> QED BY <1>1, <1>2, <1>3, <3>1
  <2> QED BY <2>1, <2>2
<1>5. on[0] = 0
  <2>1. 0 \in 0 .. N
    BY <1>1
  <2> QED BY <1>1, <1>3, <2>1
<1>6. Walk(l, on, names, tabsize)
  BY <1>2, <1>3, <1>4, <1>5 DEF Walk
<1> QED BY <1>3, <1>6 DEF l, N

(* A line of names, the kth of them the one of column k, spaces and tabs.  *)
File(rows, r, k) == rows * k + r
RowNames(line, at, c, r, rows, widths) ==
  /\ \A i \in 1 .. Len(line) : line[i] > 0 =>
       \E k \in 0 .. c - 1 : line[i] = File(rows, r, k) /\ at[i - 1] = Sum(widths, k)
  /\ \A k \in 0 .. c - 1 : \E i \in 1 .. Len(line) : line[i] = File(rows, r, k)
  /\ \A i, j \in 1 .. Len(line) : line[i] = line[j] /\ line[i] > 0 => i = j
Ends(line, c, end, r, rows, names, widths, tabsize) ==
  \E at : Walk(line, at, names, tabsize) /\ RowNames(line, at, c, r, rows, widths) /\ at[Len(line)] = end

LEMMA FileIs ==
  ASSUME NEW rows \in Nat \ {0}, NEW r \in 1 .. rows
  PROVE  /\ \A k \in Nat : /\ File(rows, r, k) \in Nat \ {0} /\ File(rows, r, k + 1) = File(rows, r, k) + rows
                           /\ (File(rows, r, k) - 1) \div rows = k /\ (File(rows, r, k) - 1) % rows = r - 1
         /\ \A j, k \in Nat : j < k => File(rows, r, j) < File(rows, r, k)
         /\ File(rows, r, 0) = r
<1>1. rows \in Nat /\ rows >= 1 /\ r \in Nat /\ r >= 1 /\ r - 1 \in 0 .. rows - 1
  OBVIOUS
<1>2. ASSUME NEW k \in Nat
      PROVE  /\ File(rows, r, k) \in Nat \ {0} /\ File(rows, r, k + 1) = File(rows, r, k) + rows
             /\ (File(rows, r, k) - 1) \div rows = k /\ (File(rows, r, k) - 1) % rows = r - 1
  <2>1. rows * k \in Nat
    BY <1>1, TimesNat
  <2>2. \A a, b \in Nat : a * (b + 1) = a * b + a
    OBVIOUS
  <2>3. rows * (k + 1) = rows * k + rows
    BY <1>1, <2>2
  <2>4. File(rows, r, k) \in Nat \ {0} /\ File(rows, r, k + 1) = File(rows, r, k) + rows
    BY <1>1, <2>1, <2>3 DEF File
  <2>5. File(rows, r, k) - 1 = rows * k + (r - 1)
    BY <1>1, <2>1 DEF File
  <2> DEFINE y == File(rows, r, k) - 1
             m == r - 1
  <2>6. y = rows * k + m /\ m \in 0 .. rows - 1
    BY <1>1, <2>5
  <2> HIDE DEF y, m
  <2>7. y \div rows = k /\ y % rows = m
    BY <2>6, QuotientOf
  <2> QED BY <2>4, <2>7 DEF y, m
<1>3. \A j, k \in Nat : j < k => File(rows, r, j) < File(rows, r, k)
  <2> SUFFICES ASSUME NEW j \in Nat, NEW k \in Nat, j < k PROVE File(rows, r, j) < File(rows, r, k)
    OBVIOUS
  <2>1. rows * j \in Nat /\ rows * k \in Nat /\ rows * j + rows <= rows * k
    BY <1>1, TimesNat, TimesGrow
  <2> QED BY <1>1, <2>1 DEF File
<1>4. File(rows, r, 0) = r
  <2>1. \A a \in Nat : a * 0 = 0
    OBVIOUS
  <2> QED BY <1>1, <2>1 DEF File
<1> QED BY <1>2, <1>3, <1>4

(* A blank adds no name.                                                   *)
LEMMA BlankEnds ==
  ASSUME NEW names, NEW widths, NEW rows, NEW r, NEW tabsize, NEW line, NEW c, NEW end,
         Ends(line, c, end, r, rows, names, widths, tabsize),
         NEW x \in {Space, Tab}, NEW next \in Nat, next = Moved(end, x, names, tabsize)
  PROVE  Ends(Append(line, x), c, next, r, rows, names, widths, tabsize)
<1> DEFINE l == Append(line, x)
           N == Len(line)
<1>1. PICK at : Walk(line, at, names, tabsize) /\ RowNames(line, at, c, r, rows, widths) /\ at[N] = end
  BY DEF Ends
<1>2. x \in Int /\ ~(x > 0)
  BY DEF Space, Tab
<1>3. PICK on : Walk(l, on, names, tabsize) /\ (\A i \in 0 .. N : on[i] = at[i]) /\ on[N + 1] = next
  <2>1. next = Moved(at[Len(line)], x, names, tabsize) /\ next \in Nat
    BY <1>1
  <2> QED BY <1>1, <1>2, <2>1, WalkOn
<1>4. line \in Seq(Int) /\ N \in Nat
  BY <1>1 DEF Walk
<1>5. Len(l) = N + 1 /\ l[N + 1] = x /\ \A i \in 1 .. N : l[i] = line[i]
  BY <1>2, <1>4, AppendProperties
<1> HIDE DEF l
<1>6. \A i \in 1 .. N + 1 : i = N + 1 \/ (i \in 1 .. N /\ i - 1 \in 0 .. N)
  BY <1>4
<1>7. \A i \in 1 .. N : i \in 1 .. N + 1
  BY <1>4
<1> HIDE DEF N
<1>8. \A i \in 1 .. N + 1 : l[i] > 0 => i \in 1 .. N /\ l[i] = line[i] /\ on[i - 1] = at[i - 1]
  BY <1>2, <1>3, <1>5, <1>6
<1>9. /\ \A i \in 1 .. N : line[i] > 0 =>
           \E k \in 0 .. c - 1 : line[i] = File(rows, r, k) /\ at[i - 1] = Sum(widths, k)
      /\ \A k \in 0 .. c - 1 : \E i \in 1 .. N : line[i] = File(rows, r, k)
      /\ \A i, j \in 1 .. N : line[i] = line[j] /\ line[i] > 0 => i = j
  BY <1>1 DEF RowNames, N
<1>10. \A i \in 1 .. N + 1 : l[i] > 0 =>
         \E k \in 0 .. c - 1 : l[i] = File(rows, r, k) /\ on[i - 1] = Sum(widths, k)
  BY <1>8, <1>9
<1>11. \A k \in 0 .. c - 1 : \E i \in 1 .. N + 1 : l[i] = File(rows, r, k)
  BY <1>5, <1>7, <1>9
<1>12. \A i, j \in 1 .. N + 1 : l[i] = l[j] /\ l[i] > 0 => i = j
  BY <1>8, <1>9
<1>13. RowNames(l, on, c, r, rows, widths)
  BY <1>5, <1>10, <1>11, <1>12 DEF RowNames
<1> QED BY <1>3, <1>5, <1>13 DEF Ends, l

(* A name, where its column begins.                                        *)
LEMMA NameEnds ==
  ASSUME NEW names \in Seq(Nat), NEW widths, NEW rows \in Nat \ {0}, NEW r \in 1 .. rows, NEW tabsize,
         NEW line, NEW c \in Nat, Ends(line, c, Sum(widths, c), r, rows, names, widths, tabsize),
         Sum(widths, c) \in Nat, NEW x, x = File(rows, r, c), x <= Len(names)
  PROVE  Ends(Append(line, x), c + 1, Sum(widths, c) + names[x], r, rows, names, widths, tabsize)
<1> DEFINE l == Append(line, x)
           N == Len(line)
           next == Sum(widths, c) + names[x]
<1>1. PICK at : Walk(line, at, names, tabsize) /\ RowNames(line, at, c, r, rows, widths) /\ at[N] = Sum(widths, c)
  BY DEF Ends
<1>2. x \in Int /\ x > 0 /\ x \in 1 .. Len(names)
  <2>1. x \in Nat \ {0}
    BY FileIs
  <2> QED BY <2>1
<1>3. names[x] \in Nat /\ next \in Nat
  BY <1>2
<1>4. next = Moved(at[Len(line)], x, names, tabsize)
  BY <1>1, <1>2 DEF Moved, Space, Tab
<1> HIDE DEF next
<1>5. PICK on : Walk(l, on, names, tabsize) /\ (\A i \in 0 .. N : on[i] = at[i]) /\ on[N + 1] = next
  BY SMTT(30), <1>1, <1>2, <1>3, <1>4, WalkOn
<1>6. line \in Seq(Int) /\ N \in Nat
  BY <1>1 DEF Walk
<1>7. Len(l) = N + 1 /\ l[N + 1] = x /\ \A i \in 1 .. N : l[i] = line[i]
  BY <1>2, <1>6, AppendProperties
<1> HIDE DEF l
<1>8. \A i \in 1 .. N + 1 : i = N + 1 \/ (i \in 1 .. N /\ i - 1 \in 0 .. N)
  BY <1>6
<1>9. N + 1 \in 1 .. N + 1 /\ N + 1 - 1 = N /\ N \in 0 .. N /\ \A i \in 1 .. N : i \in 1 .. N + 1
  BY <1>6
<1> HIDE DEF N
<1>10. /\ \A i \in 1 .. N : line[i] > 0 =>
            \E k \in 0 .. c - 1 : line[i] = File(rows, r, k) /\ at[i - 1] = Sum(widths, k)
       /\ \A k \in 0 .. c - 1 : \E i \in 1 .. N : line[i] = File(rows, r, k)
       /\ \A i, j \in 1 .. N : line[i] = line[j] /\ line[i] > 0 => i = j
  BY <1>1 DEF RowNames, N
<1>11. c + 1 - 1 = c /\ c \in 0 .. c /\ \A k \in 0 .. c : k = c \/ k \in 0 .. c - 1
  OBVIOUS
<1>12. \A k \in 0 .. c - 1 : k \in 0 .. c /\ k \in Nat /\ k < c
  OBVIOUS
<1>13. \A k \in 0 .. c - 1 : File(rows, r, k) # x
  <2> SUFFICES ASSUME NEW k \in 0 .. c - 1 PROVE File(rows, r, k) # x
    OBVIOUS
  <2>1. k \in Nat /\ File(rows, r, k) < File(rows, r, c)
    BY <1>12, FileIs
  <2>2. File(rows, r, k) \in Nat /\ File(rows, r, c) \in Nat
    BY <2>1, FileIs
  <2> QED BY <2>1, <2>2
<1>14. \A i \in 1 .. N : line[i] > 0 => line[i] # x
  BY <1>10, <1>13
<1>15. \A i \in 1 .. N + 1 : l[i] > 0 =>
         \E k \in 0 .. c : l[i] = File(rows, r, k) /\ on[i - 1] = Sum(widths, k)
  <2> SUFFICES ASSUME NEW i \in 1 .. N + 1, l[i] > 0
               PROVE  \E k \in 0 .. c : l[i] = File(rows, r, k) /\ on[i - 1] = Sum(widths, k)
    OBVIOUS
  <2>1. CASE i = N + 1
    <3>1. l[i] = File(rows, r, c) /\ on[i - 1] = Sum(widths, c)
      BY <1>1, <1>5, <1>7, <1>9, <2>1
    <3> QED BY <1>11, <3>1
  <2>2. CASE i # N + 1
    <3>1. i \in 1 .. N /\ l[i] = line[i] /\ on[i - 1] = at[i - 1]
      BY <1>5, <1>7, <1>8, <2>2
    <3> QED BY <1>10, <1>12, <3>1
  <2> QED BY <2>1, <2>2
<1>16. \A k \in 0 .. c : \E i \in 1 .. N + 1 : l[i] = File(rows, r, k)
  BY <1>7, <1>9, <1>10, <1>11
<1>17. \A i, j \in 1 .. N + 1 : l[i] = l[j] /\ l[i] > 0 => i = j
  BY <1>7, <1>8, <1>10, <1>14
<1>18. RowNames(l, on, c + 1, r, rows, widths)
  BY <1>7, <1>11, <1>15, <1>16, <1>17 DEF RowNames
<1> QED BY <1>5, <1>7, <1>18 DEF Ends, l, next

(* A tab goes no further than the next column.                             *)
LEMMA TabStops ==
  ASSUME NEW from \in Nat, NEW to \in Nat, NEW tabsize \in Nat, TabFits(from, to, tabsize)
  PROVE  NextStop(from, tabsize) \in from + 1 .. to
<1>1. tabsize # 0 /\ to \div tabsize > (from + 1) \div tabsize
  BY DEF TabFits
<1> DEFINE t == tabsize
           q == from \div t
           m == from % t
           p == to \div t
           o == (from + 1) \div t
           n == (from + 1) % t
<1>2. t \in Nat \ {0} /\ t \in Nat /\ from + 1 \in Nat
  BY <1>1
<1>3. from = t * q + m /\ m \in 0 .. t - 1 /\ q \in Nat
  BY <1>2, DivisionIs
<1>4. to = t * p + (to % t) /\ to % t \in 0 .. t - 1 /\ p \in Nat
  BY <1>2, DivisionIs
<1>5. from + 1 = t * o + n /\ n \in 0 .. t - 1 /\ o \in Nat
  <2> DEFINE f == from + 1
  <2>1. f \in Nat
    OBVIOUS
  <2> HIDE DEF f
  <2>2. f = t * (f \div t) + (f % t) /\ f % t \in 0 .. t - 1 /\ f \div t \in Nat
    BY <1>2, <2>1, DivisionIs
  <2> QED BY <2>2 DEF f
<1>6. NextStop(from, tabsize) = from + t - m
  BY DEF NextStop
<1>7. o < p
  BY <1>1, <1>4, <1>5
<1> HIDE DEF t, q, m, p, o, n
<1>8. t * q \in Nat /\ t * p \in Nat /\ t * o \in Nat /\ t * o + t <= t * p
  BY <1>2, <1>3, <1>4, <1>5, <1>7, TimesNat, TimesGrow
<1>9. t * p <= to
  BY <1>2, <1>4, <1>8
<1>10. q <= o
  <2> SUFFICES ASSUME o < q PROVE FALSE
    BY <1>3, <1>5
  <2>1. t * o + t <= t * q
    BY <1>2, <1>3, <1>5, TimesGrow
  <2> QED BY <1>2, <1>3, <1>5, <1>8, <2>1
<1>11. t * q <= t * o
  <2>1. CASE q = o
    BY <1>8, <2>1
  <2>2. CASE q < o
    <3>1. t * q + t <= t * o
      BY <1>2, <1>3, <1>5, <2>2, TimesGrow
    <3> QED BY <1>2, <1>8, <3>1
  <2> QED BY <1>3, <1>5, <1>10, <2>1, <2>2
<1>12. from + t - m = t * q + t
  BY <1>2, <1>3, <1>8
<1>13. t * q + t <= to
  BY <1>2, <1>8, <1>9, <1>11
<1>14. from + 1 <= from + t - m /\ from + t - m \in Int
  BY <1>2, <1>3
<1> QED BY <1>6, <1>12, <1>13, <1>14

(* Blanks take a line to where the next column begins.                     *)
LEMMA IndentedIs ==
  ASSUME NEW names, NEW widths, NEW rows, NEW r, NEW tabsize \in Nat, NEW line, NEW c,
         NEW from \in Nat, NEW to \in Nat, from <= to,
         Ends(line, c, from, r, rows, names, widths, tabsize)
  PROVE  Ends(Indented(line, from, to, tabsize), c, to, r, rows, names, widths, tabsize)
<1> DEFINE E(l)  == Ends(l.line, c, l.at, r, rows, names, widths, tabsize)
           S     == {l \in [line : Seq(Int), at : 0 .. to] : E(l)}
           B(l)  == Blanked(l, to, tabsize)
           first == [line |-> line, at |-> from]
           step  == [k \in 1 .. to |-> [l \in S |-> B(l)]]
           Def(f) == f = [k \in 0 .. to |-> IF k = 0 THEN first ELSE B(f[k - 1])]
           h     == CHOOSE f : Def(f)
<1>1. ASSUME NEW l \in S PROVE B(l) \in S /\ (l.at = to \/ l.at + 1 <= B(l).at)
  <2>1. l.line \in Seq(Int) /\ l.at \in 0 .. to /\ E(l) /\ to \in Nat
    OBVIOUS
  <2>2. CASE l.at >= to
    <3>1. B(l) = l /\ l.at = to
      BY <2>1, <2>2 DEF Blanked
    <3> QED BY <3>1
  <2>3. CASE ~(l.at >= to) /\ TabFits(l.at, to, tabsize)
    <3> DEFINE next == NextStop(l.at, tabsize)
               on   == Append(l.line, Tab)
    <3>1. B(l) = [line |-> on, at |-> next]
      BY <2>3 DEF Blanked
    <3>2. l.at \in Nat
      BY <2>1
    <3>3. next \in l.at + 1 .. to
      BY <2>1, <2>3, <3>2, TabStops
    <3>4. next \in 0 .. to /\ next \in Nat /\ l.at + 1 <= next
      BY <2>1, <3>3
    <3>5. next = Moved(l.at, Tab, names, tabsize)
      BY DEF Moved, Tab, Space
    <3> HIDE DEF next
    <3>6. Tab \in {Space, Tab} /\ Tab \in Int
      BY DEF Tab
    <3>7. Ends(on, c, next, r, rows, names, widths, tabsize)
      <4> HIDE DEF S, B
      <4> QED BY <2>1, <3>4, <3>5, <3>6, BlankEnds
    <3>8. on \in Seq(Int)
      BY <2>1, <3>6, AppendProperties
    <3> HIDE DEF on
    <3>9. [line |-> on, at |-> next] \in S
      BY <3>4, <3>7, <3>8
    <3> HIDE DEF S, B
    <3> QED BY <3>1, <3>4, <3>9
  <2>4. CASE ~(l.at >= to) /\ ~TabFits(l.at, to, tabsize)
    <3> DEFINE next == l.at + 1
               on   == Append(l.line, Space)
    <3>1. B(l) = [line |-> on, at |-> next]
      BY <2>4 DEF Blanked
    <3>2. next \in 0 .. to /\ next \in Nat /\ l.at + 1 <= next
      BY <2>1, <2>4
    <3>3. next = Moved(l.at, Space, names, tabsize)
      BY DEF Moved, Space, Tab
    <3> HIDE DEF next
    <3>4. Space \in {Space, Tab} /\ Space \in Int
      BY DEF Space
    <3>5. Ends(on, c, next, r, rows, names, widths, tabsize)
      <4> HIDE DEF S, B
      <4> QED BY <2>1, <3>2, <3>3, <3>4, BlankEnds
    <3>6. on \in Seq(Int)
      BY <2>1, <3>4, AppendProperties
    <3> HIDE DEF on
    <3>7. [line |-> on, at |-> next] \in S
      BY <3>2, <3>5, <3>6
    <3>8. l.at + 1 <= next
      BY <3>2
    <3> HIDE DEF S, B
    <3> QED BY <3>1, <3>7, <3>8
  <2> QED BY <2>2, <2>3, <2>4
<1>2. first \in S
  <2>1. line \in Seq(Int)
    BY DEF Ends, Walk
  <2> QED BY <2>1
<1> HIDE DEF S, B, first
<1>3. PICK f \in [0 .. to -> S] : Follows(f, to, first, step)
  <2>1. \A k \in 1 .. to : \A l \in S : step[k][l] \in S
    BY <1>1
  <2> HIDE DEF step
  <2> QED BY <1>2, <2>1, Defined
<1>4. Def(f)
  <2>1. \A k \in 0 .. to : k # 0 => k \in 1 .. to /\ k - 1 \in 0 .. to
    OBVIOUS
  <2>2. \A k \in 0 .. to : k # 0 => step[k][f[k - 1]] = B(f[k - 1])
    BY <1>3, <2>1
  <2>3. f = [k \in 0 .. to |-> IF k = 0 THEN first ELSE step[k][f[k - 1]]]
    BY <1>3 DEF Follows
  <2> HIDE DEF step
  <2> QED BY <2>2, <2>3
<1>5. Def(h)
  <2> HIDE DEF Def
  <2> QED BY <1>4
<1>6. Indented(line, from, to, tabsize) = h[to].line
  BY DEF Indented, first, B
<1> HIDE DEF h
<1>7. h[0] = first /\ \A k \in 1 .. to : h[k] = B(h[k - 1])
  <2>1. 0 \in 0 .. to /\ \A n \in 1 .. to : n \in 0 .. to /\ n # 0
    OBVIOUS
  <2> QED BY <1>5, <2>1
<1> DEFINE G == {k \in 0 .. to : h[k] \in S /\ (h[k].at = to \/ k <= h[k].at)}
<1>8. \A l \in S : l.at \in 0 .. to
  BY DEF S
<1>9. 0 \in G
  BY <1>2, <1>7, <1>8
<1>10. ASSUME NEW k \in 0 .. to - 1, k \in G PROVE k + 1 \in G
  <2>1. k + 1 \in 1 .. to /\ k + 1 \in 0 .. to /\ k + 1 - 1 = k
    OBVIOUS
  <2>2. h[k + 1] = B(h[k]) /\ h[k] \in S
    BY <1>7, <1>10, <2>1
  <2>3. /\ h[k + 1] \in S /\ h[k + 1].at \in 0 .. to /\ h[k].at \in 0 .. to
        /\ h[k].at = to \/ h[k].at + 1 <= h[k + 1].at
    BY <1>1, <1>8, <2>2
  <2>4. h[k].at = to => h[k + 1] = h[k]
    BY <2>2, <2>3 DEF B, Blanked
  <2>5. h[k + 1].at = to \/ k + 1 <= h[k + 1].at
    BY <1>10, <2>3, <2>4
  <2> QED BY <2>1, <2>3, <2>5
<1> HIDE DEF G
<1>11. 0 .. to \subseteq G
  BY <1>9, <1>10, UpTo
<1>12. to \in G
  BY <1>11
<1>13. h[to] \in S /\ h[to].at = to
  BY <1>8, <1>12 DEF G
<1> QED BY <1>6, <1>13 DEF S

(* The names that are laid out fit into their columns.                     *)
Fits(names, widths, rows) ==
  \A f \in 1 .. Len(names) :
    LET c == (f - 1) \div rows + 1 IN c \in 1 .. Len(widths) /\ Needed(names[f], c, Len(widths)) <= widths[c]

(* A row that is written up to a column.                                   *)
Row(s, c, r, rows, names, widths, tabsize) ==
  /\ s \in [line : Seq(Int), file : Nat, pos : Nat, ended : BOOLEAN]
  /\ ~s.ended => /\ Ends(s.line, c, s.pos, r, rows, names, widths, tabsize)
                 /\ s.file = File(rows, r, c) /\ s.file <= Len(names) /\ s.pos = Sum(widths, c)
  /\ s.ended => \E m \in 1 .. Len(widths) : \E end \in Nat :
                  /\ Ends(s.line, m, end, r, rows, names, widths, tabsize)
                  /\ File(rows, r, m - 1) <= Len(names) /\ Len(names) < File(rows, r, m)
                  /\ Len(widths) > 1 => end <= Sum(widths, Len(widths))

(* No row has more names than there are columns.                           *)
Within(names, widths, rows, r) == \A k \in Nat : File(rows, r, k) <= Len(names) => k < Len(widths)

LEMMA RowGoesOn ==
  ASSUME NEW names \in Seq(Nat), NEW widths \in Seq(Nat), NEW tabsize \in Nat,
         NEW rows \in Nat \ {0}, NEW r \in 1 .. rows, Within(names, widths, rows, r),
         Len(widths) > 1 => Fits(names, widths, rows),
         NEW c \in 1 .. Len(widths), NEW s, Row(s, c - 1, r, rows, names, widths, tabsize)
  PROVE  Row(WithColumn(s, names, widths, rows, c, tabsize), c, r, rows, names, widths, tabsize)
<1> DEFINE N    == Len(names)
           C    == Len(widths)
           State == [line : Seq(Int), file : Nat, pos : Nat, ended : BOOLEAN]
           new  == WithColumn(s, names, widths, rows, c, tabsize)
           k    == c - 1
           file == s.file
           pos  == s.pos
           name == names[file]
           w    == widths[c]
           line == Append(s.line, file)
           next == pos + w
           end  == pos + name
           filled == Indented(line, end, next, tabsize)
<1>1. /\ N \in Nat /\ C \in Nat /\ c \in 1 .. C /\ c \in Nat /\ w \in Nat
      /\ k \in Nat /\ k + 1 = c /\ k \in 0 .. C /\ c \in 0 .. C /\ C \in c .. C /\ rows \in Nat
  OBVIOUS
<1>s. s \in State
  BY DEF Row
<1>t. file \in Nat /\ pos \in Nat /\ s.line \in Seq(Int)
  BY <1>s
<1>2. CASE s.ended
  <2>1. new = s
    BY <1>2 DEF WithColumn
  <2> QED BY <1>2, <2>1 DEF Row
<1>3. CASE ~s.ended
  <2>1. /\ Ends(s.line, k, pos, r, rows, names, widths, tabsize)
        /\ file = File(rows, r, k) /\ file <= N /\ pos = Sum(widths, k)
    BY <1>3 DEF Row
  <2>w. new = IF N - rows <= file - 1 THEN [s EXCEPT !.line = line, !.ended = TRUE]
              ELSE [line |-> filled, file |-> file + rows, pos |-> next, ended |-> FALSE]
    BY <1>3 DEF WithColumn
  <2>5. Sum(widths, c) = pos + w /\ Sum(widths, k) \in Nat
    <3>1. Sum(widths, c) = Sum(widths, c - 1) + widths[c]
      BY SumIs
    <3>2. Sum(widths, k) \in Nat
      <4> HIDE DEF k
      <4> QED BY <1>1, SumIs
    <3> QED BY <2>1, <3>1, <3>2
  <2> HIDE DEF k
  <2>f. File(rows, r, k) \in Nat \ {0} /\ File(rows, r, k + 1) = File(rows, r, k) + rows
        /\ (File(rows, r, k) - 1) \div rows = k
    BY <1>1, FileIs
  <2>2. /\ file \in Nat \ {0} /\ File(rows, r, c) = file + rows /\ (file - 1) \div rows = k
    BY <1>1, <2>1, <2>f
  <2>3. file \in 1 .. N
    <3> HIDE DEF N, file
    <3> QED BY <1>1, <2>1, <2>2
  <2>n. name \in Nat
    <3> HIDE DEF file
    <3> QED BY <2>3
  <2>4. Ends(line, c, end, r, rows, names, widths, tabsize)
    <3> HIDE DEF file
    <3>1. Ends(s.line, k, Sum(widths, k), r, rows, names, widths, tabsize) /\ file <= Len(names)
      BY <2>1
    <3>2. Ends(Append(s.line, file), k + 1, Sum(widths, k) + names[file], r, rows, names, widths, tabsize)
      BY <1>1, <2>1, <2>5, <3>1, NameEnds
    <3> HIDE DEF pos
    <3> QED BY <1>1, <2>1, <3>2
  <2>6. line \in Seq(Int)
    <3>1. file \in Int
      BY <2>2
    <3> QED BY <1>t, <3>1, AppendProperties
  <2> HIDE DEF file, pos, line
  <2>7. C > 1 => name <= w
    <3> SUFFICES ASSUME C > 1 PROVE name <= w
      OBVIOUS
    <3>1. (file - 1) \div rows + 1 = c
      BY <1>1, <2>2
    <3>2. Needed(name, c, C) <= w
      BY <2>3, <3>1 DEF Fits
    <3> HIDE DEF name, w, C
    <3> QED BY <1>1, <2>n, <3>2 DEF Needed
  <2> HIDE DEF name, w
  <2>8. end \in Nat /\ next \in Nat /\ (C > 1 => end <= next)
    <3> HIDE DEF C
    <3> QED BY <1>1, <1>t, <2>n, <2>7
  <2> HIDE DEF end
  <2>9. CASE N - rows <= file - 1
    <3>1. new = [s EXCEPT !.line = line, !.ended = TRUE]
      BY <2>w, <2>9
    <3> HIDE DEF new
    <3>2. new \in State /\ new.ended /\ new.line = line
      BY <1>s, <2>6, <3>1
    <3>3. N < File(rows, r, c)
      <4> HIDE DEF N
      <4> QED BY <1>1, <2>2, <2>9
    <3>4. C > 1 => end <= Sum(widths, C)
      <4>1. Sum(widths, c) <= Sum(widths, C) /\ Sum(widths, C) \in Nat
        BY <1>1, SumGrows, SumIs
      <4> HIDE DEF C
      <4> QED BY <2>5, <2>8, <4>1
    <3>5. File(rows, r, c - 1) <= N
      BY <2>1 DEF k
    <3> QED BY <1>1, <2>4, <2>8, <3>2, <3>3, <3>4, <3>5 DEF Row, new
  <2>10. CASE ~(N - rows <= file - 1)
    <3>1. new = [line |-> filled, file |-> file + rows, pos |-> next, ended |-> FALSE]
      BY <2>w, <2>10
    <3>2. file + rows <= N /\ file + rows \in Nat
      <4> HIDE DEF N
      <4> QED BY <1>1, <2>2, <2>10
    <3>3. c < C
      BY <1>1, <2>2, <3>2 DEF Within
    <3>n. C > 1
      <4> HIDE DEF C
      <4> QED BY <1>1, <3>3
    <3>4. Ends(filled, c, next, r, rows, names, widths, tabsize)
      <4> HIDE DEF next
      <4> QED BY <2>4, <2>8, <3>n, IndentedIs
    <3>5. filled \in Seq(Int)
      BY <3>4 DEF Ends, Walk
    <3> HIDE DEF filled, new
    <3>6. /\ new \in State /\ ~new.ended
          /\ new.line = filled /\ new.file = file + rows /\ new.pos = next
      <4> HIDE DEF next
      <4> QED BY <2>8, <3>1, <3>2, <3>5
    <3> QED BY <2>2, <2>5, <3>2, <3>4, <3>6 DEF Row, new
  <2> QED BY <2>9, <2>10
<1> QED BY <1>2, <1>3

LEMMA RowBegins ==
  ASSUME NEW names, NEW widths \in Seq(Nat), NEW tabsize, NEW rows \in Nat \ {0}, NEW r \in 1 .. rows, r <= Len(names)
  PROVE  Row([line |-> <<>>, file |-> r, pos |-> 0, ended |-> FALSE], 0, r, rows, names, widths, tabsize)
<1> DEFINE at == [i \in 0 .. 0 |-> 0]
<1>1. <<>> \in Seq(Int) /\ Len(<<>>) = 0 /\ 1 .. 0 = {} /\ 0 .. 0 - 1 = {}
  BY EmptySeq
<1>2. at \in [0 .. 0 -> Nat] /\ at[0] = 0
  OBVIOUS
<1> HIDE DEF at
<1>3. Walk(<<>>, at, names, tabsize)
  BY <1>1, <1>2 DEF Walk
<1>4. RowNames(<<>>, at, 0, r, rows, widths)
  BY <1>1 DEF RowNames
<1>5. Ends(<<>>, 0, 0, r, rows, names, widths, tabsize)
  BY <1>1, <1>2, <1>3, <1>4 DEF Ends
<1>6. Sum(widths, 0) = 0 /\ r = File(rows, r, 0) /\ r \in Nat
  BY SumIs, FileIs
<1> QED BY <1>1, <1>5, <1>6 DEF Row

(* A row is written up to its last name, within the columns.               *)
LEMMA LineIs ==
  ASSUME NEW names \in Seq(Nat), NEW widths \in Seq(Nat), NEW tabsize \in Nat,
         NEW rows \in Nat \ {0}, NEW r \in 1 .. rows, r <= Len(names), Within(names, widths, rows, r),
         Len(widths) > 1 => Fits(names, widths, rows)
  PROVE  \E m \in 1 .. Len(widths) : \E end \in Nat :
           /\ Ends(LineOf(names, widths, rows, r, tabsize), m, end, r, rows, names, widths, tabsize)
           /\ File(rows, r, m - 1) <= Len(names) /\ Len(names) < File(rows, r, m)
           /\ Len(widths) > 1 => end <= Sum(widths, Len(widths))
<1> DEFINE C      == Len(widths)
           first  == [line |-> <<>>, file |-> r, pos |-> 0, ended |-> FALSE]
           W(c, s) == WithColumn(s, names, widths, rows, c, tabsize)
           Is(s, c) == Row(s, c, r, rows, names, widths, tabsize)
           Def(f) == f = [c \in 0 .. C |-> IF c = 0 THEN first ELSE W(c, f[c - 1])]
           h      == CHOOSE f : Def(f)
<1>1. C \in Nat /\ Len(names) \in Nat
  OBVIOUS
<1>2. Is(first, 0)
  BY RowBegins
<1>3. ASSUME NEW c \in 1 .. C, NEW s, Is(s, c - 1) PROVE Is(W(c, s), c)
  BY <1>3, RowGoesOn
<1>4. LineOf(names, widths, rows, r, tabsize) = h[C].line
  BY DEF LineOf
<1> HIDE DEF first, W, C, Is
<1> DEFINE S == {cs \in (0 .. C) \X {s \in [line : Seq(Int), file : Nat, pos : Nat, ended : BOOLEAN] : TRUE} : Is(cs[2], cs[1])}
<1>5. \E f : Def(f)
  <2> DEFINE step == [c \in 1 .. C |-> [cs \in S |-> IF cs[1] = c - 1 THEN <<c, W(c, cs[2])>> ELSE cs]]
  <2>1. \A c, s : Is(s, c) => s \in [line : Seq(Int), file : Nat, pos : Nat, ended : BOOLEAN]
    BY DEF Is, Row
  <2>2. <<0, first>> \in S
    BY <1>1, <1>2, <2>1
  <2>3. \A c \in 1 .. C : \A cs \in S : step[c][cs] \in S
    <3> SUFFICES ASSUME NEW c \in 1 .. C, NEW cs \in S PROVE step[c][cs] \in S
      OBVIOUS
    <3>1. step[c][cs] = IF cs[1] = c - 1 THEN <<c, W(c, cs[2])>> ELSE cs
      OBVIOUS
    <3>2. ASSUME cs[1] = c - 1 PROVE <<c, W(c, cs[2])>> \in S
      <4>1. Is(cs[2], c - 1)
        BY <3>2
      <4>2. Is(W(c, cs[2]), c)
        BY <1>3, <4>1
      <4>3. c \in 0 .. C
        BY <1>1
      <4> QED BY <2>1, <4>2, <4>3
    <3> QED BY <3>1, <3>2
  <2> HIDE DEF step, S
  <2>4. PICK g \in [0 .. C -> S] : Follows(g, C, <<0, first>>, step)
    BY <1>1, <2>2, <2>3, Defined
  <2>5. g = [c \in 0 .. C |-> IF c = 0 THEN <<0, first>> ELSE step[c][g[c - 1]]]
    BY <2>4 DEF Follows
  <2>6. /\ g[0] = <<0, first>>
        /\ \A c \in 1 .. C : g[c] = IF g[c - 1][1] = c - 1 THEN <<c, W(c, g[c - 1][2])>> ELSE g[c - 1]
    <3>1. 0 \in 0 .. C /\ \A c \in 1 .. C : c \in 0 .. C /\ c # 0 /\ c - 1 \in 0 .. C
      BY <1>1
    <3>2. \A c \in 1 .. C : \A cs \in S : step[c][cs] = IF cs[1] = c - 1 THEN <<c, W(c, cs[2])>> ELSE cs
      BY DEF step
    <3>3. \A c \in 1 .. C : g[c] = step[c][g[c - 1]] /\ g[c - 1] \in S
      BY <2>4, <2>5, <3>1
    <3> QED BY <2>5, <3>1, <3>2, <3>3
  <2> DEFINE G == {c \in 0 .. C : g[c][1] = c}
  <2>7. 0 \in G
    BY <1>1, <2>6
  <2>8. ASSUME NEW c \in 0 .. C - 1, c \in G PROVE c + 1 \in G
    <3>1. c + 1 \in 1 .. C /\ c + 1 \in 0 .. C /\ c + 1 - 1 = c
      BY <1>1
    <3>2. g[c][1] = c
      BY <2>8
    <3>3. g[c + 1] = <<c + 1, W(c + 1, g[c][2])>>
      <4> DEFINE k == c + 1
      <4>1. k \in 1 .. C /\ k - 1 = c
        BY <3>1
      <4> HIDE DEF k
      <4>2. g[k] = IF g[k - 1][1] = k - 1 THEN <<k, W(k, g[k - 1][2])>> ELSE g[k - 1]
        BY <2>6, <4>1
      <4>3. g[k] = <<k, W(k, g[c][2])>>
        BY <3>2, <4>1, <4>2
      <4> QED BY <4>3 DEF k
    <3> QED BY <3>1, <3>3
  <2> HIDE DEF G
  <2>9. 0 .. C \subseteq G
    BY <1>1, <2>7, <2>8, UpTo
  <2> DEFINE f == [c \in 0 .. C |-> g[c][2]]
  <2>10. \A c \in 0 .. C : f[c] = IF c = 0 THEN first ELSE W(c, f[c - 1])
    <3> SUFFICES ASSUME NEW c \in 0 .. C PROVE f[c] = IF c = 0 THEN first ELSE W(c, f[c - 1])
      OBVIOUS
    <3>1. CASE c = 0
      BY <2>6, <3>1
    <3>2. CASE c # 0
      <4>1. c \in 1 .. C /\ c - 1 \in 0 .. C
        BY <1>1, <3>2
      <4>2. g[c - 1][1] = c - 1
        BY <2>9, <4>1 DEF G
      <4>3. g[c] = <<c, W(c, g[c - 1][2])>>
        BY <2>6, <4>1, <4>2
      <4>4. f[c] = g[c][2] /\ f[c - 1] = g[c - 1][2]
        BY <4>1
      <4> QED BY <3>2, <4>3, <4>4
    <3> QED BY <3>1, <3>2
  <2>11. f = [c \in 0 .. C |-> f[c]]
    OBVIOUS
  <2> HIDE DEF f
  <2>12. Def(f)
    BY <2>10, <2>11
  <2> HIDE DEF Def
  <2> QED BY <2>12
<1>6. Def(h)
  <2> HIDE DEF Def
  <2> QED BY <1>5
<1> HIDE DEF h
<1>7. h[0] = first /\ \A c \in 1 .. C : h[c] = W(c, h[c - 1])
  <2>1. 0 \in 0 .. C /\ \A n \in 1 .. C : n \in 0 .. C /\ n # 0
    BY <1>1
  <2> QED BY <1>6, <2>1
<1> DEFINE G == {c \in 0 .. C : Is(h[c], c)}
<1>8. 0 \in G
  BY <1>1, <1>2, <1>7
<1>9. ASSUME NEW c \in 0 .. C - 1, c \in G PROVE c + 1 \in G
  <2>1. c + 1 \in 1 .. C /\ c + 1 \in 0 .. C /\ c + 1 - 1 = c
    BY <1>1
  <2>2. Is(W(c + 1, h[c]), c + 1)
    BY <1>3, <1>9, <2>1
  <2> QED BY <1>7, <2>1, <2>2
<1> HIDE DEF G
<1>10. 0 .. C \subseteq G
  BY <1>1, <1>8, <1>9, UpTo
<1>11. Is(h[C], C)
  <2>1. C \in 0 .. C
    BY <1>1
  <2> QED BY <1>10, <2>1 DEF G
<1>12. h[C].ended
  <2> SUFFICES ASSUME ~h[C].ended PROVE FALSE
    OBVIOUS
  <2>1. File(rows, r, C) <= Len(names)
    BY <1>11 DEF Is, Row
  <2>2. C < C
    BY <1>1, <2>1 DEF Within, C
  <2> QED BY <1>1, <2>2
<1> QED BY <1>4, <1>11, <1>12 DEF Is, Row, C

(* columnate: every name in one place, all of a column at one position.    *)
LEMMA RowsIs ==
  ASSUME NEW names \in Seq(Nat), names # <<>>, NEW width \in Nat \ {0}, NEW cols \in 1 .. Len(names),
         NEW info, Measured(info, names, width, cols, Len(names)), cols > 1 => info.valid,
         NEW rows, rows = Up(Len(names), cols)
  PROVE  /\ rows \in Nat \ {0} /\ rows <= Len(names)
         /\ info.widths \in Seq(Nat) /\ Len(info.widths) = cols
         /\ \A r \in 1 .. rows : r <= Len(names) /\ Within(names, info.widths, rows, r)
         /\ cols > 1 => Fits(names, info.widths, rows)
<1> DEFINE n == Len(names)
           widths == info.widths
<1>1. n \in Nat \ {0} /\ cols \in Nat \ {0} /\ cols \in Nat /\ n \in Nat
  BY EmptySeq
<1>2. widths \in Seq(Nat) /\ Len(widths) = cols
  BY DEF Measured, Info
<1>3. rows \in Nat \ {0} /\ rows <= n /\ n <= cols * rows
  BY <1>1, UpIs
<1> HIDE DEF n, widths
<1>4. ASSUME NEW r \in 1 .. rows PROVE r <= n /\ Within(names, widths, rows, r)
  <2>1. r <= n /\ rows \in Nat
    BY <1>1, <1>3
  <2>2. ASSUME NEW k \in Nat, File(rows, r, k) <= n PROVE k < cols
    <3> SUFFICES ASSUME cols <= k PROVE FALSE
      BY <1>1
    <3>1. \A a, b, c \in Nat : b <= c => b * a <= a * c
      OBVIOUS
    <3>2. cols * rows <= rows * k
      BY <1>1, <2>1, <3>1
    <3>3. cols * rows \in Nat /\ rows * k \in Nat
      BY <1>1, <2>1, TimesNat
    <3>4. rows * k + r <= n
      BY <2>2 DEF File
    <3> DEFINE x == cols * rows
               y == rows * k
    <3>5. x \in Nat /\ y \in Nat /\ n <= x /\ x <= y /\ y + r <= n /\ r >= 1 /\ r \in Nat
      BY <1>3, <3>2, <3>3, <3>4
    <3> HIDE DEF x, y
    <3> QED BY <1>1, <3>5
  <2> QED BY <1>2, <2>1, <2>2 DEF Within, n
<1>5. ASSUME cols > 1 PROVE Fits(names, widths, rows)
  <2>1. \A f \in 1 .. n : LET c == (f - 1) \div rows + 1 IN Needed(names[f], c, cols) <= widths[c]
    BY <1>5 DEF Measured, n, widths
  <2>2. \A f \in 1 .. n : (f - 1) \div rows + 1 \in 1 .. cols
    <3>1. \A f \in 1 .. n : f - 1 \in 0 .. n - 1
      BY <1>1
    <3> QED BY <1>1, <3>1, ColumnIs DEF n
  <2> QED BY <1>2, <2>1, <2>2 DEF Fits, n
<1> QED BY <1>2, <1>3, <1>4, <1>5 DEF n, widths

(* What two lines have in common, a name is not.                           *)
Places(lines) == UNION {{<<r, i>> : i \in {j \in DOMAIN lines[r] : lines[r][j] > 0}} : r \in DOMAIN lines}

Written(line, names, widths, rows, r, tabsize) ==
  \E m \in 1 .. Len(widths) : \E end \in Nat :
    /\ Ends(line, m, end, r, rows, names, widths, tabsize)
    /\ File(rows, r, m - 1) <= Len(names) /\ Len(names) < File(rows, r, m)
    /\ Len(widths) > 1 => end <= Sum(widths, Len(widths))
AllWritten(lines, names, widths, rows, tabsize) ==
  /\ DOMAIN lines = 1 .. rows
  /\ \A r \in 1 .. rows : /\ Within(names, widths, rows, r)
                          /\ Written(lines[r], names, widths, rows, r, tabsize)

(* A line has the names of its row: those that leave the same rest.        *)
HasRow(line, names, widths, rows, r, tabsize) ==
  /\ line \in Seq(Int)
  /\ \A i \in 1 .. Len(line) : line[i] > 0 =>
       /\ line[i] \in 1 .. Len(names) /\ (line[i] - 1) % rows = r - 1
       /\ Position(line, i - 1, names, tabsize) = Sum(widths, (line[i] - 1) \div rows)
  /\ \A f \in 1 .. Len(names) : (f - 1) % rows = r - 1 => \E i \in 1 .. Len(line) : line[i] = f
  /\ \A i, j \in 1 .. Len(line) : line[i] = line[j] /\ line[i] > 0 => i = j
  /\ Len(widths) > 1 => Position(line, Len(line), names, tabsize) \in 0 .. Sum(widths, Len(widths))
LEMMA LineHas ==
  ASSUME NEW names \in Seq(Nat), NEW widths \in Seq(Nat), NEW tabsize, NEW rows \in Nat \ {0}, NEW r \in 1 .. rows,
         NEW line, Written(line, names, widths, rows, r, tabsize), Within(names, widths, rows, r)
  PROVE  HasRow(line, names, widths, rows, r, tabsize)
<1> DEFINE n == Len(names)
           C == Len(widths)
<1>1. n \in Nat /\ C \in Nat /\ rows \in Nat /\ r \in Nat /\ r >= 1
  OBVIOUS
<1>2. PICK m \in 1 .. C : \E end \in Nat :
        /\ Ends(line, m, end, r, rows, names, widths, tabsize)
        /\ File(rows, r, m - 1) <= n /\ n < File(rows, r, m)
        /\ C > 1 => end <= Sum(widths, C)
  BY DEF Written
<1>3. PICK end \in Nat : /\ Ends(line, m, end, r, rows, names, widths, tabsize)
                         /\ File(rows, r, m - 1) <= n /\ n < File(rows, r, m)
                         /\ C > 1 => end <= Sum(widths, C)
  BY <1>2
<1>4. PICK at : Walk(line, at, names, tabsize) /\ RowNames(line, at, m, r, rows, widths) /\ at[Len(line)] = end
  BY <1>3 DEF Ends
<1>5. \A i \in 0 .. Len(line) : Position(line, i, names, tabsize) = at[i]
  BY <1>4, PositionIs
<1>6. line \in Seq(Int) /\ Len(line) \in Nat
  BY <1>4 DEF Walk
<1>7. /\ \A i \in 1 .. Len(line) : line[i] > 0 =>
           \E k \in 0 .. m - 1 : line[i] = File(rows, r, k) /\ at[i - 1] = Sum(widths, k)
      /\ \A k \in 0 .. m - 1 : \E i \in 1 .. Len(line) : line[i] = File(rows, r, k)
      /\ \A i, j \in 1 .. Len(line) : line[i] = line[j] /\ line[i] > 0 => i = j
  BY <1>4 DEF RowNames
<1>8. m \in Nat /\ \A k \in 0 .. m - 1 : k \in Nat /\ k + 1 \in Nat /\ (k + 1 = m \/ k + 1 < m) /\ k + 1 - 1 = k
  BY <1>1
<1>f. \A k \in Nat : /\ File(rows, r, k) \in Nat \ {0} /\ File(rows, r, k + 1) = File(rows, r, k) + rows
                     /\ (File(rows, r, k) - 1) \div rows = k /\ (File(rows, r, k) - 1) % rows = r - 1
  BY FileIs
<1>g. \A j, k \in Nat : j < k => File(rows, r, j) < File(rows, r, k)
  BY FileIs
<1> HIDE DEF n, C
<1>9. ASSUME NEW f \in 1 .. n, (f - 1) % rows = r - 1 PROVE \E i \in 1 .. Len(line) : line[i] = f
  <2> DEFINE y == f - 1
             k == y \div rows
  <2>1. y \in Nat /\ f = y + 1 /\ f \in Nat /\ f <= n
    BY <1>1
  <2>2. y = rows * k + (y % rows) /\ k \in Nat /\ y % rows = r - 1
    <3> HIDE DEF y
    <3>1. y = rows * (y \div rows) + (y % rows) /\ y \div rows \in Nat
      BY <2>1, DivisionIs
    <3> QED BY <1>9, <3>1 DEF y
  <2> HIDE DEF y, k
  <2>3. f = File(rows, r, k)
    <3>1. rows * k \in Nat
      BY <1>1, <2>2, TimesNat
    <3> QED BY <1>1, <2>1, <2>2, <3>1 DEF File
  <2>4. k < m
    <3> SUFFICES ASSUME m <= k PROVE FALSE
      BY <1>8, <2>2
    <3>1. File(rows, r, m) \in Nat /\ File(rows, r, k) \in Nat
      BY <1>8, <1>f, <2>2
    <3>2. File(rows, r, m) <= File(rows, r, k)
      <4>1. CASE m = k
        BY <3>1, <4>1
      <4>2. CASE m < k
        <5>1. File(rows, r, m) < File(rows, r, k)
          BY <1>8, <1>g, <2>2, <4>2
        <5> QED BY <3>1, <5>1
      <4> QED BY <1>8, <2>2, <4>1, <4>2
    <3> QED BY <1>1, <1>3, <2>1, <2>3, <3>1, <3>2
  <2>5. k \in 0 .. m - 1
    BY <1>8, <2>2, <2>4
  <2> QED BY <1>7, <2>3, <2>5
<1>10. ASSUME NEW i \in 1 .. Len(line), line[i] > 0
       PROVE  /\ line[i] \in 1 .. n /\ (line[i] - 1) % rows = r - 1
              /\ Position(line, i - 1, names, tabsize) = Sum(widths, (line[i] - 1) \div rows)
  <2>1. PICK k \in 0 .. m - 1 : line[i] = File(rows, r, k) /\ at[i - 1] = Sum(widths, k)
    BY <1>7, <1>10
  <2>k. k \in Nat
    BY <1>8
  <2>f. File(rows, r, k) \in Nat \ {0} /\ (File(rows, r, k) - 1) \div rows = k /\ (File(rows, r, k) - 1) % rows = r - 1
    BY <1>f, <2>k
  <2>2. (line[i] - 1) % rows = r - 1 /\ (line[i] - 1) \div rows = k
    BY <2>1, <2>f, Zenon
  <2>3. i - 1 \in 0 .. Len(line)
    BY <1>6
  <2>4. line[i] \in 1 .. n
    <3> DEFINE latest == m - 1
               x    == File(rows, r, k)
               y    == File(rows, r, latest)
    <3>1. latest \in Nat /\ (k = latest \/ k < latest)
      BY <1>8
    <3>2. y \in Nat /\ (k < latest => x < y) /\ y <= n /\ x \in Nat \ {0}
      <4> HIDE DEF latest
      <4>1. File(rows, r, latest) <= n
        BY <1>3 DEF latest
      <4> QED BY <1>f, <1>g, <2>f, <2>k, <3>1, <4>1
    <3>3. x = y \/ x < y
      BY <3>1, <3>2
    <3> HIDE DEF x, y
    <3>4. x \in 1 .. n
      BY <1>1, <3>2, <3>3
    <3> QED BY <2>1, <3>4 DEF x
  <2>5. Position(line, i - 1, names, tabsize) = at[i - 1]
    BY <1>5, <2>3
  <2> QED BY <2>1, <2>2, <2>4, <2>5
<1>11. C > 1 => Position(line, Len(line), names, tabsize) \in 0 .. Sum(widths, C)
  <2>1. Len(line) \in 0 .. Len(line)
    BY <1>6
  <2>2. Position(line, Len(line), names, tabsize) = end
    BY <1>4, <1>5, <2>1
  <2>3. Sum(widths, C) \in Nat
    <3>1. C \in 0 .. C
      BY <1>1
    <3> QED BY <3>1, SumIs DEF C
  <2> QED BY <1>3, <2>2, <2>3
<1>12. \A i \in 1 .. Len(line) : line[i] > 0 =>
         /\ line[i] \in 1 .. n /\ (line[i] - 1) % rows = r - 1
         /\ Position(line, i - 1, names, tabsize) = Sum(widths, (line[i] - 1) \div rows)
  BY <1>10
<1>13. \A f \in 1 .. n : (f - 1) % rows = r - 1 => \E i \in 1 .. Len(line) : line[i] = f
  BY <1>9
<1> QED BY <1>6, <1>7, <1>11, <1>12, <1>13 DEF n, C, HasRow

(* Every name has its place, and it is in its row and its column.          *)
InPlaces(lines, names, widths, rows, tabsize) ==
  /\ \A p \in Places(lines) :
       /\ p[1] \in 1 .. rows /\ p[2] \in 1 .. Len(lines[p[1]])
       /\ lines[p[1]][p[2]] \in 1 .. Len(names)
       /\ Position(lines[p[1]], p[2] - 1, names, tabsize) = Sum(widths, (lines[p[1]][p[2]] - 1) \div rows)
  /\ \A f \in 1 .. Len(names) : \E p \in Places(lines) : lines[p[1]][p[2]] = f
  /\ \A p, q \in Places(lines) : lines[p[1]][p[2]] = lines[q[1]][q[2]] => p = q
LEMMA PlacesIs ==
  ASSUME NEW names \in Seq(Nat), NEW widths \in Seq(Nat), NEW tabsize, NEW rows \in Nat \ {0},
         NEW lines, AllWritten(lines, names, widths, rows, tabsize)
  PROVE  InPlaces(lines, names, widths, rows, tabsize)
<1> DEFINE P == Places(lines)
           V(p) == lines[p[1]][p[2]]
<1>1. DOMAIN lines = 1 .. rows /\ rows \in Nat /\ Len(names) \in Nat
  BY DEF AllWritten
<1>2. \A r \in 1 .. rows : Within(names, widths, rows, r) /\ Written(lines[r], names, widths, rows, r, tabsize)
  BY DEF AllWritten
<1>r. \A r \in 1 .. rows : HasRow(lines[r], names, widths, rows, r, tabsize)
  BY <1>2, LineHas
<1>3. \A r \in 1 .. rows :
        /\ lines[r] \in Seq(Int)
        /\ \A i \in 1 .. Len(lines[r]) : lines[r][i] > 0 =>
             /\ lines[r][i] \in 1 .. Len(names) /\ (lines[r][i] - 1) % rows = r - 1
             /\ Position(lines[r], i - 1, names, tabsize) = Sum(widths, (lines[r][i] - 1) \div rows)
        /\ \A f \in 1 .. Len(names) : (f - 1) % rows = r - 1 => \E i \in 1 .. Len(lines[r]) : lines[r][i] = f
        /\ \A i, j \in 1 .. Len(lines[r]) : lines[r][i] = lines[r][j] /\ lines[r][i] > 0 => i = j
  BY <1>r, Zenon DEF HasRow
<1>4. \A r \in 1 .. rows : DOMAIN lines[r] = 1 .. Len(lines[r])
  <2>1. \A l \in Seq(Int) : DOMAIN l = 1 .. Len(l)
    OBVIOUS
  <2> QED BY <1>3, <2>1
<1>5. \A p \in P : /\ p = <<p[1], p[2]>> /\ p[1] \in 1 .. rows /\ p[2] \in 1 .. Len(lines[p[1]]) /\ V(p) > 0
  <2> SUFFICES ASSUME NEW p \in P
               PROVE  p = <<p[1], p[2]>> /\ p[1] \in 1 .. rows /\ p[2] \in 1 .. Len(lines[p[1]]) /\ V(p) > 0
    OBVIOUS
  <2>1. PICK r \in DOMAIN lines : p \in {<<r, i>> : i \in {j \in DOMAIN lines[r] : lines[r][j] > 0}}
    BY DEF Places
  <2>2. PICK i \in DOMAIN lines[r] : lines[r][i] > 0 /\ p = <<r, i>>
    BY <2>1
  <2>3. p[1] = r /\ p[2] = i
    BY <2>2
  <2> QED BY <1>1, <1>4, <2>1, <2>2, <2>3
<1>6. ASSUME NEW r \in 1 .. rows, NEW i \in 1 .. Len(lines[r]), lines[r][i] > 0 PROVE <<r, i>> \in P
  <2>1. r \in DOMAIN lines /\ i \in {j \in DOMAIN lines[r] : lines[r][j] > 0}
    BY <1>1, <1>4, <1>6
  <2>2. <<r, i>> \in {<<r, k>> : k \in {j \in DOMAIN lines[r] : lines[r][j] > 0}}
    BY <2>1
  <2> QED BY <2>1, <2>2 DEF Places
<1> HIDE DEF P
<1>7. ASSUME NEW f \in 1 .. Len(names) PROVE \E p \in P : V(p) = f
  <2> DEFINE m == (f - 1) % rows
             r == m + 1
  <2>1. m \in 0 .. rows - 1
    <3> DEFINE y == f - 1
    <3>1. y \in Nat
      OBVIOUS
    <3> HIDE DEF y
    <3>2. y % rows \in 0 .. rows - 1
      BY <3>1, DivisionIs
    <3> QED BY <3>2 DEF y
  <2>m. (f - 1) % rows = m
    OBVIOUS
  <2> HIDE DEF m
  <2>2. r \in 1 .. rows /\ r - 1 = m
    BY <1>1, <2>1
  <2> HIDE DEF r
  <2>3. PICK i \in 1 .. Len(lines[r]) : lines[r][i] = f
    BY <1>3, <2>2, <2>m
  <2>4. <<r, i>> \in P
    BY <1>6, <2>2, <2>3
  <2>5. V(<<r, i>>) = f
    BY <2>3
  <2> QED BY <2>4, <2>5
<1>8. ASSUME NEW p \in P, NEW q \in P, V(p) = V(q) PROVE p = q
  <2>1. (V(p) - 1) % rows = p[1] - 1 /\ (V(q) - 1) % rows = q[1] - 1
    BY ZenonT(60), <1>3, <1>5
  <2>i. \A a, b \in Int : a - 1 = b - 1 => a = b
    OBVIOUS
  <2>2. p[1] = q[1]
    <3>1. p[1] \in Int /\ q[1] \in Int
      BY <1>5
    <3>2. p[1] - 1 = q[1] - 1
      BY <1>8, <2>1, Zenon
    <3> QED BY <2>i, <3>1, <3>2, Zenon
  <2>3. p[2] = q[2]
    <3> DEFINE i == p[2]
               j == q[2]
               r == p[1]
    <3>1. r \in 1 .. rows /\ i \in 1 .. Len(lines[r]) /\ j \in 1 .. Len(lines[r]) /\ lines[r][i] > 0
      BY <1>5, <2>2
    <3>2. lines[r][i] = lines[r][j]
      BY <1>8, <2>2
    <3> HIDE DEF i, j, r
    <3>3. i = j
      BY <1>3, <3>1, <3>2
    <3> QED BY <3>3 DEF i, j
  <2> QED BY <1>5, <2>2, <2>3
<1>9. \A p \in P : V(p) \in 1 .. Len(names)
        /\ Position(lines[p[1]], p[2] - 1, names, tabsize) = Sum(widths, (V(p) - 1) \div rows)
  BY <1>3, <1>5
<1> QED BY <1>5, <1>7, <1>8, <1>9 DEF P, InPlaces

(* As many places as names: every number has its own.                      *)
LEMMA AsManyPlaces ==
  ASSUME NEW P, NEW n \in Nat, NEW V, \A p \in P : V[p] \in 1 .. n, \A f \in 1 .. n : \E p \in P : V[p] = f,
         \A p, q \in P : V[p] = V[q] => p = q
  PROVE  Cardinality(P) = n
<1> DEFINE b == [f \in 1 .. n |-> CHOOSE p \in P : V[p] = f]
<1>1. \A f \in 1 .. n : b[f] \in P /\ V[b[f]] = f
  OBVIOUS
<1>2. b \in [1 .. n -> P]
  BY <1>1
<1> HIDE DEF b
<1>3. b \in Injection(1 .. n, P)
  BY <1>1, <1>2 DEF Injection, IsInjective
<1>4. b \in Surjection(1 .. n, P)
  <2>1. \A p \in P : b[V[p]] = p
    BY <1>1
  <2> QED BY <1>2, <2>1 DEF Surjection
<1>5. ExistsBijection(1 .. n, P)
  BY <1>3, <1>4 DEF ExistsBijection, Bijection
<1> QED BY <1>5, FS_CountingElements

(* Names laid out in columns: for all names, widths and tabs.              *)
THEOREM NamesLaidOut ==
  ASSUME NEW names \in Seq(Nat), NEW width \in Nat \ {0}, NEW tabsize \in Nat
  PROVE  LaidOut(names, width, tabsize)
<1> DEFINE n     == Len(names)
           lines == Columnate(names, width, tabsize)
<1>n. n \in Nat
  OBVIOUS
<1>1. CASE names = <<>>
  <2>1. lines = <<>> /\ DOMAIN lines = {} /\ DOMAIN names = {} /\ Len(names) = 0
    BY <1>1 DEF Columnate
  <2> HIDE DEF lines
  <2>2. Places(lines) = {}
    BY <2>1 DEF Places
  <2>3. Cardinality({}) = 0
    BY FS_EmptySet
  <2>4. LaidOut(names, width, tabsize) <=>
          /\ {lines[p[1]][p[2]] : p \in Places(lines)} = DOMAIN names
          /\ Cardinality(Places(lines)) = Len(names)
          /\ \A p \in Places(lines) :
               LET file == lines[p[1]][p[2]]
               IN  /\ Position(lines[p[1]], p[2] - 1, names, tabsize) = Sum(<<>>, ((file - 1) \div Len(lines) + 1) - 1)
                   /\ (file - 1) \div Len(lines) + 1 < Len(<<>>) => names[file] + 2 <= <<>>[(file - 1) \div Len(lines) + 1]
          /\ \A r \in DOMAIN lines :
               LET end == Position(lines[r], Len(lines[r]), names, tabsize)
               IN  Len(<<>>) > 1 =>
                     IF \A c \in DOMAIN <<>> : <<>>[c] = MinColumnWidth THEN end <= width + 2 ELSE end < width
    BY <1>1 DEF LaidOut, Places, lines
  <2> QED BY <2>1, <2>2, <2>3, <2>4
<1>2. CASE names # <<>>
  <2>0. n \in Nat \ {0}
    BY <1>2, EmptySeq
  <2>1. PICK cols \in 1 .. n : /\ Chosen(names, width) = Layout(names, width, cols)
                               /\ cols > 1 => Layout(names, width, cols).valid
                               /\ cols * MinColumnWidth <= width + 2
    BY <1>2, ChosenIs
  <2> DEFINE info   == Chosen(names, width)
             widths == info.widths
             rows   == Up(n, cols)
             P      == Places(lines)
             V(p)   == lines[p[1]][p[2]]
             column(f) == (f - 1) \div rows + 1
  <2>2. Measured(info, names, width, cols, n) /\ (cols > 1 => info.valid) /\ cols \in Nat \ {0} /\ cols \in Nat
    <3>1. cols \in Nat \ {0} /\ cols \in Nat
      BY <2>0
    <3> QED BY <1>2, <2>1, <3>1, LayoutIs
  <2>r. rows = Up(Len(names), cols)
    OBVIOUS
  <2> HIDE DEF info, rows
  <2>3. /\ rows \in Nat \ {0} /\ rows <= n
        /\ widths \in Seq(Nat) /\ Len(widths) = cols
        /\ \A r \in 1 .. rows : r <= n /\ Within(names, widths, rows, r)
        /\ cols > 1 => Fits(names, widths, rows)
    BY <1>2, <2>1, <2>2, <2>r, RowsIs
  <2>4. lines = [r \in 1 .. rows |-> LineOf(names, widths, rows, r, tabsize)]
    BY <1>2, <2>3, <2>r DEF Columnate, info
  <2> HIDE DEF lines, widths, n
  <2>5. DOMAIN lines = 1 .. rows /\ Len(lines) = rows
    BY <2>3, <2>4
  <2>6. \A r \in 1 .. rows : Written(lines[r], names, widths, rows, r, tabsize)
    <3> SUFFICES ASSUME NEW r \in 1 .. rows PROVE Written(lines[r], names, widths, rows, r, tabsize)
      OBVIOUS
    <3>1. lines[r] = LineOf(names, widths, rows, r, tabsize)
      BY <2>4
    <3>2. r <= Len(names) /\ Within(names, widths, rows, r) /\ (Len(widths) > 1 => Fits(names, widths, rows))
      BY <2>3 DEF n
    <3>3. Written(LineOf(names, widths, rows, r, tabsize), names, widths, rows, r, tabsize)
      BY <2>3, <3>2, LineIs DEF Written
    <3> QED BY <3>1, <3>3
  <2>7. AllWritten(lines, names, widths, rows, tabsize)
    BY <2>3, <2>5, <2>6 DEF AllWritten
  <2>8. /\ \A p \in P : /\ p[1] \in 1 .. rows /\ p[2] \in 1 .. Len(lines[p[1]]) /\ V(p) \in 1 .. n
                        /\ Position(lines[p[1]], p[2] - 1, names, tabsize) = Sum(widths, (V(p) - 1) \div rows)
        /\ \A f \in 1 .. n : \E p \in P : V(p) = f
        /\ \A p, q \in P : V(p) = V(q) => p = q
    <3>1. InPlaces(lines, names, widths, rows, tabsize)
      BY <2>3, <2>7, PlacesIs
    <3> QED BY <3>1, Zenon DEF InPlaces, n, P
  <2> HIDE DEF P
  <2>9. {V(p) : p \in P} = 1 .. n /\ DOMAIN names = 1 .. n
    <3>1. DOMAIN names = 1 .. n
      BY DEF n
    <3>2. (\A p \in P : V(p) \in 1 .. n) /\ (\A f \in 1 .. n : \E p \in P : V(p) = f)
      BY <2>8
    <3> HIDE DEF V
    <3>3. {V(p) : p \in P} = 1 .. n
      BY <3>2
    <3> QED BY <3>1, <3>3
  <2>10. Cardinality(P) = n
    <3> DEFINE val == [p \in P |-> V(p)]
    <3>1. \A p \in P : val[p] = V(p)
      OBVIOUS
    <3> HIDE DEF val, V
    <3>2. /\ \A p \in P : val[p] \in 1 .. n
          /\ \A f \in 1 .. n : \E p \in P : val[p] = f
          /\ \A p, q \in P : val[p] = val[q] => p = q
      BY <2>8, <3>1
    <3> QED BY <2>0, <3>2, AsManyPlaces
  <2>11. ASSUME NEW f \in 1 .. n
         PROVE  column(f) - 1 = (f - 1) \div rows /\ (column(f) < cols => names[f] + 2 <= widths[column(f)])
    <3> DEFINE q == (f - 1) \div rows
    <3>1. q \in Nat
      <4> DEFINE y == f - 1
      <4>1. y \in Nat
        BY <2>0
      <4> HIDE DEF y
      <4>2. y \div rows \in Nat
        BY <2>3, <4>1, DivisionIs
      <4> QED BY <4>2 DEF y
    <3>h. q = (f - 1) \div rows
      OBVIOUS
    <3> HIDE DEF q
    <3>2. q + 1 - 1 = q
      BY <3>1
    <3>3. ASSUME q + 1 < cols PROVE names[f] + 2 <= widths[q + 1]
      <4>1. cols > 1
        BY <2>2, <3>1, <3>3
      <4>2. Needed(names[f], q + 1, cols) <= widths[q + 1]
        BY <2>3, <3>h, <4>1 DEF Fits, n
      <4>3. q + 1 # cols
        BY <2>2, <3>1, <3>3
      <4> QED BY <4>2, <4>3 DEF Needed
    <3>4. q + 1 < cols => names[f] + 2 <= widths[q + 1]
      BY <3>3
    <3>5. column(f) = q + 1
      BY <3>h
    <3> HIDE DEF column
    <3> QED BY <3>2, <3>4, <3>5, <3>h
  <2>12. ASSUME NEW r \in 1 .. rows, cols > 1
         PROVE  LET end == Position(lines[r], Len(lines[r]), names, tabsize)
                IN  IF \A c \in DOMAIN widths : widths[c] = MinColumnWidth THEN end <= width + 2 ELSE end < width
    <3> DEFINE end == Position(lines[r], Len(lines[r]), names, tabsize)
               line == lines[r]
               total == Sum(widths, cols)
    <3>1. end \in 0 .. Sum(widths, cols)
      <4>1. Written(line, names, widths, rows, r, tabsize) /\ Within(names, widths, rows, r)
        BY <2>3, <2>6
      <4> HIDE DEF line
      <4>h. HasRow(line, names, widths, rows, r, tabsize)
        BY <2>3, <4>1, LineHas
      <4>2. Position(line, Len(line), names, tabsize) \in 0 .. Sum(widths, Len(widths))
        BY <2>3, <2>12, <4>h DEF HasRow
      <4> QED BY <2>3, <4>2 DEF line
    <3>2. DOMAIN widths = 1 .. cols
      BY <2>3
    <3>3. info.length = total /\ (info.length < width \/ \A c \in 1 .. cols : widths[c] = MinColumnWidth)
      BY <2>2, <2>12 DEF Measured, widths
    <3>4. total \in Nat
      <4>1. cols \in 0 .. cols
        BY <2>2
      <4> QED BY <2>3, <4>1, SumIs
    <3>5. (\A c \in 1 .. cols : widths[c] = MinColumnWidth) => total = cols * MinColumnWidth
      BY <2>3, SumOfSame
    <3> HIDE DEF end, total
    <3>6. CASE \A c \in 1 .. cols : widths[c] = MinColumnWidth
      <4>1. total <= width + 2
        BY <2>1, <3>5, <3>6
      <4>2. end <= width + 2
        BY <3>1, <3>4, <4>1 DEF total
      <4> QED BY <3>2, <3>6, <4>2 DEF end
    <3>7. CASE ~(\A c \in 1 .. cols : widths[c] = MinColumnWidth)
      <4>1. total < width
        BY <3>3, <3>7
      <4>2. end < width
        BY <3>1, <3>4, <4>1 DEF total
      <4> QED BY <3>2, <3>7, <4>2 DEF end
    <3> QED BY <3>6, <3>7
  <2>13. LaidOut(names, width, tabsize) <=>
          /\ {V(p) : p \in P} = DOMAIN names
          /\ Cardinality(P) = n
          /\ \A p \in P :
                  /\ Position(lines[p[1]], p[2] - 1, names, tabsize) = Sum(widths, ((V(p) - 1) \div Len(lines) + 1) - 1)
                  /\ (V(p) - 1) \div Len(lines) + 1 < Len(widths)
                       => names[V(p)] + 2 <= widths[(V(p) - 1) \div Len(lines) + 1]
          /\ \A r \in DOMAIN lines :
               LET end == Position(lines[r], Len(lines[r]), names, tabsize)
               IN  Len(widths) > 1 =>
                     IF \A c \in DOMAIN widths : widths[c] = MinColumnWidth THEN end <= width + 2 ELSE end < width
    BY <1>2 DEF LaidOut, Places, lines, P, widths, info, n
  <2>14. \A p \in P :
           /\ Position(lines[p[1]], p[2] - 1, names, tabsize) = Sum(widths, column(V(p)) - 1)
           /\ column(V(p)) < cols => names[V(p)] + 2 <= widths[column(V(p))]
    <3> SUFFICES ASSUME NEW p \in P
                 PROVE  /\ Position(lines[p[1]], p[2] - 1, names, tabsize) = Sum(widths, column(V(p)) - 1)
                        /\ column(V(p)) < cols => names[V(p)] + 2 <= widths[column(V(p))]
      OBVIOUS
    <3>1. V(p) \in 1 .. n
      BY <2>8
    <3>2. column(V(p)) - 1 = (V(p) - 1) \div rows /\ (column(V(p)) < cols => names[V(p)] + 2 <= widths[column(V(p))])
      BY <2>11, <3>1
    <3> HIDE DEF column, V
    <3> QED BY <2>8, <3>2
  <2> QED BY <2>3, <2>5, <2>9, <2>10, <2>12, <2>13, <2>14
<1> QED BY <1>1, <1>2


(* map.column: a column is as wide as its longest cell.                    *)
LEMMA LongestIs ==
  ASSUME NEW h \in Nat, NEW lengths \in [1 .. h -> Nat]
  PROVE  Longest(lengths) \in Nat /\ \A r \in 1 .. h : lengths[r] <= Longest(lengths)
<1> DEFINE Bounded == {m \in 0 .. h : \E b \in Nat : \A r \in 1 .. m : lengths[r] <= b}
<1>1. 0 \in Bounded
  OBVIOUS
<1>2. ASSUME NEW m \in 0 .. h - 1, m \in Bounded PROVE m + 1 \in Bounded
  <2>1. PICK b \in Nat : \A r \in 1 .. m : lengths[r] <= b
    BY <1>2
  <2>2. lengths[m + 1] \in Nat /\ m + 1 \in 0 .. h
    OBVIOUS
  <2> DEFINE l == lengths[m + 1]
             c == b + l
  <2>3. c \in Nat /\ l <= c /\ b <= c
    BY <2>1, <2>2
  <2>4. \A r \in 1 .. m + 1 : r = m + 1 \/ r \in 1 .. m
    OBVIOUS
  <2>5. \A r \in 1 .. m : lengths[r] \in Nat
    OBVIOUS
  <2> HIDE DEF c, l
  <2>6. \A r \in 1 .. m + 1 : lengths[r] <= c
    BY <2>1, <2>3, <2>4, <2>5 DEF l
  <2> QED BY <2>2, <2>3, <2>6
<1> HIDE DEF Bounded
<1>s. \A m \in 0 .. h - 1 : m \in Bounded => m + 1 \in Bounded
  BY <1>2
<1>u. 0 .. h \subseteq Bounded
  BY <1>1, <1>s, UpTo
<1>3. h \in 0 .. h /\ h \in Bounded
  BY <1>u
<1>4. PICK b \in Nat : \A r \in 1 .. h : lengths[r] <= b
  BY <1>3 DEF Bounded
<1> DEFINE S == {0} \cup Range(lengths)
<1>5. S \subseteq 0 .. b /\ S # {} /\ \A r \in 1 .. h : lengths[r] \in S
  BY <1>4 DEF Range
<1> HIDE DEF S
<1>6. Max(S) \in S /\ \A x \in S : Max(S) >= x
  BY <1>5, GreatestIs
<1>7. Longest(lengths) = Max(S)
  BY DEF Longest, S
<1>8. Max(S) \in Nat
  <2>1. 0 .. b \subseteq Nat
    OBVIOUS
  <2>2. S \subseteq Nat
    BY <1>5, <2>1
  <2> QED BY <1>6, <2>2, Zenon
<1>9. ASSUME NEW r \in 1 .. h PROVE lengths[r] <= Max(S)
  <2>1. lengths[r] \in S /\ lengths[r] \in Nat
    BY <1>5
  <2>2. Max(S) >= lengths[r]
    BY <1>6, <2>1
  <2> QED BY <1>8, <2>1, <2>2
<1>10. \A r \in 1 .. h : lengths[r] <= Max(S)
  BY <1>9
<1> QED BY <1>7, <1>8, <1>10, Zenon

Aligned(t, rows, h, D) ==
  /\ t.is = "table" /\ t.cells = rows
  /\ \A r \in DOMAIN t.written : t.written[r] = t.written[1]
  /\ \A r \in 1 .. h : \A c \in D : t.written[r][c] >= rows[r][c]

LEMMA TableIs ==
  ASSUME NEW h \in Nat \ {0}, NEW D, NEW rows \in [1 .. h -> [D -> Nat]]
  PROVE  Aligned(Table(rows), rows, h, D)
<1> DEFINE column(c) == [r \in 1 .. h |-> rows[r][c]]
           widths    == [c \in D |-> Longest(column(c))]
           written   == [r \in 1 .. h |-> [c \in D |-> Padded(rows[r][c], widths[c])]]
<1>1. 1 \in 1 .. h /\ DOMAIN rows = 1 .. h /\ DOMAIN rows[1] = D
  OBVIOUS
<1>2. Table(rows) = [is |-> "table", cells |-> rows, written |-> written]
  BY <1>1 DEF Table
<1>3. ASSUME NEW c \in D PROVE widths[c] \in Nat /\ \A r \in 1 .. h : rows[r][c] \in Nat /\ rows[r][c] <= widths[c]
  <2>1. column(c) \in [1 .. h -> Nat]
    OBVIOUS
  <2>2. \A r \in 1 .. h : column(c)[r] = rows[r][c]
    OBVIOUS
  <2> DEFINE col == column(c)
  <2>3. widths[c] = Longest(col)
    OBVIOUS
  <2> HIDE DEF col, widths
  <2>4. Longest(col) \in Nat /\ \A r \in 1 .. h : col[r] <= Longest(col)
    BY <2>1, LongestIs DEF col
  <2> QED BY <2>1, <2>2, <2>3, <2>4 DEF col
<1> HIDE DEF widths
<1>4. ASSUME NEW r \in 1 .. h, NEW c \in D PROVE Padded(rows[r][c], widths[c]) = widths[c]
  <2> DEFINE x == rows[r][c]
             w == widths[c]
  <2>1. x \in Nat /\ w \in Nat /\ x <= w
    BY <1>3
  <2> HIDE DEF x, w
  <2>2. Padded(x, w) = w
    BY <2>1 DEF Padded
  <2> QED BY <2>2 DEF x, w
<1>5. \A r \in 1 .. h : written[r] = [c \in D |-> widths[c]]
  BY <1>4
<1>6. \A r \in 1 .. h, c \in D : written[r][c] = widths[c]
  BY <1>4
<1>7. DOMAIN written = 1 .. h
  OBVIOUS
<1> HIDE DEF written
<1>8. \A r \in DOMAIN written : written[r] = written[1]
  BY <1>1, <1>5, <1>7
<1>9. \A r \in 1 .. h : \A c \in D : written[r][c] >= rows[r][c]
  BY <1>3, <1>6
<1>10. Table(rows).written = written
  BY <1>2
<1> QED BY <1>2, <1>8, <1>9, <1>10 DEF Aligned

(* A table of keys and values, or of lists of one length.                  *)
LEMMA TablesAlign ==
  ASSUME NEW columns \in Seq(Column)
  PROVE  Tabulated(columns)
<1> DEFINE n     == Len(columns)
           lists == {c \in DOMAIN columns : columns[c].list}
           t     == MapColumn(columns)
<1>1. /\ n \in Nat /\ DOMAIN columns = 1 .. n
      /\ \A c \in 1 .. n : /\ columns[c].key \in Nat /\ columns[c].cells \in Seq(Nat)
                           /\ columns[c].list \/ Len(columns[c].cells) = 1
  BY DEF Column
<1>2. CASE columns = <<>>
  <2>1. t = [is |-> "table", cells |-> <<>>, written |-> <<>>]
    BY <1>2 DEF MapColumn
  <2>2. DOMAIN <<>> = {} /\ DOMAIN columns = {}
    BY <1>2
  <2> HIDE DEF t
  <2>3. t.written = <<>> /\ t.cells = <<>>
    BY <2>1
  <2> QED BY <2>2, <2>3 DEF Tabulated, t
<1>3. CASE columns # <<>> /\ lists = {}
  <2> DEFINE rows == [c \in 1 .. n |-> <<columns[c].key, columns[c].cells[1]>>]
  <2>1. t = Table(rows)
    BY <1>1, <1>3 DEF MapColumn
  <2>2. n \in Nat \ {0}
    BY <1>3, EmptySeq
  <2>3. rows \in [1 .. n -> [1 .. 2 -> Nat]] /\ DOMAIN rows = 1 .. n /\ \A r \in 1 .. n : DOMAIN rows[r] = 1 .. 2
    <3> SUFFICES ASSUME NEW c \in 1 .. n
                 PROVE  <<columns[c].key, columns[c].cells[1]>> \in [1 .. 2 -> Nat]
      OBVIOUS
    <3>1. columns[c].key \in Nat /\ columns[c].cells \in Seq(Nat) /\ Len(columns[c].cells) = 1
      BY <1>1, <1>3
    <3> DEFINE k == columns[c].key
               cells == columns[c].cells
    <3>2. k \in Nat /\ cells \in Seq(Nat) /\ Len(cells) = 1
      BY <3>1
    <3> HIDE DEF k, cells
    <3>3. cells[1] \in Nat
      BY <3>2
    <3>4. <<k, cells[1]>> \in [1 .. 2 -> Nat]
      BY <3>2, <3>3
    <3> QED BY <3>4 DEF k, cells
  <2> HIDE DEF rows, t
  <2>4. /\ t.cells = rows
        /\ \A r \in DOMAIN t.written : t.written[r] = t.written[1]
        /\ \A r \in 1 .. n : \A c \in 1 .. 2 : t.written[r][c] >= rows[r][c]
    <3>1. Aligned(t, rows, n, 1 .. 2)
      BY <2>1, <2>2, <2>3, TableIs
    <3> QED BY <3>1, Zenon DEF Aligned
  <2>5. \A c \in DOMAIN columns : ~columns[c].list
    BY <1>3
  <2> QED BY <2>3, <2>4, <2>5 DEF Tabulated, t
<1>4. CASE columns # <<>> /\ lists # {} /\ (lists # DOMAIN columns \/ \E c \in lists : Len(columns[c].cells) # Len(columns[1].cells))
  <2>1. t = Error
    BY <1>4 DEF MapColumn
  <2>2. t.is # "table"
    BY <2>1 DEF Error
  <2> QED BY <2>2 DEF Tabulated
<1>5. CASE columns # <<>> /\ lists = DOMAIN columns /\ \A c \in lists : Len(columns[c].cells) = Len(columns[1].cells)
  <2> DEFINE height == Len(columns[1].cells)
             header == [c \in 1 .. n |-> columns[c].key]
             body   == [r \in 1 .. height |-> [c \in 1 .. n |-> columns[c].cells[r]]]
             rows   == <<header>> \o body
  <2>1. n \in Nat \ {0} /\ 1 \in 1 .. n /\ lists # {}
    BY <1>1, <1>5, EmptySeq
  <2>2. t = Table(rows)
    BY <1>1, <1>5, <2>1 DEF MapColumn
  <2>3. height \in Nat /\ \A c \in 1 .. n : columns[c].cells \in Seq(Nat) /\ Len(columns[c].cells) = height
    BY <1>1, <1>5, <2>1
  <2>4. header \in [1 .. n -> Nat]
    BY <1>1
  <2>5. body \in [1 .. height -> [1 .. n -> Nat]]
    <3> SUFFICES ASSUME NEW r \in 1 .. height, NEW c \in 1 .. n PROVE columns[c].cells[r] \in Nat
      OBVIOUS
    <3> DEFINE cells == columns[c].cells
    <3>1. cells \in Seq(Nat) /\ Len(cells) = height
      BY <2>3
    <3> HIDE DEF cells, height
    <3>2. cells[r] \in Nat
      BY <3>1
    <3> QED BY <3>2 DEF cells
  <2> HIDE DEF header, body, height
  <2>6. rows \in [1 .. 1 + height -> [1 .. n -> Nat]] /\ Len(rows) = 1 + height
    <3> DEFINE F == [1 .. n -> Nat]
    <3>1. header \in F
      BY <2>4
    <3>2. body \in [1 .. height -> F]
      BY <2>5
    <3> HIDE DEF F
    <3>3. body \in Seq(F) /\ Len(body) = height
      BY <2>3, <3>2
    <3>4. rows \in Seq(F) /\ Len(rows) = 1 + height
      BY <2>3, <3>1, <3>3
    <3>5. rows \in [1 .. 1 + height -> F]
      <4> HIDE DEF rows
      <4> QED BY <2>3, <3>4, LenProperties
    <3> QED BY <3>4, <3>5 DEF F
  <2> HIDE DEF rows, t
  <2>7. 1 + height \in Nat \ {0}
    BY <2>3
  <2>8. DOMAIN rows = 1 .. 1 + height /\ \A r \in 1 .. 1 + height : DOMAIN rows[r] = 1 .. n
    BY <2>6
  <2>9. /\ t.cells = rows
        /\ \A r \in DOMAIN t.written : t.written[r] = t.written[1]
        /\ \A r \in 1 .. 1 + height : \A c \in 1 .. n : t.written[r][c] >= rows[r][c]
    <3>1. Aligned(t, rows, 1 + height, 1 .. n)
      BY <2>2, <2>6, <2>7, TableIs
    <3> QED BY <3>1, Zenon DEF Aligned
  <2>10. \A c \in DOMAIN columns : Len(columns[c].cells) = height
    BY <1>1, <2>3
  <2> QED BY <2>6, <2>8, <2>9, <2>10 DEF Tabulated, t
<1> QED BY <1>2, <1>3, <1>4, <1>5

(* ColumnsAlign holds for all names, widths, tabs and tables.              *)
THEOREM ColumnsAsLaidOut == WellAsked => ColumnsAlign
<1>1. ASSUME WellAsked, Asks("names") PROVE LaidOut(question[1], question[2], question[3])
  <2>1. question[1] \in Seq(Nat) /\ question[2] \in Nat \ {0} /\ question[3] \in Nat
    BY <1>1 DEF WellAsked
  <2> QED BY <2>1, NamesLaidOut
<1>2. ASSUME WellAsked, Asks("table") PROVE Tabulated(question)
  <2>1. question \in Seq(Column)
    BY <1>2 DEF WellAsked
  <2> QED BY <2>1, TablesAlign
<1> QED BY <1>1, <1>2 DEF ColumnsAlign

-----------------------------------------------------------------------------
(* SQL.  A statement is read a part at a time: where a part begins, it is  *)
(* copied up to its end, or is a marker (PartRead).                        *)

(* Where something is first: at x if it is there and not before; behind    *)
(* the end if it is nowhere.                                               *)
LEMMA FirstIs ==
  ASSUME NEW sql \in Seq(SqlSign), NEW found, found \subseteq 1 .. Len(sql), NEW x \in 1 .. Len(sql) + 1,
         x <= Len(sql) => x \in found, \A k \in found : x <= k
  PROVE  FirstOf(sql, found) = x
<1> DEFINE n == Len(sql)
<1>1. n \in Nat
  OBVIOUS
<1>2. CASE x <= n
  <2>1. x \in found /\ \A k \in found : k \in Int
    BY <1>2
  <2>2. \A y \in found : (\A k \in found : y <= k) => y = x
    BY <2>1
  <2>3. Min(found) = x
    BY <2>1, <2>2 DEF Min
  <2> QED BY <2>1, <2>3 DEF FirstOf
<1>3. CASE ~(x <= n)
  <2>1. x = n + 1
    BY <1>1, <1>3
  <2>2. found = {}
    BY <1>1, <2>1
  <2> QED BY <2>1, <2>2 DEF FirstOf
<1> QED BY <1>2, <1>3

(* A part of a text.                                                       *)
LEMMA PartOf ==
  ASSUME NEW s \in Seq(SqlSign), NEW a \in Nat \ {0}, NEW b \in Nat, b <= Len(s), a <= b + 1
  PROVE  /\ SubSeq(s, a, b) \in Seq(SqlSign) /\ Len(SubSeq(s, a, b)) = b - a + 1
         /\ \A j \in 1 .. b - a + 1 : SubSeq(s, a, b)[j] = s[a + j - 1]
<1>1. \A i \in a .. b : s[i] \in SqlSign
  OBVIOUS
<1>2. a \in Int /\ b \in Int
  OBVIOUS
<1>3. /\ SubSeq(s, a, b) \in Seq(SqlSign)
      /\ Len(SubSeq(s, a, b)) = IF a <= b THEN b - a + 1 ELSE 0
      /\ \A j \in 1 .. b - a + 1 : SubSeq(s, a, b)[j] = s[a + j - 1]
  BY <1>1, <1>2, SubSeqProperties
<1>4. (IF a <= b THEN b - a + 1 ELSE 0) = b - a + 1
  OBVIOUS
<1> QED BY <1>3, <1>4

(* A text that begins at w + 1 of another.                                 *)
LEMMA PartSame ==
  ASSUME NEW sql \in Seq(SqlSign), NEW text \in Seq(SqlSign), NEW w \in Nat, w + Len(text) <= Len(sql)
  PROVE  SubSeq(sql, w + 1, w + Len(text)) = text <=> \A j \in 1 .. Len(text) : sql[w + j] = text[j]
<1> DEFINE n == Len(text)
           a == w + 1
           b == w + n
           part == SubSeq(sql, a, b)
<1>1. n \in Nat /\ a \in Nat \ {0} /\ b \in Nat /\ b <= Len(sql) /\ a <= b + 1 /\ b - a + 1 = n
  OBVIOUS
<1>2. \A j \in 1 .. n : a + j - 1 = w + j
  OBVIOUS
<1> HIDE DEF a, b
<1>3. part \in Seq(SqlSign) /\ Len(part) = n /\ \A j \in 1 .. n : part[j] = sql[a + j - 1]
  BY <1>1, PartOf
<1>4. \A j \in 1 .. n : part[j] = sql[w + j]
  BY <1>2, <1>3
<1>5. part = SubSeq(sql, w + 1, w + Len(text))
  BY DEF a, b
<1> HIDE DEF part
<1>6. (\A j \in 1 .. n : sql[w + j] = text[j]) => part = text
  <2> SUFFICES ASSUME \A j \in 1 .. n : sql[w + j] = text[j] PROVE part = text
    OBVIOUS
  <2>1. \A j \in 1 .. Len(part) : part[j] = text[j]
    BY <1>3, <1>4
  <2> QED BY <1>3, <2>1, SeqEqual
<1>7. part = text => \A j \in 1 .. n : sql[w + j] = text[j]
  BY <1>4
<1> QED BY <1>5, <1>6, <1>7

LEMMA OccursIs ==
  ASSUME NEW sql \in Seq(SqlSign), NEW text \in Seq(SqlSign), NEW w \in Nat
  PROVE  SpellsAt(sql, w + 1, text)
           <=> w + Len(text) <= Len(sql) /\ \A j \in 1 .. Len(text) : sql[w + j] = text[j]
<1> DEFINE n == Len(text)
<1>1. n \in Nat /\ w + 1 + n - 1 = w + n
  OBVIOUS
<1>2. w + n <= Len(sql) => (SubSeq(sql, w + 1, w + n) = text <=> \A j \in 1 .. n : sql[w + j] = text[j])
  BY PartSame
<1> QED BY <1>1, <1>2 DEF SpellsAt

(* A text between what stands before and after it.                         *)
StandsBetween(sql, before, text, after) ==
  /\ sql \in Seq(SqlSign) /\ before \in Seq(SqlSign) /\ text \in Seq(SqlSign) /\ after \in Seq(SqlSign)
  /\ Len(sql) = Len(before) + Len(text) + Len(after)
  /\ \A j \in 1 .. Len(before) : sql[j] = before[j]
  /\ \A j \in 1 .. Len(text) : sql[Len(before) + j] = text[j]
  /\ \A j \in 1 .. Len(after) : sql[Len(before) + Len(text) + j] = after[j]

Parted(sql, before, text, after) ==
  LET w == Len(before)
      n == Len(text)
  IN  /\ SubSeq(sql, 1, w) = before
      /\ SubSeq(sql, w + n + 1, Len(sql)) = after
      /\ SubSeq(sql, w + 1, w + n) = text
      /\ SignOn(sql, w + n + 1) = SignOn(after, 1)
      /\ \A j \in 1 .. n : SignOn(sql, w + j) = text[j] /\ sql[w + j] = text[j]

LEMMA BetweenIs ==
  ASSUME NEW sql, NEW before, NEW text, NEW after, StandsBetween(sql, before, text, after)
  PROVE  Parted(sql, before, text, after)
<1> DEFINE w == Len(before)
           n == Len(text)
           m == Len(after)
           v == w + n
<1>1. /\ sql \in Seq(SqlSign) /\ before \in Seq(SqlSign) /\ text \in Seq(SqlSign) /\ after \in Seq(SqlSign)
      /\ w \in Nat /\ n \in Nat /\ m \in Nat /\ v \in Nat
      /\ Len(sql) = v + m
      /\ \A j \in 1 .. w : sql[j] = before[j]
      /\ \A j \in 1 .. n : sql[w + j] = text[j]
      /\ \A j \in 1 .. m : sql[v + j] = after[j]
  BY DEF StandsBetween
<1>h. w = Len(before) /\ n = Len(text) /\ m = Len(after) /\ v = w + n
  OBVIOUS
<1> HIDE DEF w, n, m, v
<1>2. SubSeq(sql, w + 1, w + n) = text
  <2>1. w + n <= v + m
    BY <1>1, <1>h
  <2>2. w + Len(text) <= Len(sql)
    BY <1>1, <1>h, <2>1
  <2>3. \A j \in 1 .. Len(text) : sql[w + j] = text[j]
    BY <1>1, <1>h
  <2>4. SubSeq(sql, w + 1, w + Len(text)) = text
    BY <1>1, <2>2, <2>3, PartSame
  <2> QED BY <1>h, <2>4
<1>3. SubSeq(sql, v + 1, v + m) = after
  <2>1. v + Len(after) <= Len(sql) /\ \A j \in 1 .. Len(after) : sql[v + j] = after[j]
    BY <1>1, <1>h
  <2>2. SubSeq(sql, v + 1, v + Len(after)) = after
    BY <1>1, <2>1, PartSame
  <2> QED BY <1>h, <2>2
<1>4. SubSeq(sql, 0 + 1, 0 + w) = before
  <2>1. \A j \in 1 .. w : 0 + j = j
    OBVIOUS
  <2>2. \A j \in 1 .. w : sql[0 + j] = before[j]
    BY <1>1, <2>1
  <2>3. 0 + w <= Len(sql)
    BY <1>1, <1>h
  <2> QED BY <1>1, <1>h, <2>2, <2>3, PartSame
<1>5. 0 + 1 = 1 /\ 0 + w = w
  BY <1>1
<1>6. SignOn(sql, v + 1) = SignOn(after, 1)
  <2>1. DOMAIN sql = 1 .. v + m /\ DOMAIN after = 1 .. m
    BY <1>1, <1>h
  <2>2. CASE m = 0
    BY <1>1, <2>1, <2>2 DEF SignOn
  <2>3. CASE m >= 1
    <3>1. v + 1 \in 1 .. v + m /\ 1 \in 1 .. m
      BY <1>1, <2>3
    <3> QED BY <1>1, <2>1, <3>1 DEF SignOn
  <2> QED BY <1>1, <2>2, <2>3
<1>7. \A j \in 1 .. n : SignOn(sql, w + j) = text[j]
  <2>1. DOMAIN sql = 1 .. w + n + m
    BY <1>1, <1>h
  <2>2. \A j \in 1 .. n : w + j \in 1 .. w + n + m
    BY <1>1
  <2> QED BY <1>1, <2>1, <2>2 DEF SignOn
<1>8. SubSeq(sql, w + n + 1, Len(sql)) = after
  BY <1>1, <1>3, <1>h
<1>9. SubSeq(sql, 1, w) = before
  BY <1>4, <1>5
<1> QED BY <1>1, <1>2, <1>6, <1>7, <1>8, <1>9, <1>h DEF Parted

(* Signs that are copied, one or two at a time.                            *)
LEMMA PlainCopied ==
  ASSUME NEW sql, NEW i, sql[i] \in Ordinary \cup {"-", "/"},
         sql[i] = "-" => SignOn(sql, i + 1) # "-", sql[i] = "/" => SignOn(sql, i + 1) # "*"
  PROVE  ReadUpTo(sql, i) = i + 1
<1> DEFINE c == sql[i]
           d == SignOn(sql, i + 1)
<1>1. c # "?" /\ c # "'" /\ c # "\"" /\ c # "$"
  BY DEF Ordinary
<1>2. c = sql[i] /\ d = SignOn(sql, i + 1) /\ (c = "-" => d # "-") /\ (c = "/" => d # "*")
  OBVIOUS
<1>3. <<c, d>> # <<"-", "-">> /\ <<c, d>> # <<"/", "*">> /\ c \notin {"'", "\""}
      /\ <<c, d>> \notin {<<"?", "|">>, <<"?", "&">>, <<"?", "?">>}
  BY <1>1, <1>2
<1> QED BY <1>1, <1>3 DEF ReadUpTo

LEMMA OperatorCopied ==
  ASSUME NEW sql, NEW i, sql[i] = "?", SignOn(sql, i + 1) \in {"|", "&", "?"}
  PROVE  ReadUpTo(sql, i) = i + 2
<1> DEFINE d == SignOn(sql, i + 1)
<1>1. /\ <<"?", d>> # <<"-", "-">> /\ <<"?", d>> # <<"/", "*">> /\ "?" \notin {"'", "\""} /\ "?" # "$"
      /\ <<"?", d>> \in {<<"?", "|">>, <<"?", "&">>, <<"?", "?">>}
  OBVIOUS
<1> QED BY <1>1 DEF ReadUpTo

LEMMA QuestionCopied ==
  ASSUME NEW sql, NEW i, sql[i] = "?", SignOn(sql, i + 1) \notin {"|", "&", "?"}
  PROVE  ReadUpTo(sql, i) = IF AsksForKey(sql, i) THEN i + 1 ELSE i
<1> DEFINE d == SignOn(sql, i + 1)
<1>1. /\ <<"?", d>> # <<"-", "-">> /\ <<"?", d>> # <<"/", "*">> /\ "?" \notin {"'", "\""} /\ "?" # "$"
      /\ <<"?", d>> \notin {<<"?", "|">>, <<"?", "&">>, <<"?", "?">>}
  OBVIOUS
<1> QED BY <1>1 DEF ReadUpTo

(* Where the others are copied up to.                                      *)
LEMMA OpenedCopied ==
  ASSUME NEW sql, NEW i
  PROVE  /\ sql[i] = "-" /\ SignOn(sql, i + 1) = "-" => ReadUpTo(sql, i) = EndOfLine(sql, i + 2)
         /\ sql[i] = "/" /\ SignOn(sql, i + 1) = "*" => ReadUpTo(sql, i) = EndOfComment(sql, i + 2)
         /\ sql[i] \in {"'", "\""} => ReadUpTo(sql, i) = EndOfQuoted(sql, i + 1, sql[i])
         /\ sql[i] = "$" => ReadUpTo(sql, i) = IF SkipDollarQuoted(sql, i) > i THEN SkipDollarQuoted(sql, i)
                                                 ELSE EndOfDigits(sql, i + 1)
<1> DEFINE c == sql[i]
           d == SignOn(sql, i + 1)
<1>1. CASE c = "-" /\ d = "-"
  <2>1. <<c, d>> = <<"-", "-">>
    BY <1>1
  <2>2. c \notin {"'", "\""} /\ c # "$" /\ c # "/"
    BY <1>1
  <2> QED BY <2>1, <2>2 DEF ReadUpTo
<1>2. CASE c = "/" /\ d = "*"
  <2>1. <<c, d>> = <<"/", "*">> /\ <<c, d>> # <<"-", "-">>
    BY <1>2
  <2>2. c \notin {"'", "\""} /\ c # "$" /\ c # "-"
    BY <1>2
  <2> QED BY <2>1, <2>2 DEF ReadUpTo
<1>3. CASE c \in {"'", "\""}
  <2>1. <<c, d>> # <<"/", "*">> /\ <<c, d>> # <<"-", "-">>
    BY <1>3
  <2>2. c # "$" /\ c # "-" /\ c # "/"
    BY <1>3
  <2> QED BY <1>3, <2>1, <2>2 DEF ReadUpTo
<1>4. CASE c = "$"
  <2>1. <<c, d>> # <<"/", "*">> /\ <<c, d>> # <<"-", "-">>
    BY <1>4
  <2>2. c \notin {"'", "\""} /\ c # "-" /\ c # "/"
    BY <1>4
  <2> QED BY <1>4, <2>1, <2>2 DEF ReadUpTo
<1> QED BY <1>1, <1>2, <1>3, <1>4

(* What a part stands for is copied, or bound.                             *)
Read(sql, i, p) ==
  /\ Spelt(p) \in Seq(SqlSign) /\ Len(Spelt(p)) \in Nat \ {0}
  /\ ReadUpTo(sql, i) = IF p.is = "marker" THEN i ELSE i + Len(Spelt(p))

(* How a part is spelt.                                                    *)
LEMMA SpeltIs ==
  ASSUME NEW p \in Part
  PROVE  /\ p.is \in {"marker", "key"} => Spelt(p) = <<"?">>
         /\ p.is \in {"plain", "operator"} => Spelt(p) = p.body
         /\ p.is = "number" => Spelt(p) = <<"$">> \o p.body
         /\ p.is = "quoted" => Spelt(p) = p.by \o (Doubled(p.body, p.by[1]) \o p.by)
         /\ p.is = "remark" => Spelt(p) = <<"-", "-">> \o p.body
         /\ p.is = "comment" => Spelt(p) = <<"/", "*">> \o (p.body \o <<"*", "/">>)
         /\ p.is = "dollars" => Spelt(p) = p.by \o (p.body \o p.by)
         /\ p.by \in Seq(SqlSign) /\ p.body \in Seq(SqlSign)
<1>1. p.by \in Seq(SqlSign) /\ p.body \in Seq(SqlSign)
  BY DEF Part
<1>2. p.is \in {"marker", "key"} => Spelt(p) = <<"?">>
  BY DEF Spelt
<1>3. p.is \in {"plain", "operator"} => Spelt(p) = p.body
  BY DEF Spelt
<1>4. p.is = "number" => Spelt(p) = <<"$">> \o p.body
  BY DEF Spelt
<1>5. p.is = "quoted" => Spelt(p) = p.by \o (Doubled(p.body, p.by[1]) \o p.by)
  BY DEF Spelt
<1>6. p.is = "remark" => Spelt(p) = <<"-", "-">> \o p.body
  BY DEF Spelt
<1>7. p.is = "comment" => Spelt(p) = <<"/", "*">> \o (p.body \o <<"*", "/">>)
  BY DEF Spelt
<1>8. p.is = "dollars" => Spelt(p) = p.by \o (p.body \o p.by)
  BY DEF Spelt
<1> QED BY <1>1, <1>2, <1>3, <1>4, <1>5, <1>6, <1>7, <1>8

LEMMA PlainRead ==
  ASSUME NEW p \in Part, NEW before, NEW after, NEW sql, StandsBetween(sql, before, Spelt(p), after),
         p.is \in {"plain", "operator"}, MayStand(p, before, after)
  PROVE  Read(sql, Len(before) + 1, p)
<1> DEFINE i == Len(before) + 1
           t == Spelt(p)
<1>1. t = p.body /\ t \in Seq(SqlSign) /\ p.is # "marker"
  BY SpeltIs
<1>2. Len(before) \in Nat
  BY DEF StandsBetween
<1>p. Parted(sql, before, t, after)
  BY BetweenIs
<1>3. \A j \in 1 .. Len(t) : sql[Len(before) + j] = t[j] /\ SignOn(sql, Len(before) + j) = t[j]
  BY <1>p DEF Parted
<1>4. SignOn(sql, Len(before) + Len(t) + 1) = SignOn(after, 1)
  BY <1>p DEF Parted
<1> HIDE DEF t
<1>5. CASE p.is = "plain"
  <2>1. /\ Len(t) = 1
        /\ \/ t[1] \in Ordinary
           \/ t[1] = "-" /\ SignOn(after, 1) # "-"
           \/ t[1] = "/" /\ SignOn(after, 1) # "*"
    BY <1>1, <1>5 DEF MayStand
  <2>2. sql[i] = t[1] /\ SignOn(sql, i + 1) = SignOn(after, 1)
    BY <1>2, <1>3, <1>4, <2>1
  <2>3. t[1] \in Ordinary => t[1] # "-" /\ t[1] # "/"
    BY DEF Ordinary
  <2>4. ReadUpTo(sql, i) = i + 1
    BY <2>1, <2>2, <2>3, PlainCopied
  <2> QED BY <1>1, <2>1, <2>4 DEF Read, t
<1>6. CASE p.is = "operator"
  <2>1. t \in {<<"?", "|">>, <<"?", "&">>, <<"?", "?">>}
    BY <1>1, <1>6 DEF MayStand
  <2>2. Len(t) = 2 /\ t[1] = "?" /\ t[2] \in {"|", "&", "?"}
    BY <2>1
  <2>3. sql[i] = t[1] /\ SignOn(sql, i + 1) = t[2]
    <3>1. 1 \in 1 .. Len(t) /\ 2 \in 1 .. Len(t) /\ Len(before) + 2 = i + 1
      BY <1>2, <2>2
    <3> QED BY <1>3, <3>1
  <2>4. ReadUpTo(sql, i) = i + 2
    BY <2>2, <2>3, OperatorCopied
  <2> QED BY <1>1, <2>2, <2>4 DEF Read, t
<1> QED BY <1>5, <1>6

(* The first sign of a text that is none is not a blank.                   *)
LEMMA FirstSign ==
  ASSUME NEW text \in Seq(SqlSign), text # <<>>, text[1] \notin Blanks
  PROVE  FirstOn(text) = text[1]
<1> DEFINE found == {k \in DOMAIN text : text[k] \notin Blanks}
<1>1. 1 \in DOMAIN text /\ DOMAIN text = 1 .. Len(text) /\ Len(text) \in Nat
  BY EmptySeq
<1>2. 1 \in found /\ found \subseteq 1 .. Len(text) /\ 1 \in 1 .. Len(text) + 1
  BY <1>1
<1>3. \A k \in found : 1 <= k
  BY <1>1
<1> HIDE DEF found
<1>4. FirstOf(text, found) = 1
  BY <1>2, <1>3, FirstIs
<1>5. FirstOn(text) = SignOn(text, FirstOf(text, found))
  BY DEF FirstOn, found
<1> QED BY <1>1, <1>4, <1>5 DEF SignOn

LEMMA QuestionRead ==
  ASSUME NEW p \in Part, NEW before, NEW after, NEW sql, StandsBetween(sql, before, Spelt(p), after),
         p.is \in {"marker", "key"}, MayStand(p, before, after)
  PROVE  Read(sql, Len(before) + 1, p)
<1> DEFINE i == Len(before) + 1
           t == Spelt(p)
<1>1. t = <<"?">> /\ t \in Seq(SqlSign) /\ Len(t) = 1 /\ t[1] = "?"
  <2>1. t = <<"?">>
    BY SpeltIs
  <2> QED BY <2>1 DEF StandsBetween
<1>2. Len(before) \in Nat /\ after \in Seq(SqlSign)
  BY DEF StandsBetween
<1>3. \A j \in 1 .. Len(t) : sql[Len(before) + j] = t[j]
  BY DEF StandsBetween
<1>4. SignOn(sql, Len(before) + Len(t) + 1) = SignOn(after, 1) /\ SubSeq(sql, 1, Len(before)) = before
      /\ SubSeq(sql, Len(before) + Len(t) + 1, Len(sql)) = after
  <2>1. Parted(sql, before, t, after)
    BY BetweenIs
  <2> QED BY <2>1 DEF Parted
<1> HIDE DEF t
<1>5. sql[i] = "?" /\ SignOn(sql, i + 1) = SignOn(after, 1)
  BY <1>1, <1>2, <1>3, <1>4
<1>6. AsksForKey(sql, i) <=> FirstOn(after) = "'" /\ LastOn(before) # "="
  <2>1. i - 1 = Len(before) /\ i + 1 = Len(before) + Len(t) + 1
    BY <1>1, <1>2
  <2> QED BY <1>4, <2>1 DEF AsksForKey, LastBefore
<1>7. CASE p.is = "marker"
  <2>1. SignOn(after, 1) \notin {"|", "&", "?"} /\ (FirstOn(after) = "'" => LastOn(before) = "=")
    BY <1>7 DEF MayStand
  <2>2. ~AsksForKey(sql, i)
    BY <1>6, <2>1
  <2>3. ReadUpTo(sql, i) = i
    BY <1>5, <2>1, <2>2, QuestionCopied
  <2> QED BY <1>1, <1>7, <2>3 DEF Read, t
<1>8. CASE p.is = "key"
  <2>1. FirstOn(after) = "'" /\ LastOn(before) # "="
    BY <1>8 DEF MayStand
  <2>2. SignOn(after, 1) \notin {"|", "&", "?"}
    <3> SUFFICES ASSUME SignOn(after, 1) \in {"|", "&", "?"} PROVE FALSE
      OBVIOUS
    <3>1. DOMAIN after = 1 .. Len(after)
      BY <1>2
    <3>2. 1 \in DOMAIN after /\ after[1] \in {"|", "&", "?"}
      BY DEF SignOn
    <3>d. DOMAIN <<>> = {}
      OBVIOUS
    <3>e. after # <<>>
      BY <3>2, <3>d
    <3>3. after # <<>> /\ after[1] \notin Blanks
      BY <3>2, <3>e DEF Blanks
    <3>4. FirstOn(after) = after[1]
      BY <1>2, <3>3, FirstSign
    <3> QED BY <2>1, <3>2, <3>4
  <2>3. ReadUpTo(sql, i) = i + 1
    BY <1>5, <1>6, <2>1, <2>2, QuestionCopied
  <2> QED BY <1>1, <1>8, <2>3 DEF Read, t
<1> QED BY <1>7, <1>8

(* Texts one after the other.                                              *)
Follow(t, a, b) ==
  /\ t \in Seq(SqlSign) /\ Len(t) = Len(a) + Len(b)
  /\ \A j \in 1 .. Len(a) : t[j] = a[j]
  /\ \A j \in 1 .. Len(b) : t[Len(a) + j] = b[j]

LEMMA TwoJoined ==
  ASSUME NEW a \in Seq(SqlSign), NEW b \in Seq(SqlSign)
  PROVE  Follow(a \o b, a, b)
<1> DEFINE t == a \o b
           n == Len(a)
           m == Len(b)
<1>1. n \in Nat /\ m \in Nat
  OBVIOUS
<1>2. t \in Seq(SqlSign) /\ Len(t) = n + m /\ \A j \in 1 .. n + m : t[j] = IF j <= n THEN a[j] ELSE b[j - n]
  BY ConcatProperties
<1> HIDE DEF t
<1>h. n = Len(a) /\ m = Len(b)
  OBVIOUS
<1> HIDE DEF n, m
<1>3. \A j \in 1 .. n : j \in 1 .. n + m /\ j <= n
  BY <1>1
<1>4. \A j \in 1 .. n : t[j] = a[j]
  BY <1>2, <1>3
<1>5. ASSUME NEW j \in 1 .. m PROVE t[n + j] = b[j]
  <2> DEFINE k == n + j
  <2>1. k \in 1 .. n + m /\ ~(k <= n) /\ k - n = j
    BY <1>1
  <2> HIDE DEF k
  <2>2. t[k] = IF k <= n THEN a[k] ELSE b[k - n]
    BY <1>2, <2>1
  <2>3. t[k] = b[j]
    BY <2>1, <2>2
  <2> QED BY <2>3 DEF k
<1>6. \A j \in 1 .. m : t[n + j] = b[j]
  BY <1>5
<1> QED BY <1>2, <1>4, <1>6, <1>h DEF Follow, t

LEMMA JoinedIs ==
  ASSUME NEW a \in Seq(SqlSign), NEW b \in Seq(SqlSign), NEW c \in Seq(SqlSign)
  PROVE  StandsBetween(a \o (b \o c), a, b, c)
<1> DEFINE bc == b \o c
           t  == a \o bc
           n  == Len(a)
           m  == Len(b)
           l  == Len(c)
<1>1. Follow(bc, b, c)
  BY TwoJoined
<1> HIDE DEF bc
<1>2. bc \in Seq(SqlSign)
  BY <1>1 DEF Follow
<1>3. Follow(t, a, bc)
  BY <1>2, TwoJoined
<1>t. t = a \o (b \o c)
  BY DEF bc
<1>4. n \in Nat /\ m \in Nat /\ l \in Nat /\ n = Len(a) /\ m = Len(b) /\ l = Len(c)
  OBVIOUS
<1> HIDE DEF t, n, m, l
<1>5. /\ Len(bc) = m + l /\ (\A j \in 1 .. m : bc[j] = b[j]) /\ \A j \in 1 .. l : bc[m + j] = c[j]
      /\ t \in Seq(SqlSign) /\ Len(t) = n + Len(bc)
      /\ (\A j \in 1 .. n : t[j] = a[j]) /\ \A j \in 1 .. Len(bc) : t[n + j] = bc[j]
  BY <1>1, <1>3, <1>4 DEF Follow
<1>6. ASSUME NEW j \in 1 .. m PROVE t[n + j] = b[j]
  <2>1. j \in 1 .. Len(bc)
    BY <1>4, <1>5
  <2> QED BY <1>5, <2>1
<1>7. ASSUME NEW j \in 1 .. l PROVE t[n + m + j] = c[j]
  <2>1. m + j \in 1 .. Len(bc) /\ n + m + j = n + (m + j)
    BY <1>4, <1>5
  <2>2. t[n + (m + j)] = bc[m + j]
    BY <1>5, <2>1
  <2> QED BY <1>5, <2>1, <2>2
<1>8. Len(t) = n + m + l
  BY <1>4, <1>5
<1>9. /\ \A j \in 1 .. m : t[n + j] = b[j]
      /\ \A j \in 1 .. l : t[n + m + j] = c[j]
  BY <1>6, <1>7
<1> QED BY <1>4, <1>5, <1>8, <1>9, <1>t DEF StandsBetween

(* Whatever is at a place of a statement is a sign.                        *)
LEMMA IsSign ==
  ASSUME NEW sql \in Seq(SqlSign), NEW k \in 1 .. Len(sql)
  PROVE  SignOn(sql, k) = sql[k] /\ sql[k] \in SqlSign /\ sql[k] # "end"
<1>1. DOMAIN sql = 1 .. Len(sql) /\ sql[k] \in SqlSign
  OBVIOUS
<1>2. "end" \notin SqlSign
  BY DEF SqlSign, Ordinary
<1> QED BY <1>1, <1>2 DEF SignOn

LEMMA RemarkRead ==
  ASSUME NEW p \in Part, NEW before, NEW after, NEW sql, StandsBetween(sql, before, Spelt(p), after),
         p.is = "remark", MayStand(p, before, after)
  PROVE  Read(sql, Len(before) + 1, p)
<1> DEFINE w == Len(before)
           t == Spelt(p)
           b == p.body
           i == w + 1
           m == Len(b)
           x == w + m + 3
           found == {k \in i + 2 .. Len(sql) : sql[k] = "nl"}
<1>1. t = <<"-", "-">> \o b /\ b \in Seq(SqlSign)
  BY SpeltIs
<1>2. (\A j \in DOMAIN b : b[j] # "nl") /\ SignOn(after, 1) \in {"nl", "end"}
  BY DEF MayStand
<1>3. <<"-", "-">> \in Seq(SqlSign) /\ Len(<<"-", "-">>) = 2
  BY DEF SqlSign
<1>4. t \in Seq(SqlSign) /\ Len(t) = 2 + m /\ t[1] = "-" /\ t[2] = "-" /\ \A j \in 1 .. m : t[2 + j] = b[j]
  <2>1. Follow(t, <<"-", "-">>, b)
    BY <1>1, <1>3, TwoJoined
  <2> QED BY <1>3, <2>1 DEF Follow
<1>5. w \in Nat /\ m \in Nat /\ DOMAIN b = 1 .. m /\ sql \in Seq(SqlSign) /\ Len(sql) \in Nat /\ w + Len(t) <= Len(sql)
  BY <1>1 DEF StandsBetween
<1>6. Parted(sql, before, t, after)
  BY BetweenIs
<1>h. w = Len(before) /\ t = Spelt(p)
  OBVIOUS
<1> HIDE DEF t, w, b, m
<1>7. (\A j \in 1 .. Len(t) : sql[w + j] = t[j] /\ SignOn(sql, w + j) = t[j]) /\ SignOn(sql, w + Len(t) + 1) = SignOn(after, 1)
  BY <1>6, <1>h DEF Parted
<1>8. sql[i] = "-" /\ SignOn(sql, i + 1) = "-"
  <2>1. 1 \in 1 .. Len(t) /\ 2 \in 1 .. Len(t) /\ w + 2 = i + 1
    BY <1>4, <1>5
  <2> QED BY <1>4, <1>7, <2>1
<1>9. found \subseteq 1 .. Len(sql) /\ x \in 1 .. Len(sql) + 1 /\ x = w + Len(t) + 1
  BY <1>4, <1>5
<1>10. x <= Len(sql) => x \in found
  <2> SUFFICES ASSUME x <= Len(sql) PROVE x \in found
    OBVIOUS
  <2>1. x \in 1 .. Len(sql) /\ x \in i + 2 .. Len(sql)
    BY <1>5, <1>9
  <2>2. SignOn(sql, x) = sql[x] /\ sql[x] # "end"
    BY <1>5, <2>1, IsSign
  <2>3. SignOn(sql, x) \in {"nl", "end"}
    BY <1>2, <1>7, <1>9
  <2> QED BY <2>1, <2>2, <2>3
<1>11. ASSUME NEW k \in found PROVE x <= k
  <2> SUFFICES ASSUME ~(x <= k) PROVE FALSE
    OBVIOUS
  <2> DEFINE j == k - w - 2
  <2>1. k \in i + 2 .. Len(sql) /\ sql[k] = "nl" /\ k \in Int
    OBVIOUS
  <2>2. j \in 1 .. m /\ 2 + j \in 1 .. Len(t) /\ w + (2 + j) = k
    BY <1>4, <1>5, <2>1
  <2> HIDE DEF j
  <2>3. sql[k] = b[j]
    BY <1>4, <1>7, <2>2
  <2> QED BY <1>2, <1>5, <2>1, <2>2, <2>3
<1> HIDE DEF found
<1>12. FirstOf(sql, found) = x
  BY ZenonT(60), <1>5, <1>9, <1>10, <1>11, FirstIs
<1>13. EndOfLine(sql, i + 2) = x
  BY <1>12 DEF EndOfLine, found
<1>14. ReadUpTo(sql, i) = x
  BY <1>8, <1>13, OpenedCopied
<1>15. x = i + Len(t) /\ Len(t) \in Nat \ {0}
  BY <1>4, <1>5
<1> QED BY <1>4, <1>14, <1>15, <1>h DEF Read

LEMMA NumberRead ==
  ASSUME NEW p \in Part, NEW before, NEW after, NEW sql, StandsBetween(sql, before, Spelt(p), after),
         p.is = "number", MayStand(p, before, after)
  PROVE  Read(sql, Len(before) + 1, p)
<1> DEFINE w == Len(before)
           t == Spelt(p)
           b == p.body
           i == w + 1
           m == Len(b)
           x == w + m + 2
           found == {k \in i + 1 .. Len(sql) : sql[k] # "1"}
<1>1. t = <<"$">> \o b /\ b \in Seq(SqlSign)
  BY SpeltIs
<1>2. b # <<>> /\ (\A j \in DOMAIN b : b[j] = "1") /\ SignOn(after, 1) # "1"
  BY DEF MayStand
<1>3. <<"$">> \in Seq(SqlSign) /\ Len(<<"$">>) = 1
  BY DEF SqlSign
<1>4. t \in Seq(SqlSign) /\ Len(t) = 1 + m /\ t[1] = "$" /\ \A j \in 1 .. m : t[1 + j] = b[j]
  <2>1. Follow(t, <<"$">>, b)
    BY <1>1, <1>3, TwoJoined
  <2> QED BY <1>3, <2>1 DEF Follow
<1>5. w \in Nat /\ m \in Nat /\ DOMAIN b = 1 .. m /\ sql \in Seq(SqlSign) /\ Len(sql) \in Nat /\ w + Len(t) <= Len(sql)
  BY <1>1 DEF StandsBetween
<1>n. m >= 1
  BY <1>1, <1>2, EmptySeq
<1>6. Parted(sql, before, t, after)
  BY BetweenIs
<1>h. w = Len(before) /\ t = Spelt(p)
  OBVIOUS
<1> HIDE DEF t, w, b, m
<1>7. (\A j \in 1 .. Len(t) : sql[w + j] = t[j] /\ SignOn(sql, w + j) = t[j]) /\ SignOn(sql, w + Len(t) + 1) = SignOn(after, 1)
  BY <1>6, <1>h DEF Parted
<1>8. sql[i] = "$" /\ SignOn(sql, i + 1) = "1"
  <2>1. 1 \in 1 .. Len(t) /\ 1 + 1 \in 1 .. Len(t) /\ w + (1 + 1) = i + 1 /\ 1 \in 1 .. m
    BY <1>4, <1>5, <1>n
  <2> QED BY SMTT(30), <1>2, <1>4, <1>5, <1>7, <2>1
<1>9. found \subseteq 1 .. Len(sql) /\ x \in 1 .. Len(sql) + 1 /\ x = w + Len(t) + 1
  BY <1>4, <1>5
<1>10. x <= Len(sql) => x \in found
  <2> SUFFICES ASSUME x <= Len(sql) PROVE x \in found
    OBVIOUS
  <2>1. x \in 1 .. Len(sql) /\ x \in i + 1 .. Len(sql)
    BY <1>5, <1>9
  <2>2. SignOn(sql, x) = sql[x]
    BY <1>5, <2>1, IsSign
  <2>3. SignOn(sql, x) # "1"
    BY <1>2, <1>7, <1>9
  <2> QED BY <2>1, <2>2, <2>3
<1>11. ASSUME NEW k \in found PROVE x <= k
  <2> SUFFICES ASSUME ~(x <= k) PROVE FALSE
    OBVIOUS
  <2> DEFINE j == k - w - 1
  <2>1. k \in i + 1 .. Len(sql) /\ sql[k] # "1" /\ k \in Int
    OBVIOUS
  <2>2. j \in 1 .. m /\ 1 + j \in 1 .. Len(t) /\ w + (1 + j) = k
    BY <1>4, <1>5, <2>1
  <2> HIDE DEF j
  <2>3. sql[k] = b[j]
    BY <1>4, <1>7, <2>2
  <2> QED BY <1>2, <1>5, <2>1, <2>2, <2>3
<1> HIDE DEF found
<1>12. FirstOf(sql, found) = x
  BY ZenonT(60), <1>5, <1>9, <1>10, <1>11, FirstIs
<1>13. EndOfDigits(sql, i + 1) = x
  BY <1>12 DEF EndOfDigits, found
<1>s. SkipDollarQuoted(sql, i) = i /\ ~(i > i)
  BY <1>5, <1>8 DEF SkipDollarQuoted
<1>14. ReadUpTo(sql, i) = x
  BY <1>8, <1>13, <1>s, OpenedCopied
<1>15. x = i + Len(t) /\ Len(t) \in Nat \ {0}
  BY <1>4, <1>5
<1> QED BY <1>4, <1>14, <1>15, <1>h DEF Read

(* A text that is enclosed, with the beginning of its end behind it.       *)
LEMMA EndsIs ==
  ASSUME NEW b \in Seq(SqlSign), NEW mark \in Seq(SqlSign), Len(mark) >= 1, EndedBy(b, mark),
         NEW sql \in Seq(SqlSign), NEW v \in Nat, v + Len(b) + Len(mark) <= Len(sql),
         \A j \in 1 .. Len(b) : sql[v + j] = b[j],
         \A j \in 1 .. Len(mark) : sql[v + Len(b) + j] = mark[j],
         NEW k \in 1 .. Len(b)
  PROVE  \E l \in 1 .. Len(mark) : sql[v + (k - 1) + l] # mark[l]
<1> SUFFICES ASSUME \A l \in 1 .. Len(mark) : sql[v + (k - 1) + l] = mark[l] PROVE FALSE
  OBVIOUS
<1> DEFINE n == Len(mark)
           m == Len(b)
           front == SubSeq(mark, 1, n - 1)
           c == b \o front
<1>1. n \in Nat /\ m \in Nat /\ n >= 1 /\ 1 \in Nat \ {0} /\ n - 1 \in Nat /\ n - 1 <= Len(mark) /\ 1 <= n - 1 + 1 /\ n - 1 - 1 + 1 = n - 1
  OBVIOUS
<1>2. front \in Seq(SqlSign) /\ Len(front) = n - 1 - 1 + 1 /\ \A j \in 1 .. n - 1 - 1 + 1 : front[j] = mark[1 + j - 1]
  BY <1>1, PartOf
<1>3. front \in Seq(SqlSign) /\ Len(front) = n - 1 /\ \A j \in 1 .. n - 1 : front[j] = mark[j]
  <2>1. \A j \in 1 .. n - 1 : 1 + j - 1 = j
    BY <1>1
  <2> QED BY <1>1, <1>2, <2>1
<1> HIDE DEF front
<1>4. Follow(c, b, front)
  BY <1>3, TwoJoined
<1>5. ~SpellsAt(c, k, mark)
  BY DEF EndedBy, front
<1>h. n = Len(mark) /\ m = Len(b)
  OBVIOUS
<1> HIDE DEF n, m, c
<1>6. /\ c \in Seq(SqlSign) /\ Len(c) = m + (n - 1)
      /\ \A j \in 1 .. m : c[j] = b[j]
      /\ \A j \in 1 .. n - 1 : c[m + j] = mark[j]
  BY <1>3, <1>4, <1>h DEF Follow
<1>7. ASSUME NEW j \in 1 .. m + (n - 1) PROVE c[j] = sql[v + j]
  <2>1. CASE j <= m
    <3>1. j \in 1 .. m
      BY <1>1, <2>1
    <3> QED BY <1>6, <1>h, <3>1
  <2>2. CASE ~(j <= m)
    <3> DEFINE i == j - m
    <3>1. i \in 1 .. n - 1 /\ i \in 1 .. n /\ m + i = j /\ v + m + i = v + j
      BY <1>1, <2>2
    <3> HIDE DEF i
    <3>2. c[m + i] = mark[i] /\ sql[v + m + i] = mark[i]
      BY <1>6, <1>h, <3>1
    <3> QED BY <3>1, <3>2
  <2> QED BY <2>1, <2>2
<1>8. ASSUME NEW l \in 1 .. n PROVE c[k - 1 + l] = mark[l]
  <2>1. k - 1 + l \in 1 .. m + (n - 1) /\ v + (k - 1 + l) = v + (k - 1) + l
    BY <1>1, <1>h
  <2>2. c[k - 1 + l] = sql[v + (k - 1 + l)]
    BY <1>7, <2>1
  <2> QED BY <1>h, <2>1, <2>2
<1>9. k - 1 \in Nat /\ k - 1 + 1 = k /\ k - 1 + n <= Len(c)
  BY <1>1, <1>6, <1>h
<1>10. SpellsAt(c, k - 1 + 1, mark)
  <2> DEFINE w == k - 1
  <2>1. w \in Nat /\ w + Len(mark) <= Len(c) /\ \A j \in 1 .. Len(mark) : c[w + j] = mark[j]
    BY <1>8, <1>9, <1>h
  <2> HIDE DEF w
  <2>2. SpellsAt(c, w + 1, mark)
    BY <1>6, <2>1, OccursIs
  <2> QED BY <2>2 DEF w
<1> QED BY <1>5, <1>9, <1>10

LEMMA CommentRead ==
  ASSUME NEW p \in Part, NEW before, NEW after, NEW sql, StandsBetween(sql, before, Spelt(p), after),
         p.is = "comment", MayStand(p, before, after)
  PROVE  Read(sql, Len(before) + 1, p)
<1> DEFINE w == Len(before)
           t == Spelt(p)
           b == p.body
           open == <<"/", "*">>
           close == <<"*", "/">>
           i == w + 1
           m == Len(b)
           v == w + 2
           x == v + m + 1
           found == {k \in i + 2 .. Len(sql) : sql[k] = "*" /\ SignOn(sql, k + 1) = "/"}
<1>1. t = open \o (b \o close) /\ b \in Seq(SqlSign)
  BY SpeltIs
<1>2. EndedBy(b, close)
  BY DEF MayStand
<1>b. b \in Seq(SqlSign)
  BY <1>1
<1>3. open \in Seq(SqlSign) /\ Len(open) = 2 /\ close \in Seq(SqlSign) /\ Len(close) = 2
      /\ open[1] = "/" /\ open[2] = "*" /\ close[1] = "*" /\ close[2] = "/"
  BY DEF SqlSign, Ordinary
<1> HIDE DEF open, close
<1>4. StandsBetween(t, open, b, close)
  BY <1>1, <1>3, JoinedIs
<1>5. w \in Nat /\ m \in Nat /\ v \in Nat /\ sql \in Seq(SqlSign) /\ Len(sql) \in Nat /\ w + Len(t) <= Len(sql)
  BY <1>1 DEF StandsBetween
<1>6. Parted(sql, before, t, after)
  BY BetweenIs
<1>h. w = Len(before) /\ t = Spelt(p) /\ m = Len(b)
  OBVIOUS
<1> HIDE DEF t, w, b, m
<1>7. \A j \in 1 .. Len(t) : sql[w + j] = t[j] /\ SignOn(sql, w + j) = t[j]
  BY <1>6, <1>h DEF Parted
<1>t. /\ t \in Seq(SqlSign) /\ Len(t) = 2 + m + 2
      /\ \A j \in 1 .. 2 : t[j] = open[j]
      /\ \A j \in 1 .. m : t[2 + j] = b[j]
      /\ \A j \in 1 .. 2 : t[2 + m + j] = close[j]
  BY <1>3, <1>4, <1>h DEF StandsBetween
<1>8. sql[i] = "/" /\ SignOn(sql, i + 1) = "*"
  <2>1. 1 \in 1 .. Len(t) /\ 2 \in 1 .. Len(t) /\ w + 2 = i + 1 /\ 1 \in 1 .. 2 /\ 2 \in 1 .. 2
    BY <1>5, <1>t
  <2> QED BY <1>3, <1>t, <1>7, <2>1
<1>9. \A j \in 1 .. m : sql[v + j] = b[j]
  <2> SUFFICES ASSUME NEW j \in 1 .. m PROVE sql[v + j] = b[j]
    OBVIOUS
  <2>1. 2 + j \in 1 .. Len(t) /\ w + (2 + j) = v + j
    BY <1>5, <1>t
  <2>2. sql[w + (2 + j)] = t[2 + j]
    BY <1>7, <2>1
  <2> QED BY <1>t, <2>1, <2>2
<1>10. \A j \in 1 .. 2 : sql[v + m + j] = close[j] /\ SignOn(sql, v + m + j) = close[j]
  <2> SUFFICES ASSUME NEW j \in 1 .. 2 PROVE sql[v + m + j] = close[j] /\ SignOn(sql, v + m + j) = close[j]
    OBVIOUS
  <2> DEFINE l == Len(t)
  <2>a. l = 2 + m + 2 /\ w \in Nat /\ m \in Nat
    BY <1>5, <1>t
  <2>b. 2 + m + j \in 1 .. l /\ w + (2 + m + j) = v + m + j
    <3> HIDE DEF l
    <3> QED BY <2>a
  <2>1. 2 + m + j \in 1 .. Len(t) /\ w + (2 + m + j) = v + m + j
    BY <2>b
  <2> DEFINE k == 2 + m + j
  <2>2. k \in 1 .. Len(t) /\ w + k = v + m + j /\ t[k] = close[j]
    BY <1>t, <2>1
  <2> HIDE DEF k
  <2>3. sql[w + k] = t[k] /\ SignOn(sql, w + k) = t[k]
    BY <1>7, <2>2
  <2> QED BY <2>2, <2>3
<1>11. found \subseteq 1 .. Len(sql) /\ x \in 1 .. Len(sql) + 1 /\ x <= Len(sql) /\ x \in i + 2 .. Len(sql)
  BY <1>5, <1>t
<1>12. x \in found
  <2>1. 1 \in 1 .. 2 /\ 2 \in 1 .. 2 /\ x = v + m + 1 /\ x + 1 = v + m + 2
    BY <1>5
  <2>2. sql[x] = "*" /\ SignOn(sql, x + 1) = "/"
    BY <1>3, <1>10, <2>1
  <2> QED BY <1>11, <2>2
<1>13. ASSUME NEW k \in found PROVE x <= k
  <2> SUFFICES ASSUME ~(x <= k) PROVE FALSE
    OBVIOUS
  <2> DEFINE j == k - v
  <2>1. k \in i + 2 .. Len(sql) /\ sql[k] = "*" /\ SignOn(sql, k + 1) = "/" /\ k \in Int
    OBVIOUS
  <2>2. j \in 1 .. m /\ v + (j - 1) + 1 = k /\ v + (j - 1) + 2 = k + 1 /\ k + 1 \in 1 .. Len(sql)
    BY <1>5, <1>11, <2>1
  <2> HIDE DEF j
  <2>3. v + Len(b) + Len(close) <= Len(sql)
    BY <1>3, <1>5, <1>t, <1>h
  <2> HIDE DEF v
  <2>4. PICK l \in 1 .. Len(close) : sql[v + (j - 1) + l] # close[l]
    <3>1. (\A l \in 1 .. Len(b) : sql[v + l] = b[l]) /\ j \in 1 .. Len(b) /\ Len(close) >= 1
      BY <1>3, <1>9, <1>h, <2>2
    <3>2. \A l \in 1 .. Len(close) : sql[v + Len(b) + l] = close[l]
      BY <1>3, <1>10, <1>h
    <3>3. b \in Seq(SqlSign) /\ close \in Seq(SqlSign) /\ sql \in Seq(SqlSign) /\ v \in Nat /\ EndedBy(b, close)
      BY <1>2, <1>3, <1>5, <1>t, <1>b
    <3> QED BY <2>3, <3>1, <3>2, <3>3, EndsIs
  <2>5. l = 1 \/ l = 2
    BY <1>3
  <2>6. SignOn(sql, k + 1) = sql[k + 1]
    BY <1>5, <2>2, IsSign
  <2> QED BY <1>3, <2>1, <2>2, <2>4, <2>5, <2>6
<1> HIDE DEF found
<1>14. FirstOf(sql, found) = x
  BY ZenonT(60), <1>5, <1>11, <1>12, <1>13, FirstIs
<1>15. EndOfComment(sql, i + 2) = x + 2
  <2>1. ~(x > Len(sql))
    BY <1>5, <1>11
  <2> HIDE DEF x
  <2> QED BY <1>14, <2>1 DEF EndOfComment, found
<1>16. ReadUpTo(sql, i) = x + 2
  BY <1>8, <1>15, OpenedCopied
<1>17. x + 2 = i + Len(t) /\ Len(t) \in Nat \ {0}
  BY <1>5, <1>t
<1> QED BY <1>t, <1>16, <1>17, <1>h DEF Read

LEMMA DollarsRead ==
  ASSUME NEW p \in Part, NEW before, NEW after, NEW sql, StandsBetween(sql, before, Spelt(p), after),
         p.is = "dollars", MayStand(p, before, after)
  PROVE  Read(sql, Len(before) + 1, p)
<1> DEFINE w == Len(before)
           t == Spelt(p)
           b == p.body
           by == p.by
           i == w + 1
           m == Len(b)
           n == Len(by)
           v == w + n
           x == v
           y == v + m + 1
           dollars == {k \in i + 1 .. Len(sql) : sql[k] = "$"}
           ends == {k \in v + 1 .. Len(sql) : SpellsAt(sql, k, by)}
<1>1. t = by \o (b \o by) /\ b \in Seq(SqlSign) /\ by \in Seq(SqlSign)
  BY SpeltIs
<1>2. EndedBy(b, by) /\ Delimits(by)
  BY DEF MayStand
<1>4. StandsBetween(t, by, b, by)
  BY <1>1, JoinedIs
<1>b. b \in Seq(SqlSign) /\ by \in Seq(SqlSign)
  BY SpeltIs
<1>5. w \in Nat /\ m \in Nat /\ n \in Nat /\ sql \in Seq(SqlSign) /\ Len(sql) \in Nat /\ w + Len(t) <= Len(sql)
  <2>1. sql \in Seq(SqlSign) /\ before \in Seq(SqlSign) /\ after \in Seq(SqlSign) /\ Len(sql) = w + Len(t) + Len(after)
    BY DEF StandsBetween
  <2>2. t \in Seq(SqlSign)
    BY DEF StandsBetween
  <2>3. w \in Nat /\ m \in Nat /\ n \in Nat /\ Len(sql) \in Nat /\ Len(t) \in Nat /\ Len(after) \in Nat
    BY <1>b, <2>1, <2>2
  <2> QED BY <2>1, <2>3
<1>6. Parted(sql, before, t, after)
  BY BetweenIs
<1>h. w = Len(before) /\ t = Spelt(p) /\ m = Len(b) /\ n = Len(by)
  OBVIOUS
<1>3. /\ n >= 2 /\ by[1] = "$" /\ by[n] = "$" /\ by[2] # "1"
      /\ \A j \in 2 .. n - 1 : by[j] \in {"a", "1", "_"}
  BY <1>2 DEF Delimits
<1>n. n >= 2
  BY <1>3
<1> HIDE DEF t, w, b, m, by, n
<1>7. \A j \in 1 .. Len(t) : sql[w + j] = t[j] /\ SignOn(sql, w + j) = t[j]
  BY <1>6, <1>h DEF Parted
<1>t. /\ t \in Seq(SqlSign) /\ Len(t) = n + m + n
      /\ \A j \in 1 .. n : t[j] = by[j]
      /\ \A j \in 1 .. m : t[n + j] = b[j]
      /\ \A j \in 1 .. n : t[n + m + j] = by[j]
  BY <1>4, <1>h DEF StandsBetween
<1>l. Len(t) = n + m + n
  BY <1>t
<1>v. v \in Nat /\ v >= w + 2 /\ v + m + n <= Len(sql)
  BY <1>n, <1>5, <1>l
<1>8. \A j \in 1 .. n : sql[w + j] = by[j] /\ SignOn(sql, w + j) = by[j]
  <2> SUFFICES ASSUME NEW j \in 1 .. n PROVE sql[w + j] = by[j] /\ SignOn(sql, w + j) = by[j]
    OBVIOUS
  <2>1. j \in 1 .. Len(t)
    BY <1>5, <1>l
  <2> QED BY <1>7, <1>t, <2>1
<1>9. \A j \in 1 .. m : sql[v + j] = b[j]
  <2> SUFFICES ASSUME NEW j \in 1 .. m PROVE sql[v + j] = b[j]
    OBVIOUS
  <2>1. n + j \in 1 .. Len(t) /\ w + (n + j) = v + j
    BY <1>5, <1>l
  <2>2. sql[w + (n + j)] = t[n + j]
    BY <1>7, <2>1
  <2> QED BY <1>t, <2>1, <2>2
<1>10. \A j \in 1 .. n : sql[v + m + j] = by[j]
  <2> SUFFICES ASSUME NEW j \in 1 .. n PROVE sql[v + m + j] = by[j]
    OBVIOUS
  <2>1. n + m + j \in 1 .. Len(t) /\ w + (n + m + j) = v + m + j
    BY <1>5, <1>l
  <2>2. sql[w + (n + m + j)] = t[n + m + j]
    BY <1>7, <2>1
  <2> QED BY <1>t, <2>1, <2>2
<1>11. sql[i] = "$" /\ SignOn(sql, i + 1) # "1"
  <2>1. 1 \in 1 .. n /\ 2 \in 1 .. n /\ w + 2 = i + 1
    BY <1>n, <1>5
  <2> QED BY <1>3, <1>8, <2>1
<1>12. FirstOf(sql, dollars) = x
  <2>1. dollars \subseteq 1 .. Len(sql) /\ x \in 1 .. Len(sql) + 1 /\ x \in i + 1 .. Len(sql)
    BY <1>n, <1>5, <1>v
  <2>2. x \in dollars
    <3>1. n \in 1 .. n
      BY <1>n, <1>5
    <3>2. sql[w + n] = "$"
      BY <1>3, <1>8, <3>1
    <3> QED BY <2>1, <3>2
  <2>3. ASSUME NEW k \in dollars PROVE x <= k
    <3> SUFFICES ASSUME ~(x <= k) PROVE FALSE
      OBVIOUS
    <3> DEFINE j == k - w
    <3>1. k \in i + 1 .. Len(sql) /\ sql[k] = "$" /\ k \in Int
      OBVIOUS
    <3>2. j \in 2 .. n - 1 /\ j \in 1 .. n /\ w + j = k
      BY <1>5, <3>1
    <3> HIDE DEF j
    <3>3. sql[k] = by[j] /\ by[j] \in {"a", "1", "_"}
      BY <1>3, <1>8, <3>2
    <3> QED BY <3>1, <3>3
  <2> HIDE DEF dollars, x
  <2> QED BY <1>5, <2>1, <2>2, <2>3, FirstIs
<1>13. FirstOf(sql, ends) = y
  <2>1. ends \subseteq 1 .. Len(sql) /\ y \in 1 .. Len(sql) + 1 /\ y \in v + 1 .. Len(sql)
    BY <1>n, <1>5, <1>v
  <2>2. y \in ends
    <3> DEFINE u == v + m
    <3>1. u \in Nat /\ u + Len(by) <= Len(sql) /\ \A j \in 1 .. Len(by) : sql[u + j] = by[j]
      BY <1>5, <1>10, <1>v, <1>h
    <3> HIDE DEF u
    <3>2. SpellsAt(sql, u + 1, by)
      BY <1>1, <1>5, <3>1, OccursIs
    <3> QED BY <2>1, <3>2 DEF u
  <2>3. ASSUME NEW k \in ends PROVE y <= k
    <3> SUFFICES ASSUME ~(y <= k) PROVE FALSE
      OBVIOUS
    <3> DEFINE j == k - v
               u == k - 1
    <3>1. k \in v + 1 .. Len(sql) /\ SpellsAt(sql, k, by) /\ k \in Int
      OBVIOUS
    <3>2. j \in 1 .. m /\ v + (j - 1) = u /\ u \in Nat /\ u + 1 = k
      BY <1>5, <1>v, <3>1
    <3> HIDE DEF j, u
    <3>3. \A l \in 1 .. n : sql[u + l] = by[l]
      <4>1. SpellsAt(sql, u + 1, by)
        BY <3>1, <3>2
      <4> QED BY <1>1, <1>5, <1>h, <3>2, <4>1, OccursIs
    <3>4. Len(by) >= 1 /\ v + Len(b) + Len(by) <= Len(sql)
      BY <1>n, <1>5, <1>v, <1>h
    <3>5. PICK l \in 1 .. Len(by) : sql[v + (j - 1) + l] # by[l]
      <4>1. j \in 1 .. Len(b) /\ (\A l \in 1 .. Len(b) : sql[v + l] = b[l]) /\ \A l \in 1 .. Len(by) : sql[v + Len(b) + l] = by[l]
        BY <1>9, <1>10, <1>h, <3>2
      <4> QED BY ZenonT(60), <1>1, <1>2, <1>5, <1>v, <3>4, <4>1, EndsIs
    <3> QED BY <1>h, <3>2, <3>3, <3>5
  <2> HIDE DEF ends, y
  <2> QED BY <1>5, <2>1, <2>2, <2>3, FirstIs
<1>14. SubSeq(sql, i, x) = by
  <2>1. w + Len(by) <= Len(sql) /\ \A j \in 1 .. Len(by) : sql[w + j] = by[j]
    BY <1>5, <1>8, <1>v, <1>h
  <2>2. SubSeq(sql, w + 1, w + Len(by)) = by
    BY <1>1, <1>5, <2>1, PartSame
  <2> QED BY <1>h, <2>2
<1>15. \A k \in i + 1 .. x - 1 : sql[k] \in {"a", "1", "_"}
  <2> SUFFICES ASSUME NEW k \in i + 1 .. x - 1 PROVE sql[k] \in {"a", "1", "_"}
    OBVIOUS
  <2> DEFINE j == k - w
  <2>1. j \in 2 .. n - 1 /\ j \in 1 .. n /\ w + j = k
    BY <1>5
  <2> HIDE DEF j
  <2>2. sql[w + j] = by[j] /\ by[j] \in {"a", "1", "_"}
    BY <1>3, <1>8, <2>1
  <2> QED BY <2>1, <2>2
<1>16. x <= Len(sql) /\ y <= Len(sql) /\ y + n > i /\ y + n = i + Len(t)
  BY <1>n, <1>5, <1>v, <1>l
<1>x. x = v
  OBVIOUS
<1> HIDE DEF x, y
<1>17. SkipDollarQuoted(sql, i) = y + n
  BY <1>11, <1>12, <1>13, <1>14, <1>15, <1>16, <1>h, <1>x DEF SkipDollarQuoted
<1>18. ReadUpTo(sql, i) = y + n
  <2>1. SkipDollarQuoted(sql, i) > i
    BY <1>16, <1>17
  <2> QED BY <1>11, <1>17, <2>1, OpenedCopied
<1>19. Len(t) \in Nat \ {0}
  BY <1>n, <1>5, <1>l
<1> QED BY <1>t, <1>16, <1>18, <1>19, <1>h DEF Read

(* A text that grows a piece at a time.                                    *)
Grows(T, X, N) ==
  T[0] = <<>> /\ \A k \in 1 .. N : X[k] \in Seq(SqlSign) /\ T[k] = T[k - 1] \o X[k]

LEMMA PiledUp ==
  ASSUME NEW N \in Nat, NEW X, \A k \in 1 .. N : X[k] \in Seq(SqlSign)
  PROVE  \E f : f = [k \in 0 .. N |-> IF k = 0 THEN <<>> ELSE f[k - 1] \o X[k]]
<1> DEFINE step == [k \in 1 .. N |-> [s \in Seq(SqlSign) |-> s \o X[k]]]
<1>1. \A k \in 1 .. N : \A s \in Seq(SqlSign) : step[k][s] = s \o X[k] /\ step[k][s] \in Seq(SqlSign)
  <2>1. \A k \in 1 .. N : \A s \in Seq(SqlSign) : s \o X[k] \in Seq(SqlSign)
    BY ConcatProperties
  <2> QED BY <2>1
<1> HIDE DEF step
<1>2. PICK f \in [0 .. N -> Seq(SqlSign)] : Follows(f, N, <<>>, step)
  <2>1. <<>> \in Seq(SqlSign)
    OBVIOUS
  <2> QED BY <1>1, <2>1, Defined
<1>3. \A k \in 0 .. N : f[k] = IF k = 0 THEN <<>> ELSE f[k - 1] \o X[k]
  <2>1. \A k \in 0 .. N : k # 0 => k \in 1 .. N /\ k - 1 \in 0 .. N
    OBVIOUS
  <2>2. \A k \in 0 .. N : f[k] = IF k = 0 THEN <<>> ELSE step[k][f[k - 1]]
    BY <1>2 DEF Follows
  <2> QED BY <1>1, <2>1, <2>2
<1>4. f = [k \in 0 .. N |-> f[k]]
  BY <1>2
<1>5. f = [k \in 0 .. N |-> IF k = 0 THEN <<>> ELSE f[k - 1] \o X[k]]
  BY <1>3, <1>4
<1> QED BY <1>5

Grown(T, X, N) ==
  /\ \A k \in 0 .. N : T[k] \in Seq(SqlSign)
  /\ \A k \in 1 .. N : Len(T[k]) = Len(T[k - 1]) + Len(X[k]) /\ \A j \in 1 .. Len(X[k]) : T[k][Len(T[k - 1]) + j] = X[k][j]
  /\ \A k \in 0 .. N : \A l \in 0 .. k : Len(T[l]) <= Len(T[k]) /\ \A j \in 1 .. Len(T[l]) : T[k][j] = T[l][j]

LEMMA GrownIs ==
  ASSUME NEW N \in Nat, NEW T, NEW X, Grows(T, X, N)
  PROVE  Grown(T, X, N)
<1>1. T[0] = <<>> /\ \A k \in 1 .. N : X[k] \in Seq(SqlSign) /\ T[k] = T[k - 1] \o X[k]
  BY DEF Grows
<1>2. \A k \in 0 .. N : T[k] \in Seq(SqlSign)
  <2> DEFINE G == {k \in 0 .. N : T[k] \in Seq(SqlSign)}
  <2>1. 0 \in G
    <3>1. T[0] = <<>> /\ 0 \in 0 .. N
      BY <1>1
    <3>2. T[0] \in Seq(SqlSign)
      BY <3>1
    <3> QED BY <3>1, <3>2
  <2>2. ASSUME NEW k \in 0 .. N - 1, k \in G PROVE k + 1 \in G
    <3> DEFINE l == k + 1
    <3>1. l \in 1 .. N /\ l \in 0 .. N /\ l - 1 = k
      OBVIOUS
    <3> HIDE DEF l
    <3>2. X[l] \in Seq(SqlSign) /\ T[l] = T[k] \o X[l] /\ T[k] \in Seq(SqlSign)
      BY <1>1, <2>2, <3>1
    <3>3. T[l] \in Seq(SqlSign)
      BY <3>2, ConcatProperties
    <3>4. l \in G
      BY <3>1, <3>3
    <3> QED BY <3>4 DEF l
  <2> HIDE DEF G
  <2>3. 0 .. N \subseteq G
    BY <2>1, <2>2, UpTo
  <2> QED BY <2>3 DEF G
<1>3. ASSUME NEW k \in 1 .. N PROVE Follow(T[k], T[k - 1], X[k])
  <2>1. k - 1 \in 0 .. N
    OBVIOUS
  <2>2. T[k - 1] \in Seq(SqlSign) /\ X[k] \in Seq(SqlSign)
    BY <1>1, <1>2, <2>1
  <2>3. Follow(T[k - 1] \o X[k], T[k - 1], X[k])
    BY <2>2, TwoJoined
  <2> QED BY <1>1, <2>3
<1>4. \A k \in 1 .. N : /\ Len(T[k]) = Len(T[k - 1]) + Len(X[k])
                        /\ \A j \in 1 .. Len(T[k - 1]) : T[k][j] = T[k - 1][j]
                        /\ \A j \in 1 .. Len(X[k]) : T[k][Len(T[k - 1]) + j] = X[k][j]
  BY <1>3 DEF Follow
<1> DEFINE Prefixed(k, l) == Len(T[l]) <= Len(T[k]) /\ \A j \in 1 .. Len(T[l]) : T[k][j] = T[l][j]
           G == {k \in 0 .. N : \A l \in 0 .. k : Prefixed(k, l)}
<1>n. \A k \in 0 .. N : Len(T[k]) \in Nat
  BY <1>2
<1>m. \A k \in 1 .. N : Len(X[k]) \in Nat
  <2>1. \A k \in 1 .. N : X[k] \in Seq(SqlSign)
    BY <1>1
  <2> QED BY <2>1
<1>5. 0 \in G
  <2>1. \A l \in 0 .. 0 : l = 0
    OBVIOUS
  <2>2. Prefixed(0, 0)
    BY <1>n
  <2> HIDE DEF Prefixed
  <2> QED BY <2>1, <2>2
<1>6. ASSUME NEW k \in 0 .. N - 1, k \in G PROVE k + 1 \in G
  <2> DEFINE l == k + 1
  <2>1. l \in 1 .. N /\ l \in 0 .. N /\ l - 1 = k /\ k \in 0 .. N /\ \A i \in 0 .. l : (i = l \/ i \in 0 .. k) /\ i \in 0 .. N
    OBVIOUS
  <2> HIDE DEF l
  <2>2. Len(T[l]) = Len(T[k]) + Len(X[l]) /\ (\A j \in 1 .. Len(T[k]) : T[l][j] = T[k][j]) /\ Len(X[l]) \in Nat
    <3>1. Len(X[l]) \in Nat
      BY <1>m, <2>1
    <3>2. Len(T[l]) = Len(T[l - 1]) + Len(X[l]) /\ \A j \in 1 .. Len(T[l - 1]) : T[l][j] = T[l - 1][j]
      BY <1>4, <2>1
    <3>3. l - 1 = k
      BY <2>1
    <3> QED BY <3>1, <3>2, <3>3
  <2>3. ASSUME NEW i \in 0 .. k, i \in 0 .. N PROVE Prefixed(l, i)
    <3>1. Prefixed(k, i)
      <4> HIDE DEF Prefixed
      <4> QED BY <1>6
    <3>2. Len(T[k]) \in Nat /\ Len(T[i]) \in Nat
      BY <1>n, <2>1, <2>3
    <3>3. Len(T[i]) <= Len(T[k]) /\ \A j \in 1 .. Len(T[i]) : T[k][j] = T[i][j]
      BY <3>1
    <3>4. Len(T[i]) <= Len(T[l]) /\ \A j \in 1 .. Len(T[i]) : j \in 1 .. Len(T[k])
      <4> DEFINE a == Len(T[i])
                 b == Len(T[k])
                 c == Len(T[l])
                 d == Len(X[l])
      <4>1. a \in Nat /\ b \in Nat /\ d \in Nat /\ c = b + d /\ a <= b
        BY <2>2, <3>2, <3>3
      <4> HIDE DEF a, b, c, d
      <4>2. a <= c /\ \A j \in 1 .. a : j \in 1 .. b
        BY <4>1
      <4> QED BY <4>2 DEF a, b, c
    <3> QED BY <2>2, <3>3, <3>4
  <2>4. Prefixed(l, l)
    BY <1>n, <2>1
  <2> HIDE DEF Prefixed
  <2>5. l \in G
    BY <2>1, <2>3, <2>4
  <2> QED BY <2>5 DEF l
<1> HIDE DEF G
<1>7. 0 .. N \subseteq G
  BY <1>5, <1>6, UpTo
<1>8. \A k \in 0 .. N : \A l \in 0 .. k : Prefixed(k, l)
  <2> HIDE DEF Prefixed
  <2> QED BY <1>7 DEF G
<1>9. \A k \in 0 .. N : \A l \in 0 .. k : Len(T[l]) <= Len(T[k]) /\ \A j \in 1 .. Len(T[l]) : T[k][j] = T[l][j]
  BY <1>8
<1> QED BY <1>2, <1>4, <1>9 DEF Grown

(* A text that has pieces, none of them empty, has as many signs.          *)
LEMMA AsLong ==
  ASSUME NEW N \in Nat, NEW T, NEW X, Grows(T, X, N), \A k \in 1 .. N : X[k] # <<>>
  PROVE  \A k \in 0 .. N : k <= Len(T[k])
<1> DEFINE G == {k \in 0 .. N : k <= Len(T[k])}
<1>1. Grown(T, X, N)
  BY GrownIs
<1>2. \A k \in 0 .. N : Len(T[k]) \in Nat
  BY <1>1 DEF Grown
<1>3. \A k \in 1 .. N : Len(T[k]) = Len(T[k - 1]) + Len(X[k])
  BY <1>1 DEF Grown
<1>4. \A k \in 1 .. N : Len(X[k]) \in Nat /\ Len(X[k]) >= 1
  <2>1. ASSUME NEW k \in 1 .. N PROVE Len(X[k]) \in Nat /\ Len(X[k]) >= 1
    <3>1. X[k] \in Seq(SqlSign) /\ X[k] # <<>>
      BY DEF Grows
    <3> QED BY <3>1, EmptySeq
  <2> QED BY <2>1
<1>5. 0 \in G
  BY <1>2
<1>6. ASSUME NEW k \in 0 .. N - 1, k \in G PROVE k + 1 \in G
  <2> DEFINE l == k + 1
  <2>1. l \in 1 .. N /\ l \in 0 .. N /\ l - 1 = k /\ k \in 0 .. N /\ k \in Int /\ l = k + 1
    OBVIOUS
  <2> HIDE DEF l
  <2>2. Len(T[l]) = Len(T[k]) + Len(X[l]) /\ Len(X[l]) \in Nat /\ Len(X[l]) >= 1 /\ Len(T[k]) \in Nat /\ k <= Len(T[k])
    BY <1>2, <1>3, <1>4, <1>6, <2>1
  <2>3. l <= Len(T[l])
    <3> DEFINE a == Len(T[l])
               b == Len(T[k])
               c == Len(X[l])
    <3>1. a = b + c /\ c \in Nat /\ c >= 1 /\ b \in Nat /\ k <= b /\ k \in Int /\ l = k + 1
      BY <2>1, <2>2
    <3> HIDE DEF a, b, c
    <3>2. l <= a
      BY <3>1
    <3> QED BY <3>2 DEF a
  <2>4. l \in G
    BY <2>1, <2>3
  <2> QED BY <2>4 DEF l
<1> HIDE DEF G
<1>7. 0 .. N \subseteq G
  BY <1>5, <1>6, UpTo
<1> QED BY <1>7 DEF G

Doubling(b, q) == [k \in 1 .. Len(b) |-> IF b[k] = q THEN <<q, q>> ELSE <<b[k]>>]

LEMMA DoubledIs ==
  ASSUME NEW b \in Seq(SqlSign), NEW q \in SqlSign
  PROVE  \E D : Grows(D, Doubling(b, q), Len(b)) /\ D[Len(b)] = Doubled(b, q)
<1> DEFINE N == Len(b)
           X == Doubling(b, q)
           Y(k) == IF b[k] = q THEN <<q, q>> ELSE <<b[k]>>
           Def(f) == f = [k \in 0 .. N |-> IF k = 0 THEN <<>> ELSE f[k - 1] \o Y(k)]
           h == CHOOSE f : Def(f)
<1>1. N \in Nat /\ \A k \in 1 .. N : b[k] \in SqlSign
  OBVIOUS
<1>2. \A k \in 1 .. N : X[k] = Y(k)
  BY DEF Doubling
<1>3. \A k \in 1 .. N : Y(k) \in Seq(SqlSign)
  BY <1>1
<1>4. Doubled(b, q) = h[N]
  BY DEF Doubled
<1> HIDE DEF X, Y, N
<1>5. PICK f : f = [k \in 0 .. N |-> IF k = 0 THEN <<>> ELSE f[k - 1] \o X[k]]
  BY <1>1, <1>2, <1>3, PiledUp
<1>6. Def(f)
  <2>1. \A k \in 0 .. N : (IF k = 0 THEN <<>> ELSE f[k - 1] \o X[k]) = (IF k = 0 THEN <<>> ELSE f[k - 1] \o Y(k))
    <3>1. \A k \in 0 .. N : k # 0 => k \in 1 .. N
      BY <1>1
    <3> QED BY <1>2, <3>1
  <2> QED BY <1>5, <2>1
<1>7. Def(h)
  <2> HIDE DEF Def
  <2> QED BY <1>6
<1> HIDE DEF h
<1>8. h[0] = <<>> /\ \A k \in 1 .. N : h[k] = h[k - 1] \o Y(k)
  <2>1. 0 \in 0 .. N /\ \A k \in 1 .. N : k \in 0 .. N /\ k # 0
    BY <1>1
  <2> QED BY <1>7, <2>1
<1>9. Grows(h, X, N)
  BY <1>2, <1>3, <1>8 DEF Grows
<1> QED BY <1>4, <1>9 DEF X, N

(* One step of EndOfQuoted from v + 1 + l on, l signs into the text.       *)
LEMMA QuotedStep ==
  ASSUME NEW sql, Len(sql) \in Nat, NEW q, NEW at \in 1 .. Len(sql)
  PROVE  InQuoted(sql, [i |-> at, closed |-> FALSE], q) =
           IF sql[at] # q THEN [i |-> at + 1, closed |-> FALSE]
           ELSE IF SignOn(sql, at + 1) = q THEN [i |-> at + 2, closed |-> FALSE] ELSE [i |-> at + 1, closed |-> TRUE]
<1>1. ~(at > Len(sql))
  OBVIOUS
<1> QED BY <1>1 DEF InQuoted

(* The end of a text that is quoted: where l[k] is how long its first k    *)
(* signs are as they are written.                                          *)
QuotedFrom(sql, q, v, m, l) ==
  /\ Len(sql) \in Nat /\ v \in Nat /\ m \in Nat
  /\ l[0] = 0 /\ \A k \in 0 .. m : l[k] \in Nat /\ k <= l[k]
  /\ \A k \in 1 .. m : l[k - 1] < l[m]
  /\ v + l[m] + 1 \in 1 .. Len(sql) /\ sql[v + l[m] + 1] = q /\ SignOn(sql, v + l[m] + 2) # q
  /\ \A k \in 1 .. m : \/ sql[v + l[k - 1] + 1] # q /\ l[k] = l[k - 1] + 1
                       \/ sql[v + l[k - 1] + 1] = q /\ SignOn(sql, v + l[k - 1] + 2) = q /\ l[k] = l[k - 1] + 2

LEMMA EndOfQuotedIs ==
  ASSUME NEW sql, NEW q, NEW v, NEW m, NEW l, QuotedFrom(sql, q, v, m, l)
  PROVE  EndOfQuoted(sql, v + 1, q) = v + l[m] + 2
<1> USE DEF QuotedFrom
<1> DEFINE N == Len(sql)
           first == [i |-> v + 1, closed |-> FALSE]
           Done  == [i |-> v + l[m] + 2, closed |-> TRUE]
           Inside(k) == [i |-> v + l[k] + 1, closed |-> FALSE]
           State(k) == IF k <= m THEN Inside(k) ELSE Done
           step(s) == InQuoted(sql, s, q)
           Def(f) == f = [k \in 0 .. N |-> IF k = 0 THEN first ELSE step(f[k - 1])]
           E == [k \in 0 .. N |-> State(k)]
           h == CHOOSE f : Def(f)
<1>1. N \in Nat /\ m + 1 <= N /\ N \in 0 .. N /\ ~(N <= m) /\ m \in 0 .. m
  <2>1. l[m] \in Nat /\ m <= l[m] /\ v + l[m] + 1 <= N /\ N \in Nat
    OBVIOUS
  <2> QED BY <2>1
<1>2. ASSUME NEW k \in 1 .. m PROVE step(Inside(k - 1)) = Inside(k)
  <2>1. k \in 0 .. m /\ k - 1 \in 0 .. m
    OBVIOUS
  <2> DEFINE a == l[k - 1]
             z == l[m]
             at == v + a + 1
  <2>2. a \in Nat /\ z \in Nat /\ a < z /\ v + z + 1 <= N
    BY <1>1, <2>1
  <2>3. at = v + a + 1 /\ v + a + 2 = at + 1
    BY <2>2
  <2>4. \/ sql[at] # q /\ l[k] = a + 1
        \/ sql[at] = q /\ SignOn(sql, at + 1) = q /\ l[k] = a + 2
    BY <2>3
  <2> HIDE DEF a, z, N
  <2>5. at \in 1 .. N /\ v + (a + 1) + 1 = at + 1 /\ v + (a + 2) + 1 = at + 2
    BY <1>1, <2>2
  <2>6. step([i |-> at, closed |-> FALSE]) =
           IF sql[at] # q THEN [i |-> at + 1, closed |-> FALSE]
           ELSE IF SignOn(sql, at + 1) = q THEN [i |-> at + 2, closed |-> FALSE] ELSE [i |-> at + 1, closed |-> TRUE]
    <3> HIDE DEF at
    <3> QED BY <2>5, QuotedStep DEF N
  <2>7. Inside(k - 1) = [i |-> at, closed |-> FALSE]
    BY DEF a
  <2> HIDE DEF at, step
  <2> QED BY <2>4, <2>5, <2>6, <2>7
<1>3. step(Inside(m)) = Done
  <2> DEFINE at == v + l[m] + 1
  <2>1. at \in 1 .. N /\ at + 1 = v + l[m] + 2 /\ sql[at] = q /\ SignOn(sql, v + l[m] + 2) # q
    BY <1>1
  <2> HIDE DEF at
  <2>3. at \in 1 .. Len(sql) /\ SignOn(sql, at + 1) # q /\ ~(sql[at] # q)
    BY <2>1
  <2>4. step([i |-> at, closed |-> FALSE]) =
           IF sql[at] # q THEN [i |-> at + 1, closed |-> FALSE]
           ELSE IF SignOn(sql, at + 1) = q THEN [i |-> at + 2, closed |-> FALSE] ELSE [i |-> at + 1, closed |-> TRUE]
    <3>1. at \in 1 .. Len(sql)
      BY <2>3
    <3> QED BY <3>1, QuotedStep
  <2> HIDE DEF step
  <2>2. step([i |-> at, closed |-> FALSE]) = [i |-> at + 1, closed |-> TRUE]
    BY <2>3, <2>4
  <2> QED BY <2>1, <2>2 DEF at
<1>4. step(Done) = Done
  BY DEF InQuoted
<1>5. first = State(0)
  BY <1>1
<1>6. ASSUME NEW k \in 1 .. N PROVE step(State(k - 1)) = State(k)
  <2>1. CASE k <= m
    <3>1. k \in 1 .. m /\ k - 1 <= m
      BY <1>1, <2>1
    <3> HIDE DEF step, Inside
    <3> QED BY <1>2, <2>1, <3>1
  <2>2. CASE k = m + 1
    <3>1. ~(k <= m) /\ k - 1 = m /\ m <= m
      BY <1>1, <2>2
    <3> HIDE DEF step, Inside, Done
    <3> QED BY <1>3, <3>1
  <2>3. CASE k > m + 1
    <3>1. ~(k <= m) /\ ~(k - 1 <= m)
      BY <1>1, <2>3
    <3> HIDE DEF step, Inside, Done
    <3> QED BY <1>4, <3>1
  <2> QED BY <1>1, <2>1, <2>2, <2>3
<1>7. EndOfQuoted(sql, v + 1, q) = h[N].i
  BY DEF EndOfQuoted
<1>8. State(N) = Done
  BY <1>1
<1> HIDE DEF first, step, State, N
<1>9. Def(E)
  <2>1. \A k \in 0 .. N : E[k] = IF k = 0 THEN first ELSE step(E[k - 1])
    <3>1. \A k \in 0 .. N : k # 0 => k \in 1 .. N /\ k - 1 \in 0 .. N
      BY <1>1
    <3> QED BY <1>5, <1>6, <3>1
  <2>2. E = [k \in 0 .. N |-> E[k]]
    OBVIOUS
  <2> HIDE DEF E
  <2> QED BY <2>1, <2>2
<1>10. Def(h)
  <2> HIDE DEF Def, E
  <2> QED BY <1>9
<1> HIDE DEF h
<1>11. h[0] = first /\ \A k \in 1 .. N : h[k] = step(h[k - 1])
  <2>1. 0 \in 0 .. N /\ \A k \in 1 .. N : k \in 0 .. N /\ k # 0
    BY <1>1
  <2> QED BY <1>10, <2>1
<1> DEFINE G == {k \in 0 .. N : h[k] = State(k)}
<1>12. 0 \in G
  BY <1>1, <1>5, <1>11
<1>13. ASSUME NEW k \in 0 .. N - 1, k \in G PROVE k + 1 \in G
  <2> DEFINE j == k + 1
  <2>1. j \in 1 .. N /\ j \in 0 .. N /\ j - 1 = k
    BY <1>1
  <2> HIDE DEF j
  <2>2. h[j] = step(State(k)) /\ step(State(j - 1)) = State(j)
    BY <1>6, <1>11, <1>13, <2>1
  <2>3. j \in G
    BY <2>1, <2>2
  <2> QED BY <2>3 DEF j
<1> HIDE DEF G
<1>14. 0 .. N \subseteq G
  BY <1>1, <1>12, <1>13, UpTo
<1>15. h[N] = State(N)
  BY <1>1, <1>14 DEF G
<1> QED BY <1>7, <1>8, <1>15

LEMMA QuotedRead ==
  ASSUME NEW p \in Part, NEW before, NEW after, NEW sql, StandsBetween(sql, before, Spelt(p), after),
         p.is = "quoted", MayStand(p, before, after)
  PROVE  Read(sql, Len(before) + 1, p)
<1> DEFINE w == Len(before)
           t == Spelt(p)
           b == p.body
           q == p.by[1]
           d == Doubled(b, q)
           by == p.by
           i == w + 1
           m == Len(b)
           X == Doubling(b, q)
<1>1. t = by \o (d \o by) /\ b \in Seq(SqlSign) /\ by \in Seq(SqlSign)
  BY SpeltIs
<1>2. by \in {<<"'">>, <<"\"">>} /\ SignOn(after, 1) # q
  BY DEF MayStand
<1>3. q \in {"'", "\""} /\ q \in SqlSign /\ by[1] = q /\ Len(by) = 1
  <2>1. by = <<"'">> \/ by = <<"\"">>
    BY <1>2
  <2>2. <<"'">>[1] = "'" /\ <<"\"">>[1] = "\"" /\ Len(<<"'">>) = 1 /\ Len(<<"\"">>) = 1
    OBVIOUS
  <2>3. q \in {"'", "\""} /\ Len(by) = 1
    BY <2>1, <2>2
  <2> HIDE DEF q, by
  <2>4. q \in SqlSign
    BY <2>3 DEF SqlSign
  <2> QED BY <2>3, <2>4 DEF q, by
<1>b. b \in Seq(SqlSign) /\ by \in Seq(SqlSign) /\ m \in Nat /\ \A k \in 1 .. m : b[k] \in SqlSign
  BY <1>1
<1> HIDE DEF by, q, d, X
<1>4. PICK D : Grows(D, X, m) /\ D[m] = d
  <2> HIDE DEF b
  <2>1. \E D : Grows(D, Doubling(b, q), Len(b)) /\ D[Len(b)] = Doubled(b, q)
    BY <1>b, <1>3, DoubledIs
  <2> QED BY <2>1 DEF X, d
<1> DEFINE l == [k \in 0 .. m |-> Len(D[k])]
<1>g. Grown(D, X, m)
  <2> HIDE DEF b, m
  <2> QED BY <1>b, <1>4, GrownIs
<1>5. d \in Seq(SqlSign) /\ m \in 0 .. m
  BY <1>4, <1>g, <1>b DEF Grown
<1>6. StandsBetween(t, by, d, by)
  BY <1>1, <1>5, JoinedIs
<1>h. w = Len(before) /\ t = Spelt(p) /\ m = Len(b) /\ i = w + 1
  OBVIOUS
<1>7. Parted(sql, before, t, after)
  BY BetweenIs
<1>8. w \in Nat /\ sql \in Seq(SqlSign) /\ Len(sql) \in Nat /\ t \in Seq(SqlSign) /\ Len(t) \in Nat /\ w + Len(t) <= Len(sql)
  <2>1. sql \in Seq(SqlSign) /\ before \in Seq(SqlSign) /\ after \in Seq(SqlSign) /\ t \in Seq(SqlSign) /\ Len(sql) = w + Len(t) + Len(after)
    BY DEF StandsBetween
  <2>2. w \in Nat /\ Len(sql) \in Nat /\ Len(t) \in Nat /\ Len(after) \in Nat
    BY <2>1
  <2> QED BY <2>1, <2>2
<1> HIDE DEF t, w, m, b, i
<1>9. (\A j \in 1 .. Len(t) : sql[w + j] = t[j] /\ SignOn(sql, w + j) = t[j]) /\ SignOn(sql, w + Len(t) + 1) = SignOn(after, 1)
  BY <1>7, <1>h DEF Parted
<1> DEFINE z == Len(d)
<1>z. z \in Nat
  BY <1>5
<1>t. Len(t) = 1 + z + 1
  BY <1>3, <1>6 DEF StandsBetween
<1>u. /\ \A j \in 1 .. 1 : t[j] = by[j]
      /\ \A j \in 1 .. z : t[1 + j] = d[j]
      /\ \A j \in 1 .. 1 : t[1 + z + j] = by[j]
  BY <1>3, <1>6 DEF StandsBetween
<1>s. l[m] = z /\ \A k \in 0 .. m : l[k] = Len(D[k])
  BY <1>4, <1>5
<1> HIDE DEF z, l
<1> DEFINE v == w + 1
<1>v. v \in Nat /\ v = w + 1 /\ v = i /\ v + z + 1 = w + Len(t) /\ v + z + 1 \in 1 .. Len(sql)
  BY <1>8, <1>h, <1>t, <1>z
<1> HIDE DEF v
<1>10. sql[i] = q
  <2>1. 1 \in 1 .. 1 /\ 1 \in 1 .. Len(t)
    BY <1>t, <1>z
  <2>2. sql[w + 1] = t[1] /\ t[1] = q
    BY <1>3, <1>9, <1>u, <2>1
  <2> QED BY <1>h, <2>2
<1>11. \A j \in 1 .. z : sql[v + j] = d[j] /\ SignOn(sql, v + j) = d[j]
  <2> SUFFICES ASSUME NEW j \in 1 .. z PROVE sql[v + j] = d[j] /\ SignOn(sql, v + j) = d[j]
    OBVIOUS
  <2>1. 1 + j \in 1 .. Len(t) /\ w + (1 + j) = v + j
    BY <1>8, <1>t, <1>v, <1>z
  <2>2. sql[w + (1 + j)] = t[1 + j] /\ SignOn(sql, w + (1 + j)) = t[1 + j]
    BY <1>9, <2>1
  <2> QED BY <1>u, <2>1, <2>2
<1>12. sql[v + z + 1] = q
  <2>1. 1 \in 1 .. 1 /\ 1 + z + 1 \in 1 .. Len(t) /\ w + (1 + z + 1) = v + z + 1
    BY <1>8, <1>t, <1>v, <1>z
  <2>2. sql[w + (1 + z + 1)] = t[1 + z + 1] /\ t[1 + z + 1] = q
    BY <1>3, <1>9, <1>u, <2>1
  <2> QED BY <2>1, <2>2
<1>13. SignOn(sql, v + z + 2) # q
  <2>1. v + z + 2 = w + Len(t) + 1
    BY <1>8, <1>t, <1>v, <1>z
  <2> QED BY <1>2, <1>9, <2>1
<1>14. \A k \in 1 .. m : X[k] = (IF b[k] = q THEN <<q, q>> ELSE <<b[k]>>) /\ Len(X[k]) \in {1, 2} /\ X[k] # <<>>
  <2>1. \A k \in 1 .. m : X[k] = IF b[k] = q THEN <<q, q>> ELSE <<b[k]>>
    BY <1>h DEF X, Doubling
  <2>2. \A a : Len(<<a>>) = 1 /\ <<a>> # <<>> /\ Len(<<a, a>>) = 2 /\ <<a, a>> # <<>>
    OBVIOUS
  <2> QED BY <2>1, <2>2
<1>15. \A k \in 0 .. m : l[k] \in Nat /\ k <= l[k]
  <2>1. \A k \in 0 .. m : k <= Len(D[k])
    BY <1>b, <1>4, <1>14, AsLong
  <2>2. \A k \in 0 .. m : Len(D[k]) \in Nat
    BY <1>g DEF Grown
  <2> QED BY <1>s, <2>1, <2>2
<1>16. l[0] = 0
  <2>1. 0 \in 0 .. m /\ D[0] = <<>> /\ Len(<<>>) = 0
    BY <1>b, <1>4 DEF Grows
  <2> QED BY <1>s, <2>1
<1>17. ASSUME NEW k \in 1 .. m
       PROVE  /\ l[k - 1] < l[m]
              /\ \/ sql[v + l[k - 1] + 1] # q /\ l[k] = l[k - 1] + 1
                 \/ sql[v + l[k - 1] + 1] = q /\ SignOn(sql, v + l[k - 1] + 2) = q /\ l[k] = l[k - 1] + 2
  <2>1. k \in 0 .. m /\ k - 1 \in 0 .. m /\ m \in 0 .. m /\ k \in 0 .. m
    BY <1>b
  <2> DEFINE a == l[k - 1]
             c == l[k]
             n == Len(X[k])
  <2>2. a \in Nat /\ c \in Nat /\ n \in {1, 2} /\ c = a + n /\ c <= z
    <3>1. Len(D[k]) = Len(D[k - 1]) + Len(X[k]) /\ Len(D[k]) <= Len(D[m])
      BY <1>g, <2>1 DEF Grown
    <3> QED BY <1>4, <1>14, <1>15, <1>s, <2>1, <3>1
  <2>3. \A j \in 1 .. n : d[a + j] = X[k][j]
    <3>1. \A j \in 1 .. Len(X[k]) : D[k][Len(D[k - 1]) + j] = X[k][j]
      BY <1>g DEF Grown
    <3>2. \A j \in 1 .. Len(D[k]) : D[m][j] = D[k][j]
      BY <1>g, <2>1 DEF Grown
    <3>3. (\A j \in 1 .. n : D[k][a + j] = X[k][j]) /\ \A j \in 1 .. c : d[j] = D[k][j]
      BY <1>4, <1>s, <2>1, <3>1, <3>2
    <3>4. \A j \in 1 .. n : a + j \in 1 .. c
      <4> HIDE DEF a, c, n
      <4> QED BY <2>2
    <3> QED BY <3>3, <3>4
  <2>4. X[k] = IF b[k] = q THEN <<q, q>> ELSE <<b[k]>>
    BY <1>14
  <2> HIDE DEF a, c, n
  <2>5. a < z /\ \A j \in 1 .. n : a + j \in 1 .. z
    BY <1>z, <2>2
  <2>6. \A j \in 1 .. n : sql[v + (a + j)] = X[k][j] /\ SignOn(sql, v + (a + j)) = X[k][j]
    BY <1>11, <2>3, <2>5
  <2>7. v + (a + 1) = v + a + 1 /\ v + (a + 2) = v + a + 2 /\ 1 \in 1 .. n
    BY <1>v, <2>2
  <2>8. CASE b[k] = q
    <3>1. X[k] = <<q, q>> /\ X[k][1] = q /\ X[k][2] = q /\ n = 2 /\ c = a + 2 /\ 2 \in 1 .. n
      <4>1. X[k] = <<q, q>> /\ Len(<<q, q>>) = 2 /\ <<q, q>>[1] = q /\ <<q, q>>[2] = q
        BY <2>4, <2>8
      <4>2. n = 2
        BY <4>1 DEF n
      <4> QED BY <2>2, <4>1, <4>2
    <3>2. sql[v + a + 1] = q /\ SignOn(sql, v + a + 2) = q
      BY <2>6, <2>7, <3>1
    <3> QED BY <1>s, <2>5, <3>1, <3>2 DEF a, c
  <2>9. CASE b[k] # q
    <3>1. X[k][1] = b[k] /\ n = 1 /\ c = a + 1
      <4>1. X[k] = <<b[k]>> /\ Len(<<b[k]>>) = 1 /\ <<b[k]>>[1] = b[k]
        BY <2>4, <2>9
      <4>2. n = 1
        BY <4>1 DEF n
      <4> QED BY <2>2, <4>1, <4>2
    <3>2. sql[v + a + 1] # q
      BY <2>6, <2>7, <2>9, <3>1
    <3> QED BY <1>s, <2>5, <3>1, <3>2 DEF a, c
  <2> QED BY <2>8, <2>9
<1>18. EndOfQuoted(sql, v + 1, q) = v + z + 2
  <2>1. v + l[m] + 1 \in 1 .. Len(sql) /\ sql[v + l[m] + 1] = q /\ SignOn(sql, v + l[m] + 2) # q
    BY <1>12, <1>13, <1>s, <1>v
  <2>2. EndOfQuoted(sql, v + 1, q) = v + l[m] + 2
    <3>1. \A k \in 1 .. m : l[k - 1] < l[m]
      BY <1>17
    <3>2. \A k \in 1 .. m : \/ sql[v + l[k - 1] + 1] # q /\ l[k] = l[k - 1] + 1
                            \/ sql[v + l[k - 1] + 1] = q /\ SignOn(sql, v + l[k - 1] + 2) = q /\ l[k] = l[k - 1] + 2
      BY <1>17
    <3>3. Len(sql) \in Nat /\ v \in Nat /\ m \in Nat
      BY <1>8, <1>b, <1>v
    <3>4. QuotedFrom(sql, q, v, m, l)
      BY <1>15, <1>16, <2>1, <3>1, <3>2, <3>3 DEF QuotedFrom
    <3> QED BY <3>4, EndOfQuotedIs
  <2> QED BY <1>s, <2>2
<1>19. ReadUpTo(sql, i) = i + Len(t)
  <2>1. v + 1 = i + 1 /\ v + z + 2 = i + Len(t)
    BY <1>8, <1>h, <1>t, <1>v, <1>z
  <2>2. ReadUpTo(sql, i) = EndOfQuoted(sql, i + 1, q)
    BY <1>3, <1>10, OpenedCopied
  <2> QED BY <1>18, <2>1, <2>2
<1>20. Len(t) \in Nat \ {0} /\ p.is # "marker"
  BY <1>t, <1>z
<1> QED BY <1>8, <1>19, <1>20, <1>h DEF Read

LEMMA PartRead ==
  ASSUME NEW p \in Part, NEW before, NEW after, NEW sql, StandsBetween(sql, before, Spelt(p), after), MayStand(p, before, after)
  PROVE  Read(sql, Len(before) + 1, p)
<1>1. p.is \in {"marker", "key", "plain", "operator", "number", "quoted", "remark", "comment", "dollars"}
  BY DEF MayStand
<1>2. CASE p.is \in {"marker", "key"}
  BY <1>2, QuestionRead
<1>3. CASE p.is \in {"plain", "operator"}
  BY <1>3, PlainRead
<1>4. CASE p.is = "number"
  BY <1>4, NumberRead
<1>5. CASE p.is = "quoted"
  BY <1>5, QuotedRead
<1>6. CASE p.is = "remark"
  BY <1>6, RemarkRead
<1>7. CASE p.is = "comment"
  BY <1>7, CommentRead
<1>8. CASE p.is = "dollars"
  BY <1>8, DollarsRead
<1> QED BY <1>1, <1>2, <1>3, <1>4, <1>5, <1>6, <1>7, <1>8

LEMMA SpeltSigns ==
  ASSUME NEW p \in Part, NEW before, NEW after, MayStand(p, before, after)
  PROVE  Spelt(p) \in Seq(SqlSign)
<1> DEFINE q == p.by[1]
<1>1. p.is \in {"marker", "key", "plain", "operator", "number", "quoted", "remark", "comment", "dollars"}
  BY DEF MayStand
<1>2. p.by \in Seq(SqlSign) /\ p.body \in Seq(SqlSign)
  BY SpeltIs
<1>3. <<"?">> \in Seq(SqlSign) /\ <<"$">> \in Seq(SqlSign) /\ <<"-", "-">> \in Seq(SqlSign) /\ <<"/", "*">> \in Seq(SqlSign) /\ <<"*", "/">> \in Seq(SqlSign)
  BY DEF SqlSign, Ordinary
<1>4. \A a, b \in Seq(SqlSign) : a \o b \in Seq(SqlSign)
  BY ConcatProperties
<1>5. ASSUME p.is = "quoted" PROVE Spelt(p) \in Seq(SqlSign)
  <2>1. p.by \in {<<"'">>, <<"\"">>}
    BY <1>5 DEF MayStand
  <2>2. p.by = <<"'">> \/ p.by = <<"\"">>
    BY <2>1
  <2>3. <<"'">>[1] = "'" /\ <<"\"">>[1] = "\""
    OBVIOUS
  <2>4. q \in {"'", "\""}
    BY <2>2, <2>3
  <2> HIDE DEF q
  <2>5. q \in SqlSign
    BY <2>4 DEF SqlSign
  <2>6. PICK D : Grows(D, Doubling(p.body, q), Len(p.body)) /\ D[Len(p.body)] = Doubled(p.body, q)
    BY <1>2, <2>5, DoubledIs
  <2>7. Len(p.body) \in Nat /\ Len(p.body) \in 0 .. Len(p.body)
    BY <1>2
  <2>8. Grown(D, Doubling(p.body, q), Len(p.body))
    BY <2>6, <2>7, GrownIs
  <2>9. Doubled(p.body, q) \in Seq(SqlSign)
    BY <2>6, <2>7, <2>8 DEF Grown
  <2>10. Doubled(p.body, q) \o p.by \in Seq(SqlSign)
    BY <1>2, <1>4, <2>9
  <2>11. p.by \o (Doubled(p.body, q) \o p.by) \in Seq(SqlSign)
    BY <1>2, <1>4, <2>10
  <2>12. Spelt(p) = p.by \o (Doubled(p.body, q) \o p.by)
    BY <1>5, SpeltIs DEF q
  <2> QED BY <2>11, <2>12
<1>6. CASE p.is \in {"marker", "key"}
  BY <1>3, <1>6, SpeltIs
<1>7. CASE p.is \in {"plain", "operator"}
  BY <1>2, <1>7, SpeltIs
<1>8. CASE p.is = "number"
  <2>1. <<"$">> \o p.body \in Seq(SqlSign)
    BY <1>2, <1>3, <1>4
  <2> QED BY <1>8, <2>1, SpeltIs
<1>9. CASE p.is = "remark"
  <2>1. <<"-", "-">> \o p.body \in Seq(SqlSign)
    BY <1>2, <1>3, <1>4
  <2> QED BY <1>9, <2>1, SpeltIs
<1>10. CASE p.is = "comment"
  <2>1. p.body \o <<"*", "/">> \in Seq(SqlSign)
    BY <1>2, <1>3, <1>4
  <2>2. <<"/", "*">> \o (p.body \o <<"*", "/">>) \in Seq(SqlSign)
    BY <1>3, <1>4, <2>1
  <2> QED BY <1>10, <2>2, SpeltIs
<1>11. CASE p.is = "dollars"
  <2>1. p.body \o p.by \in Seq(SqlSign)
    BY <1>2, <1>4
  <2>2. p.by \o (p.body \o p.by) \in Seq(SqlSign)
    BY <1>2, <1>4, <2>1
  <2> QED BY <1>11, <2>2, SpeltIs
<1> QED BY <1>1, <1>5, <1>6, <1>7, <1>8, <1>9, <1>10, <1>11

Spellings(parts) == [k \in 1 .. Len(parts) |-> Spelt(parts[k])]

(* A statement is its parts' spellings, one after the other.               *)
LEMMA StatementIs ==
  ASSUME NEW parts \in Seq(Part), WellWritten(parts)
  PROVE  \E T : Grows(T, Spellings(parts), Len(parts)) /\ \A n : UpToPart(parts, n) = T[n]
<1> DEFINE N == Len(parts)
           X == Spellings(parts)
           Y(k) == Spelt(parts[k])
           Def(f) == f = [k \in 0 .. N |-> IF k = 0 THEN <<>> ELSE f[k - 1] \o Y(k)]
           h == CHOOSE f : Def(f)
<1>1. N \in Nat /\ DOMAIN parts = 1 .. N /\ \A k \in 1 .. N : parts[k] \in Part
  OBVIOUS
<1>2. \A k \in 1 .. N : X[k] = Y(k)
  BY DEF Spellings
<1>3. \A k \in 1 .. N : Y(k) \in Seq(SqlSign)
  <2>1. ASSUME NEW k \in 1 .. N PROVE Spelt(parts[k]) \in Seq(SqlSign)
    <3>1. MayStand(parts[k], UpToPart(parts, k - 1), Beyond(parts, k)) /\ parts[k] \in Part
      BY <1>1 DEF WellWritten
    <3> QED BY <3>1, SpeltSigns
  <2> QED BY <2>1
<1>4. \A n : UpToPart(parts, n) = h[n]
  BY DEF UpToPart
<1> HIDE DEF X, Y, N
<1>5. PICK f : f = [k \in 0 .. N |-> IF k = 0 THEN <<>> ELSE f[k - 1] \o X[k]]
  BY <1>1, <1>2, <1>3, PiledUp
<1>6. Def(f)
  <2>1. \A k \in 0 .. N : (IF k = 0 THEN <<>> ELSE f[k - 1] \o X[k]) = (IF k = 0 THEN <<>> ELSE f[k - 1] \o Y(k))
    <3>1. \A k \in 0 .. N : k # 0 => k \in 1 .. N
      BY <1>1
    <3> QED BY <1>2, <3>1
  <2> QED BY <1>5, <2>1
<1>7. Def(h)
  <2> HIDE DEF Def
  <2> QED BY <1>6
<1> HIDE DEF h
<1>8. h[0] = <<>> /\ \A k \in 1 .. N : h[k] = h[k - 1] \o Y(k)
  <2>1. 0 \in 0 .. N /\ \A k \in 1 .. N : k \in 0 .. N /\ k # 0
    BY <1>1
  <2> QED BY <1>7, <2>1
<1>9. Grows(h, X, N)
  BY <1>2, <1>3, <1>8 DEF Grows
<1> QED BY <1>4, <1>9 DEF X, N

(* Every part is read where it stands.                                     *)
LEMMA PartsRead ==
  ASSUME NEW parts \in Seq(Part), WellWritten(parts), NEW T, Grows(T, Spellings(parts), Len(parts)),
         \A n : UpToPart(parts, n) = T[n], NEW k \in 1 .. Len(parts)
  PROVE  /\ StandsBetween(Statement(parts), T[k - 1], Spelt(parts[k]), Beyond(parts, k))
         /\ Read(Statement(parts), Len(T[k - 1]) + 1, parts[k])
<1> DEFINE N == Len(parts)
           X == Spellings(parts)
           sql == Statement(parts)
           after == Beyond(parts, k)
<1>1. N \in Nat /\ DOMAIN parts = 1 .. N /\ parts[k] \in Part /\ k \in 1 .. N
  OBVIOUS
<1>2. X[k] = Spelt(parts[k])
  BY DEF Spellings
<1>3. sql = T[N] /\ after = SubSeq(T[N], Len(T[k]) + 1, Len(T[N])) /\ UpToPart(parts, k - 1) = T[k - 1]
  BY DEF Statement, Beyond
<1>4. MayStand(parts[k], T[k - 1], after)
  BY <1>1, <1>3 DEF WellWritten
<1> HIDE DEF X, N, sql, after
<1>5. Grown(T, X, N)
  BY <1>1, GrownIs DEF X, N
<1>6. N \in 0 .. N /\ k \in 0 .. N /\ k - 1 \in 0 .. N /\ k \in 0 .. N /\ k - 1 \in 0 .. k /\ k \in 0 .. k
  BY <1>1
<1>7. /\ T[N] \in Seq(SqlSign) /\ T[k - 1] \in Seq(SqlSign) /\ T[k] \in Seq(SqlSign)
      /\ Len(T[k]) = Len(T[k - 1]) + Len(X[k])
      /\ \A j \in 1 .. Len(X[k]) : T[k][Len(T[k - 1]) + j] = X[k][j]
      /\ \A j \in 1 .. Len(T[k - 1]) : T[k][j] = T[k - 1][j]
      /\ Len(T[k]) <= Len(T[N])
      /\ \A j \in 1 .. Len(T[k]) : T[N][j] = T[k][j]
  BY <1>1, <1>5, <1>6 DEF Grown
<1>8. X[k] \in Seq(SqlSign)
  BY <1>1 DEF Grows, X, N
<1> DEFINE a == Len(T[k - 1])
           b == Len(X[k])
           c == Len(T[k])
           e == Len(T[N])
<1>9. a \in Nat /\ b \in Nat /\ c \in Nat /\ e \in Nat /\ c = a + b /\ c <= e
  <2>1. a \in Nat /\ b \in Nat /\ c \in Nat /\ e \in Nat
    <3>1. T[N] \in Seq(SqlSign) /\ T[k - 1] \in Seq(SqlSign) /\ T[k] \in Seq(SqlSign)
      BY <1>7
    <3> QED BY <1>8, <3>1
  <2>2. c = a + b /\ c <= e
    BY <1>7
  <2> QED BY <2>1, <2>2
<1>10. after = SubSeq(T[N], c + 1, e) /\ e <= Len(T[N])
  BY <1>3, <1>9
<1>11. /\ \A j \in 1 .. b : T[k][a + j] = X[k][j]
       /\ \A j \in 1 .. a : T[k][j] = T[k - 1][j]
       /\ \A j \in 1 .. c : T[N][j] = T[k][j]
       /\ a = Len(T[k - 1]) /\ b = Len(X[k]) /\ e = Len(T[N])
  BY <1>7
<1> HIDE DEF a, b, c, e
<1>12. after \in Seq(SqlSign) /\ Len(after) = e - c /\ \A j \in 1 .. e - c : after[j] = T[N][c + j]
  <2> DEFINE d == c + 1
  <2>1. d \in Nat \ {0} /\ e \in Nat /\ d <= e + 1 /\ e - d + 1 = e - c /\ \A j \in 1 .. e - c : d + j - 1 = c + j
    BY <1>9
  <2> HIDE DEF d
  <2>2. /\ SubSeq(T[N], d, e) \in Seq(SqlSign) /\ Len(SubSeq(T[N], d, e)) = e - d + 1
        /\ \A j \in 1 .. e - d + 1 : SubSeq(T[N], d, e)[j] = T[N][d + j - 1]
    BY <1>7, <1>10, <2>1, PartOf
  <2>3. after = SubSeq(T[N], d, e)
    BY <1>10 DEF d
  <2> QED BY <2>1, <2>2, <2>3
<1>13. /\ \A j \in 1 .. b : T[N][a + j] = X[k][j]
       /\ \A j \in 1 .. a : T[N][j] = T[k - 1][j]
       /\ \A j \in 1 .. e - c : T[N][a + b + j] = after[j]
  <2>1. (\A j \in 1 .. b : a + j \in 1 .. c) /\ (\A j \in 1 .. a : j \in 1 .. c) /\ a + b = c
    BY <1>9
  <2> QED BY ZenonT(60), <1>11, <1>12, <2>1
<1>14. e = a + b + (e - c)
  BY <1>9
<1>15. StandsBetween(T[N], T[k - 1], X[k], after)
  BY <1>7, <1>8, <1>11, <1>12, <1>13, <1>14 DEF StandsBetween
<1>16. StandsBetween(sql, T[k - 1], Spelt(parts[k]), after)
  BY <1>2, <1>3, <1>15
<1>17. Read(sql, Len(T[k - 1]) + 1, parts[k])
  BY <1>1, <1>4, <1>16, PartRead
<1> QED BY <1>16, <1>17 DEF sql, after

RoundReads(parts, T, k, n, out) ==
  Rewrite(Statement(parts), [i |-> Len(T[k - 1]) + 1, n |-> n, out |-> out]) =
    IF parts[k].is = "marker" THEN [i |-> Len(T[k]) + 1, n |-> n + 1, out |-> out \o Bind(n + 1)]
    ELSE [i |-> Len(T[k]) + 1, n |-> n, out |-> out \o Spelt(parts[k])]

(* One round of the loop reads one part.                                   *)
LEMMA RoundIs ==
  ASSUME NEW parts \in Seq(Part), WellWritten(parts), NEW T, Grows(T, Spellings(parts), Len(parts)),
         \A n : UpToPart(parts, n) = T[n], NEW k \in 1 .. Len(parts), NEW n, NEW out
  PROVE  RoundReads(parts, T, k, n, out)
<1> USE DEF RoundReads
<1> DEFINE sql == Statement(parts)
           p == parts[k]
           t == Spelt(p)
           w == Len(T[k - 1])
           i == w + 1
           m == Len(t)
           s == [i |-> i, n |-> n, out |-> out]
<1>1. StandsBetween(sql, T[k - 1], t, Beyond(parts, k)) /\ Read(sql, i, p)
  BY PartsRead
<1>2. Parted(sql, T[k - 1], t, Beyond(parts, k))
  BY <1>1, BetweenIs
<1>3. Len(T[k]) = w + m
  <2>1. Grown(T, Spellings(parts), Len(parts))
    <3>1. Len(parts) \in Nat
      OBVIOUS
    <3> QED BY <3>1, GrownIs
  <2>2. Len(T[k]) = Len(T[k - 1]) + Len(Spellings(parts)[k])
    BY <2>1 DEF Grown
  <2>3. Spellings(parts)[k] = t
    BY DEF Spellings
  <2> QED BY <2>2, <2>3
<1>4. w \in Nat /\ m \in Nat /\ m >= 1 /\ Len(sql) \in Nat /\ w + m <= Len(sql)
  <2>1. sql \in Seq(SqlSign) /\ T[k - 1] \in Seq(SqlSign) /\ Beyond(parts, k) \in Seq(SqlSign) /\ Len(sql) = w + m + Len(Beyond(parts, k))
    BY <1>1 DEF StandsBetween
  <2>2. m \in Nat \ {0}
    BY <1>1 DEF Read
  <2>3. Len(sql) \in Nat /\ w \in Nat /\ Len(Beyond(parts, k)) \in Nat
    <3>1. sql \in Seq(SqlSign) /\ T[k - 1] \in Seq(SqlSign) /\ Beyond(parts, k) \in Seq(SqlSign)
      BY <2>1
    <3> QED BY <3>1
  <2>4. Len(sql) = w + m + Len(Beyond(parts, k))
    BY <2>1
  <2> HIDE DEF sql, w, m
  <2> QED BY <2>2, <2>3, <2>4
<1>5. ReadUpTo(sql, i) = IF p.is = "marker" THEN i ELSE i + m
  BY <1>1 DEF Read
<1>6. SubSeq(sql, w + 1, w + m) = t
  BY <1>2 DEF Parted
<1>7. p \in Part
  OBVIOUS
<1> HIDE DEF sql, p, w, m, t
<1>8. Rewrite(sql, s) =
        IF ReadUpTo(sql, i) = i THEN [i |-> i + 1, n |-> n + 1, out |-> out \o Bind(n + 1)]
        ELSE [i |-> ReadUpTo(sql, i), n |-> n, out |-> out \o SubSeq(sql, i, ReadUpTo(sql, i) - 1)]
  <2>1. s.i = i /\ s.n = n /\ s.out = out /\ ~(i > Len(sql))
    BY <1>4
  <2> HIDE DEF s, i
  <2> QED BY <2>1 DEF Rewrite
<1>9. CASE p.is = "marker"
  <2>1. m = 1
    <3>1. t = <<"?">>
      BY <1>7, <1>9, SpeltIs DEF t
    <3> QED BY <3>1 DEF m
  <2>2. w + m + 1 = i + 1
    BY <1>4, <2>1
  <2> HIDE DEF i, s
  <2>3. Rewrite(sql, s) = [i |-> i + 1, n |-> n + 1, out |-> out \o Bind(n + 1)]
    BY <1>5, <1>8, <1>9
  <2>4. Rewrite(sql, s) = [i |-> w + m + 1, n |-> n + 1, out |-> out \o Bind(n + 1)]
    BY <2>2, <2>3
  <2> QED BY <1>3, <1>9, <2>4 DEF s, sql, p, i, w
<1>10. CASE p.is # "marker"
  <2>1. i + m # i /\ i + m = w + m + 1 /\ i + m - 1 = w + m /\ i = w + 1
    BY <1>4
  <2> HIDE DEF i, s
  <2>2. Rewrite(sql, s) = [i |-> i + m, n |-> n, out |-> out \o SubSeq(sql, i, i + m - 1)]
    <3>1. ReadUpTo(sql, i) = i + m
      BY <1>5, <1>10
    <3>2. ReadUpTo(sql, i) # i
      BY <2>1, <3>1
    <3>3. Rewrite(sql, s) = [i |-> ReadUpTo(sql, i), n |-> n, out |-> out \o SubSeq(sql, i, ReadUpTo(sql, i) - 1)]
      BY <1>8, <3>2, Zenon
    <3> HIDE DEF sql
    <3> DEFINE c == ReadUpTo(sql, i)
    <3>4. c = i + m
      BY <3>1
    <3>5. Rewrite(sql, s) = [i |-> c, n |-> n, out |-> out \o SubSeq(sql, i, c - 1)]
      BY <3>3
    <3> HIDE DEF c
    <3>6. c - 1 = i + m - 1
      BY <1>4, <2>1, <3>4
    <3> QED BY <3>4, <3>5, <3>6, Zenon
  <2>3. SubSeq(sql, i, i + m - 1) = t
    BY <1>6, <2>1
  <2>4. Rewrite(sql, s) = [i |-> w + m + 1, n |-> n, out |-> out \o t]
    BY <2>1, <2>2, <2>3
  <2> QED BY <1>3, <1>10, <2>4 DEF s, sql, p, i, w, t
<1> QED BY <1>9, <1>10

(* What the statement is to become, part by part.                          *)
Fields(parts, f, k) ==
  /\ parts[k].is = "marker" => WithPart(f, parts[k]).n = f.n + 1 /\ WithPart(f, parts[k]).out = f.out \o Bind(f.n + 1)
  /\ parts[k].is # "marker" => WithPart(f, parts[k]).n = f.n /\ WithPart(f, parts[k]).out = f.out \o Spelt(parts[k])

LEMMA NumberedFields == \A parts, f, k : Fields(parts, f, k)
<1> TAKE parts, f, k
<1> USE DEF Fields
<1> DEFINE n == f.n + 1
           bound == f.out \o Bind(f.n + 1)
           copied == f.out \o Spelt(parts[k])
<1>1. WithPart(f, parts[k]) = IF parts[k].is = "marker" THEN [n |-> n, out |-> bound] ELSE [n |-> f.n, out |-> copied]
  BY DEF WithPart
<1> HIDE DEF n, bound, copied
<1>2. /\ parts[k].is = "marker" => WithPart(f, parts[k]).n = n /\ WithPart(f, parts[k]).out = bound
      /\ parts[k].is # "marker" => WithPart(f, parts[k]).n = f.n /\ WithPart(f, parts[k]).out = copied
  BY <1>1
<1> QED BY <1>2 DEF n, bound, copied

LEMMA NumberedIs ==
  ASSUME NEW parts \in Seq(Part), WellWritten(parts)
  PROVE  \E M : /\ M[0] = [n |-> 0, out |-> <<>>] /\ \A k \in 1 .. Len(parts) : M[k] = WithPart(M[k - 1], parts[k])
                /\ Numbered(parts) = M[Len(parts)].out
<1> DEFINE N == Len(parts)
           U == SqlSign \cup {ToString(n) : n \in Nat}
           S == [n : Nat, out : Seq(U)]
           first == [n |-> 0, out |-> <<>>]
           Y(s, k) == WithPart(s, parts[k])
           step == [k \in 1 .. N |-> [s \in S |-> Y(s, k)]]
           Def(f) == f = [k \in 0 .. N |-> IF k = 0 THEN first ELSE Y(f[k - 1], k)]
           h == CHOOSE f : Def(f)
<1>1. N \in Nat
  OBVIOUS
<1>2. \A k \in 1 .. N : Spelt(parts[k]) \in Seq(U)
  <2>1. ASSUME NEW k \in 1 .. N PROVE Spelt(parts[k]) \in Seq(U)
    <3>1. MayStand(parts[k], UpToPart(parts, k - 1), Beyond(parts, k)) /\ parts[k] \in Part
      BY DEF WellWritten
    <3>2. Spelt(parts[k]) \in Seq(SqlSign)
      BY <3>1, SpeltSigns
    <3> QED BY <3>2
  <2> QED BY <2>1
<1>3. \A n \in Nat : Bind(n + 1) \in Seq(U)
  <2>1. ASSUME NEW n \in Nat PROVE Bind(n + 1) \in Seq(U)
    <3>1. n + 1 \in Nat /\ "$" \in SqlSign
      BY DEF SqlSign
    <3>2. ToString(n + 1) \in U /\ "$" \in U
      BY <3>1
    <3> HIDE DEF U
    <3> QED BY <3>2 DEF Bind
  <2> QED BY <2>1
<1>4. \A a, b \in Seq(U) : a \o b \in Seq(U)
  <2> HIDE DEF U
  <2> QED BY ConcatProperties
<1>5. ASSUME NEW k \in 1 .. N, NEW s \in S PROVE Y(s, k) \in S
  <2> HIDE DEF U
  <2>1. s.n \in Nat /\ s.out \in Seq(U) /\ s.n + 1 \in Nat
    OBVIOUS
  <2>2. s.out \o Bind(s.n + 1) \in Seq(U)
    BY <1>3, <1>4, <2>1
  <2>3. s.out \o Spelt(parts[k]) \in Seq(U)
    BY <1>2, <1>4, <2>1
  <2>4. [n |-> s.n + 1, out |-> s.out \o Bind(s.n + 1)] \in S
    BY <2>1, <2>2
  <2>5. [n |-> s.n, out |-> s.out \o Spelt(parts[k])] \in S
    BY <2>1, <2>3
  <2> HIDE DEF S
  <2> QED BY <2>4, <2>5 DEF WithPart
<1>6. first \in S
  OBVIOUS
<1>7. Numbered(parts) = h[N].out
  BY DEF Numbered
<1> HIDE DEF N, S, first, Y
<1>8. \A k \in 1 .. N : \A s \in S : step[k][s] = Y(s, k) /\ step[k][s] \in S
  BY <1>5
<1> HIDE DEF step
<1>9. PICK f \in [0 .. N -> S] : Follows(f, N, first, step)
  BY <1>1, <1>6, <1>8, Defined
<1>10. \A k \in 0 .. N : f[k] = IF k = 0 THEN first ELSE Y(f[k - 1], k)
  <2>1. \A k \in 0 .. N : k # 0 => k \in 1 .. N /\ k - 1 \in 0 .. N
    BY <1>1
  <2>2. \A k \in 0 .. N : f[k] = IF k = 0 THEN first ELSE step[k][f[k - 1]]
    BY <1>9 DEF Follows
  <2> QED BY <1>8, <1>9, <2>1, <2>2
<1>11. Def(f)
  <2>1. f = [k \in 0 .. N |-> f[k]]
    BY <1>9
  <2> QED BY <1>10, <2>1
<1>12. Def(h)
  <2> HIDE DEF Def
  <2> QED BY <1>11
<1> HIDE DEF h
<1>13. h[0] = first /\ \A k \in 1 .. N : h[k] = Y(h[k - 1], k)
  <2>1. 0 \in 0 .. N /\ \A k \in 1 .. N : k \in 0 .. N /\ k # 0
    BY <1>1
  <2> QED BY <1>12, <2>1
<1> QED BY <1>7, <1>13 DEF N, first, Y

(* db.query: every statement that is well written has its markers, and     *)
(* nothing else, numbered in their order.                                  *)
THEOREM StatementsNumbered ==
  ASSUME NEW parts \in Seq(Part), WellWritten(parts)
  PROVE  NumbersMarkers(parts)
<1> DEFINE N == Len(parts)
           sql == Statement(parts)
           L == Len(sql)
<1>1. N \in Nat /\ N \in 0 .. N
  OBVIOUS
<1>2. PICK T : Grows(T, Spellings(parts), Len(parts)) /\ \A n : UpToPart(parts, n) = T[n]
  BY StatementIs
<1>3. PICK M : /\ M[0] = [n |-> 0, out |-> <<>>] /\ \A k \in 1 .. Len(parts) : M[k] = WithPart(M[k - 1], parts[k])
               /\ Numbered(parts) = M[Len(parts)].out
  BY NumberedIs
<1>4. sql = T[N]
  BY <1>2 DEF Statement
<1>5. N <= L /\ L \in Nat
  <2>1. \A k \in 1 .. N : Spellings(parts)[k] # <<>>
    <3>1. ASSUME NEW k \in 1 .. N PROVE Spelt(parts[k]) # <<>>
      <4>1. Read(sql, Len(T[k - 1]) + 1, parts[k])
        BY <1>2, PartsRead
      <4>2. Len(Spelt(parts[k])) \in Nat \ {0} /\ Len(<<>>) = 0
        BY <4>1 DEF Read
      <4> QED BY <4>2
    <3> QED BY <3>1 DEF Spellings
  <2>2. \A k \in 0 .. N : k <= Len(T[k])
    BY <1>1, <1>2, <2>1, AsLong
  <2>3. Grown(T, Spellings(parts), N)
    BY <1>1, <1>2, GrownIs
  <2>4. T[N] \in Seq(SqlSign)
    BY <1>1, <2>3 DEF Grown
  <2> QED BY <1>1, <1>4, <2>2, <2>4
<1> DEFINE Inside(k) == [i |-> Len(T[k]) + 1, n |-> M[k].n, out |-> M[k].out]
           State(k) == IF k <= N THEN Inside(k) ELSE Inside(N)
           first == [i |-> 1, n |-> 0, out |-> <<>>]
           step(s) == Rewrite(sql, s)
           Def(f) == f = [k \in 0 .. L |-> IF k = 0 THEN first ELSE step(f[k - 1])]
           E == [k \in 0 .. L |-> State(k)]
           h == CHOOSE f : Def(f)
<1>6. ASSUME NEW k \in 1 .. N PROVE step(Inside(k - 1)) = Inside(k)
  <2>1. step(Inside(k - 1)) =
           IF parts[k].is = "marker" THEN [i |-> Len(T[k]) + 1, n |-> M[k - 1].n + 1, out |-> M[k - 1].out \o Bind(M[k - 1].n + 1)]
           ELSE [i |-> Len(T[k]) + 1, n |-> M[k - 1].n, out |-> M[k - 1].out \o Spelt(parts[k])]
    <3> DEFINE n == M[k - 1].n
               out == M[k - 1].out
    <3> HIDE DEF n, out
    <3>1. Grows(T, Spellings(parts), Len(parts)) /\ (\A a : UpToPart(parts, a) = T[a]) /\ k \in 1 .. Len(parts)
      BY <1>2
    <3>2. RoundReads(parts, T, k, n, out)
      BY <3>1, RoundIs
    <3> QED BY <3>2 DEF n, out, RoundReads
  <2>2. M[k] = WithPart(M[k - 1], parts[k])
    BY <1>3
  <2> HIDE DEF step
  <2>3. CASE parts[k].is = "marker"
    <3>f. Fields(parts, M[k - 1], k)
      BY NumberedFields, Zenon
    <3>0. WithPart(M[k - 1], parts[k]).n = M[k - 1].n + 1 /\ WithPart(M[k - 1], parts[k]).out = M[k - 1].out \o Bind(M[k - 1].n + 1)
      BY <2>3, <3>f, Zenon DEF Fields
    <3>1. M[k].n = M[k - 1].n + 1 /\ M[k].out = M[k - 1].out \o Bind(M[k - 1].n + 1)
      BY <2>2, <3>0
    <3>2. step(Inside(k - 1)) = [i |-> Len(T[k]) + 1, n |-> M[k - 1].n + 1, out |-> M[k - 1].out \o Bind(M[k - 1].n + 1)]
      BY <2>1, <2>3, Zenon
    <3> QED BY <3>1, <3>2, Zenon
  <2>4. CASE parts[k].is # "marker"
    <3>f. Fields(parts, M[k - 1], k)
      BY NumberedFields, Zenon
    <3>0. WithPart(M[k - 1], parts[k]).n = M[k - 1].n /\ WithPart(M[k - 1], parts[k]).out = M[k - 1].out \o Spelt(parts[k])
      BY <2>4, <3>f, Zenon DEF Fields
    <3>1. M[k].n = M[k - 1].n /\ M[k].out = M[k - 1].out \o Spelt(parts[k])
      BY <2>2, <3>0
    <3>2. step(Inside(k - 1)) = [i |-> Len(T[k]) + 1, n |-> M[k - 1].n, out |-> M[k - 1].out \o Spelt(parts[k])]
      BY <2>1, <2>4, Zenon
    <3> QED BY <3>1, <3>2, Zenon
  <2> QED BY <2>3, <2>4
<1>7. step(Inside(N)) = Inside(N)
  <2>1. Inside(N).i > L
    BY <1>4, <1>5
  <2> HIDE DEF Inside
  <2> QED BY <2>1 DEF Rewrite
<1>8. first = Inside(0)
  <2>1. T[0] = <<>> /\ Len(<<>>) + 1 = 1
    BY <1>2 DEF Grows
  <2>2. M[0].n = 0 /\ M[0].out = <<>>
    BY <1>3
  <2> QED BY <2>1, <2>2
<1>9. PostgresRewritePlaceholders(sql) = h[L].out
  BY DEF PostgresRewritePlaceholders
<1>10. Inside(N).out = Numbered(parts)
  BY <1>3
<1> HIDE DEF Inside, first, step, sql, L, N
<1>11. first = State(0) /\ State(L) = Inside(N)
  <2>1. State(0) = Inside(0)
    BY <1>1
  <2>2. CASE L <= N
    <3>1. L = N
      BY <1>1, <1>5, <2>2
    <3> QED BY <1>8, <2>1, <3>1
  <2>3. CASE ~(L <= N)
    BY <1>8, <2>1, <2>3
  <2> QED BY <2>2, <2>3
<1>12. ASSUME NEW k \in 1 .. L PROVE step(State(k - 1)) = State(k)
  <2>1. CASE k <= N
    <3>1. k \in 1 .. N /\ k - 1 <= N
      BY <1>1, <2>1
    <3> QED BY <1>6, <2>1, <3>1
  <2>2. CASE k = N + 1
    <3>1. ~(k <= N) /\ k - 1 = N /\ N <= N
      BY <1>1, <2>2
    <3> QED BY <1>7, <3>1
  <2>3. CASE k > N + 1
    <3>1. ~(k <= N) /\ ~(k - 1 <= N)
      BY <1>1, <2>3
    <3> QED BY <1>7, <3>1
  <2> QED BY <1>1, <2>1, <2>2, <2>3
<1> HIDE DEF State
<1>13. Def(E)
  <2>1. \A k \in 0 .. L : E[k] = IF k = 0 THEN first ELSE step(E[k - 1])
    <3>1. \A k \in 0 .. L : k # 0 => k \in 1 .. L /\ k - 1 \in 0 .. L
      BY <1>5
    <3> QED BY <1>11, <1>12, <3>1
  <2>2. E = [k \in 0 .. L |-> E[k]]
    OBVIOUS
  <2> HIDE DEF E
  <2> QED BY <2>1, <2>2
<1>14. Def(h)
  <2> HIDE DEF Def, E
  <2> QED BY <1>13
<1> HIDE DEF h
<1>15. h[0] = first /\ \A k \in 1 .. L : h[k] = step(h[k - 1])
  <2>1. 0 \in 0 .. L /\ \A k \in 1 .. L : k \in 0 .. L /\ k # 0
    BY <1>5
  <2> QED BY <1>14, <2>1
<1> DEFINE G == {k \in 0 .. L : h[k] = State(k)}
<1>16. 0 \in G
  BY <1>5, <1>11, <1>15
<1>17. ASSUME NEW k \in 0 .. L - 1, k \in G PROVE k + 1 \in G
  <2> DEFINE j == k + 1
  <2>1. j \in 1 .. L /\ j \in 0 .. L /\ j - 1 = k
    BY <1>5
  <2> HIDE DEF j
  <2>2. h[j] = step(State(k)) /\ step(State(j - 1)) = State(j)
    BY <1>12, <1>15, <1>17, <2>1
  <2>3. j \in G
    BY <2>1, <2>2
  <2> QED BY <2>3 DEF j
<1> HIDE DEF G
<1>18. 0 .. L \subseteq G
  BY <1>5, <1>16, <1>17, UpTo
<1>19. h[L] = State(L)
  BY <1>5, <1>18 DEF G
<1> QED BY <1>9, <1>10, <1>11, <1>19 DEF NumbersMarkers, sql

(* db.query and db.execute on PostgreSQL: every argument is bound where    *)
(* the script put its marker (BindsInOrder).                               *)
THEOREM MarkersBound == WellAsked => BindsInOrder
<1> SUFFICES ASSUME WellAsked, Asks("sql") PROVE NumbersMarkers(question)
  BY DEF BindsInOrder
<1>1. question \in Seq(Part) /\ WellWritten(question)
  BY DEF WellAsked
<1> QED BY <1>1, StatementsNumbered
==============================================================================
