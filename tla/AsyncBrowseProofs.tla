-------------------------- MODULE AsyncBrowseProofs --------------------------
(***************************************************************************)
(* Invariants of AsyncBrowse for every number of items and of shared       *)
(* variables, every value and every update a body can make.                *)
(***************************************************************************)
EXTENDS AsyncBrowse, SharedMergeProofs
-----------------------------------------------------------------------------
(* The type invariant: in particular what a cell, a snapshot or a final    *)
(* value holds is always a value, and no thread locks a variable the       *)
(* statement does not share.                                               *)
Counters ==
  /\ phase = "evaluate" => index = 1
  /\ phase = "spawn" => index \in 1 .. items
  /\ phase = "join" => index \in 1 .. items
  /\ phase = "publish" => index \in Shared
  /\ phase = "evaluate" => \A t \in Thread : pc[t] = "unborn"
  /\ phase = "spawn" => \A t \in Thread : t >= index => pc[t] = "unborn"
  /\ \A t \in Thread :
       /\ pc[t] \in {"unborn", "body"} => at[t] = 1
       /\ pc[t] \in {"snapshot", "merge"} => at[t] \in Shared

TypeInv == TypeOK /\ Counters

LEMMA InitTyped == Init => TypeInv
<1> SUFFICES ASSUME Init PROVE TypeInv
  OBVIOUS
<1>1. Keep \in Update
  BY DEF Update, Growth
<1>2. 1 \in 1 .. SharedCount + 1 /\ 0 \in 0 .. MaxItems
  BY SizesAssumption
<1>3. outer \in [Shared -> Value \cup {Absent}]
  BY OuterAssumption DEF Init
<1> QED BY <1>1, <1>2, <1>3, NullIsValue DEF Init, TypeInv, TypeOK, Counters, Phase, PC, Error

LEMMA MainTyped == TypeInv /\ MainStep => TypeInv'
<1> SUFFICES ASSUME TypeInv, MainStep PROVE TypeInv'
  OBVIOUS
<1> USE DEF TypeInv, TypeOK, Counters, Phase, PC, Error, thread
<1>1. CASE RejectArguments
  BY <1>1 DEF RejectArguments, Return
<1>2. CASE EmptyList
  BY <1>2 DEF EmptyList, Return
<1>3. CASE RejectArity
  BY <1>3 DEF RejectArity, Return
<1>4. CASE CreateCells
  <2>1. \A v \in Value \cup {Absent} : Loaded(v) \in Value
    BY NullIsValue DEF Loaded
  <2>2. cell' \in [Shared -> Value] /\ before' \in [Shared -> Value]
    BY <1>4, <2>1 DEF CreateCells
  <2>3. items' \in 1 .. MaxItems /\ phase' = "spawn" /\ index' = index
    BY <1>4 DEF CreateCells, Thread
  <2> QED BY <1>4, <2>2, <2>3, SizesAssumption DEF CreateCells
<1>5. CASE Spawn
  <2>1. index \in Thread
    BY <1>5, SizesAssumption DEF Spawn, Thread
  <2>2. pc' \in [Thread -> PC]
    BY <1>5, <2>1 DEF Spawn
  <2>3. \A t \in Thread : pc'[t] \in {"snapshot", "merge"} => at'[t] \in Shared
    <3>1. at[index] = 1 /\ (SharedCount # 0 => 1 \in Shared)
      BY <1>5, <2>1, SizesAssumption DEF Spawn, Shared
    <3> QED BY <1>5, <2>1, <3>1 DEF Spawn
  <2>4. \A t \in Thread : pc'[t] \in {"unborn", "body"} => at'[t] = 1
    BY <1>5, <2>1 DEF Spawn
  <2>5. /\ phase' = "spawn" => index' \in 1 .. items
        /\ phase' = "join" => index' \in 1 .. items
        /\ phase' \in {"spawn", "join"}
        /\ index' \in Nat
    BY <1>5, SizesAssumption DEF Spawn
  <2>6. phase' = "spawn" => \A t \in Thread : t >= index' => pc'[t] = "unborn"
    BY <1>5, <2>1, SizesAssumption DEF Spawn, Thread
  <2> QED BY <1>5, <2>2, <2>3, <2>4, <2>5, <2>6 DEF Spawn
<1>6. CASE Join
  <2>1. index \in Thread /\ index \in 1 .. items
    BY <1>6, SizesAssumption DEF Join, Thread
  <2>2. verdict' \in {"ok"} \cup Error
    BY <1>6, <2>1 DEF Join, Advance
  <2>3. /\ phase' \in {"join", "publish", "returned"}
        /\ index' \in Nat
        /\ phase' = "join" => index' \in 1 .. items
        /\ phase' = "publish" => index' \in Shared
    <3>1. CASE index < items
      <4>1. phase' = "join" /\ index' = index + 1
        BY <1>6, <2>1, <3>1 DEF Join, Advance
      <4> QED BY <2>1, <3>1, <4>1
    <3>2. CASE index = items
      <4>1. phase' = (IF SharedCount = 0 THEN "returned" ELSE "publish") /\ index' = 1
        BY <1>6, <2>1, <3>2 DEF Join, Advance
      <4> QED BY <4>1, SizesAssumption DEF Shared
    <3> QED BY <2>1, <3>1, <3>2
  <2> QED BY <1>6, <2>2, <2>3 DEF Join, Advance
<1>7. CASE Publish
  BY <1>7, SizesAssumption DEF Publish, Shared
<1> QED BY <1>1, <1>2, <1>3, <1>4, <1>5, <1>6, <1>7 DEF MainStep

LEMMA ThreadTyped ==
  ASSUME NEW t \in Thread, TypeInv, ThreadStep(t)
  PROVE  TypeInv'
<1> USE DEF TypeInv, TypeOK, Counters, Phase, PC, Error, main
<1>1. CASE Snapshot(t)
  <2>1. at[t] \in Shared
    BY <1>1 DEF Snapshot
  <2>2. snap' \in [Thread -> [Shared -> Value]]
    BY <1>1, <2>1 DEF Snapshot
  <2>3. CASE at[t] = SharedCount
    <3>1. 1 \in 1 .. SharedCount + 1
      BY SizesAssumption
    <3>2. pc' = [pc EXCEPT ![t] = "body"] /\ at' = [at EXCEPT ![t] = 1]
      BY <1>1, <2>3 DEF Snapshot
    <3>3. pc' \in [Thread -> PC] /\ at' \in [Thread -> 1 .. SharedCount + 1]
      BY <3>1, <3>2
    <3>4. Counters'
      BY <1>1, <3>2 DEF Snapshot
    <3>5. TypeOK'
      BY <1>1, <2>2, <3>3 DEF Snapshot
    <3> QED BY <3>4, <3>5
  <2>4. CASE at[t] # SharedCount
    <3>1. at[t] + 1 \in Shared /\ at[t] + 1 \in 1 .. SharedCount + 1
      BY <2>1, <2>4, SizesAssumption DEF Shared
    <3>2. pc' = pc /\ at' = [at EXCEPT ![t] = @ + 1]
      BY <1>1, <2>4 DEF Snapshot
    <3>3. at' \in [Thread -> 1 .. SharedCount + 1]
      BY <3>1, <3>2
    <3>4. Counters'
      BY <1>1, <3>1, <3>2 DEF Snapshot
    <3>5. TypeOK'
      BY <1>1, <2>2, <3>2, <3>3 DEF Snapshot
    <3> QED BY <3>4, <3>5
  <2> QED BY <2>3, <2>4
<1>2. CASE Body(t)
  <2>1. PICK choice \in BodyChoices(t) :
          /\ work' = [work EXCEPT ![t] = [k \in Shared |->
                        IF Fits(choice[k], snap[t][k]) THEN choice[k] ELSE Keep]]
          /\ fin' = [fin EXCEPT ![t] = [k \in Shared |->
                       Apply(IF Fits(choice[k], snap[t][k]) THEN choice[k] ELSE Keep,
                             snap[t][k])]]
          /\ result' \in {[result EXCEPT ![t] = r] : r \in {"ok", "runtime", "type", "exit"}}
    BY <1>2 DEF Body
  <2>2. ASSUME NEW k \in Shared
        PROVE  LET u == IF Fits(choice[k], snap[t][k]) THEN choice[k] ELSE Keep
               IN  u \in Update /\ Apply(u, snap[t][k]) \in Value
    <3>1. choice[k] \in Update
      <4>1. choice[k] \in BodyUpdates[t][k]
        BY <2>1 DEF BodyChoices
      <4>2. BodyUpdates[t][k] \subseteq Update
        BY BodyAssumption
      <4> QED BY <4>1, <4>2
    <3>2. snap[t][k] \in Value
      OBVIOUS
    <3>3. Keep \in Update /\ Apply(Keep, snap[t][k]) \in Value
      BY <3>2, ApplyCases DEF Update, Growth
    <3>4. Fits(choice[k], snap[t][k]) => Apply(choice[k], snap[t][k]) \in Value
      BY <3>1, <3>2, ApplyInValue
    <3> QED BY <3>1, <3>3, <3>4
  <2>3. work' \in [Thread -> [Shared -> Update]] /\ fin' \in [Thread -> [Shared -> Value]]
    BY <2>1, <2>2
  <2>4. result' \in [Thread -> {"ok"} \cup Error]
    BY <2>1
  <2>5. /\ pc' = [pc EXCEPT ![t] = IF SharedCount = 0 THEN "exited" ELSE "merge"]
        /\ UNCHANGED <<main, cell, at, snap>>
    BY <1>2 DEF Body, ToMerge
  <2>6. at[t] \in Shared \/ SharedCount = 0
    BY <1>2, SizesAssumption DEF Body, Shared
  <2> QED BY <1>2, <2>3, <2>4, <2>5, <2>6 DEF Body
<1>3. CASE NativeArityError(t)
  <2>1. at[t] \in Shared \/ SharedCount = 0
    BY <1>3, SizesAssumption DEF NativeArityError, Shared
  <2>2. fin' \in [Thread -> [Shared -> Value]]
    <3>1. PICK named \in SUBSET Shared :
            fin' = [fin EXCEPT ![t] = [k \in Shared |->
                      IF k \in named THEN Loaded(outer[k]) ELSE NullValue]]
      BY <1>3 DEF NativeArityError
    <3>2. \A k \in Shared : Loaded(outer[k]) \in Value
      BY NullIsValue DEF Loaded
    <3> QED BY <3>1, <3>2, NullIsValue
  <2> QED BY <1>3, <2>1, <2>2 DEF NativeArityError, ToMerge
<1>4. CASE Panic(t)
  BY <1>4 DEF Panic
<1>5. CASE Merge(t)
  <2>1. at[t] \in Shared
    BY <1>5 DEF Merge
  <2>2. MergeSharedWriteback(snap[t][at[t]], fin[t][at[t]], cell[at[t]]) \in Value
    BY <2>1, MergeInValue
  <2>3. cell' \in [Shared -> Value]
    BY <1>5, <2>1, <2>2 DEF Merge
  <2> QED BY <1>5, <2>1, <2>3, SizesAssumption DEF Merge, Shared
<1>6. CASE MergePanic(t)
  BY <1>6 DEF MergePanic
<1> QED BY <1>1, <1>2, <1>3, <1>4, <1>5, <1>6 DEF ThreadStep

LEMMA TypeInvariant == Spec => []TypeInv
<1>1. TypeInv /\ [Next]_vars => TypeInv'
  <2>1. TypeInv /\ UNCHANGED vars => TypeInv'
    BY DEF TypeInv, TypeOK, Counters, vars
  <2> QED BY <2>1, MainTyped, ThreadTyped DEF Next, Returned
<1> QED BY InitTyped, <1>1, PTL DEF Spec

(* Cells, snapshots, final values and outer variables always hold values,  *)
(* for any number of threads and shared variables.                         *)
THEOREM TypeCorrect == Spec => []TypeOK
  BY TypeInvariant, PTL DEF TypeInv
-----------------------------------------------------------------------------
(* The join: which threads have exited, and which of their results and     *)
(* cells the statement has already taken over.                             *)
FirstError(v, res, n) ==
  \/ v = "ok" /\ \A t \in 1 .. n : res[t] = "ok"
  \/ \E t \in 1 .. n : /\ v = res[t] /\ v # "ok"
                       /\ \A s \in 1 .. t - 1 : res[s] = "ok"

AllExited == \A t \in Thread : pc[t] = IF t <= items THEN "exited" ELSE "unborn"

JoinInv ==
  /\ phase \in {"evaluate", "spawn"} => verdict = "ok"
  /\ phase = "evaluate" => items = 0
  /\ phase = "spawn" => \A t \in Thread : t >= index => pc[t] = "unborn"
  /\ phase \in {"spawn", "join"} => \A k \in Shared : before[k] = Loaded(outer[k])
  /\ phase = "join" =>
       /\ \A t \in Thread : /\ t > items => pc[t] = "unborn"
                            /\ t < index => pc[t] = "exited"
       /\ FirstError(verdict, result, index - 1)
  /\ phase = "publish" =>
       /\ items > 0 /\ AllExited /\ FirstError(verdict, result, items)
       /\ \A k \in 1 .. index - 1 : outer[k] = cell[k]
  /\ phase = "returned" =>
       /\ AllExited
       /\ items > 0 => FirstError(verdict, result, items) /\ outer = cell

LEMMA InitJoin == Init => JoinInv
  BY DEF Init, JoinInv

LEMMA MainJoin ==
  ASSUME TypeInv, JoinInv, MainStep
  PROVE  JoinInv'
<1> USE SizesAssumption DEF TypeInv, TypeOK, Counters, JoinInv, Thread
<1>1. CASE RejectArguments
  BY <1>1 DEF RejectArguments, Return, thread, AllExited
<1>2. CASE EmptyList
  BY <1>2 DEF EmptyList, Return, thread, AllExited
<1>3. CASE RejectArity
  BY <1>3 DEF RejectArity, Return, thread, AllExited
<1>4. CASE CreateCells
  BY <1>4 DEF CreateCells, thread
<1>5. CASE Spawn
  <2>1. \A t \in Thread : t > index => pc'[t] = "unborn"
    BY <1>5 DEF Spawn
  <2>2. /\ verdict' = verdict /\ verdict = "ok"
        /\ before' = before /\ outer' = outer /\ items' = items
    BY <1>5 DEF Spawn
  <2>3. CASE index = items
    <3>1. phase' = "join" /\ index' = 1
      BY <1>5, <2>3 DEF Spawn
    <3> QED BY <1>5, <2>1, <2>2, <2>3, <3>1 DEF FirstError, Spawn
  <2>4. CASE index # items
    <3>1. phase' = "spawn" /\ index' = index + 1
      BY <1>5, <2>4 DEF Spawn
    <3> QED BY <1>5, <2>1, <2>2, <3>1 DEF Spawn
  <2> QED BY <2>3, <2>4
<1>6. CASE Join
  <2>1. /\ index \in 1 .. items /\ pc[index] = "exited" /\ items' = items
        /\ pc' = pc /\ result' = result /\ outer' = outer /\ cell' = cell
        /\ before' = before /\ FirstError(verdict, result, index - 1) /\ phase = "join"
        /\ verdict' = IF verdict = "ok" THEN result[index] ELSE verdict
    BY <1>6 DEF Join, Advance, thread
  <2>2. FirstError(verdict', result', index)
    <3>1. CASE verdict = "ok"
      <4>1. \A t \in 1 .. index - 1 : result[t] = "ok"
        BY <2>1, <3>1 DEF FirstError
      <4>2. verdict' = result[index]
        BY <2>1, <3>1
      <4>3. CASE result[index] = "ok"
        <5>1. \A t \in 1 .. index : result[t] = "ok"
          BY <2>1, <4>1, <4>3
        <5> QED BY <2>1, <4>2, <4>3, <5>1 DEF FirstError
      <4>4. CASE result[index] # "ok"
        <5>1. index \in 1 .. index
          BY <2>1
        <5> QED BY <2>1, <4>1, <4>2, <4>4, <5>1 DEF FirstError
      <4> QED BY <4>3, <4>4
    <3>2. CASE verdict # "ok"
      <4>1. PICK t \in 1 .. index - 1 : /\ verdict = result[t]
                                       /\ \A s \in 1 .. t - 1 : result[s] = "ok"
        BY <2>1, <3>2 DEF FirstError
      <4>2. t \in 1 .. index
        BY <2>1
      <4> QED BY <2>1, <3>2, <4>1, <4>2 DEF FirstError
    <3> QED BY <3>1, <3>2
  <2>3. \A t \in Thread : /\ t > items => pc[t] = "unborn"
                         /\ t < index + 1 => pc[t] = "exited"
    BY <2>1
  <2>4. CASE index < items
    <3>1. phase' = "join" /\ index' = index + 1
      BY <1>6, <2>4 DEF Join, Advance
    <3>2. FirstError(verdict', result', index' - 1)
      BY <2>1, <2>2, <3>1
    <3> QED BY <2>1, <2>3, <3>1, <3>2
  <2>5. CASE index = items
    <3>1. phase' = (IF SharedCount = 0 THEN "returned" ELSE "publish") /\ index' = 1
      BY <1>6, <2>1, <2>5 DEF Join, Advance
    <3>2. AllExited' /\ FirstError(verdict', result', items')
      BY <2>1, <2>2, <2>3, <2>5 DEF AllExited
    <3>3. SharedCount = 0 => outer' = cell'
      BY <2>1 DEF Shared
    <3> QED BY <2>1, <3>1, <3>2, <3>3
  <2> QED BY <2>1, <2>4, <2>5
<1>7. CASE Publish
  <2>1. /\ index \in Shared /\ phase = "publish" /\ AllExited /\ FirstError(verdict, result, items)
        /\ cell' = cell /\ pc' = pc /\ result' = result /\ items' = items
        /\ verdict' = verdict /\ outer' = [outer EXCEPT ![index] = cell[index]]
    BY <1>7 DEF Publish, thread
  <2>2. AllExited' /\ FirstError(verdict', result', items')
    BY <2>1 DEF AllExited, FirstError
  <2>3. \A k \in 1 .. index : outer'[k] = cell'[k]
    BY <2>1 DEF Shared
  <2>4. CASE index = SharedCount
    <3>1. outer' = cell' /\ phase' = "returned"
      BY <1>7, <2>1, <2>3, <2>4 DEF Publish, Shared
    <3> QED BY <2>2, <3>1
  <2>5. CASE index # SharedCount
    BY <1>7, <2>1, <2>2, <2>3, <2>5 DEF Publish, Shared
  <2> QED BY <2>4, <2>5
<1> QED BY <1>1, <1>2, <1>3, <1>4, <1>5, <1>6, <1>7 DEF MainStep

(* A thread that still runs keeps the statement in spawn or join, and the  *)
(* results the verdict was taken from are those of exited threads.         *)
LEMMA ThreadJoin ==
  ASSUME NEW t \in Thread, TypeInv, JoinInv, ThreadStep(t)
  PROVE  JoinInv'
<1> USE SizesAssumption DEF TypeInv, TypeOK, Counters, JoinInv, Thread
<1>1. /\ pc[t] \in {"snapshot", "body", "merge"} /\ pc'[t] # "unborn"
      /\ \A s \in Thread : s # t => pc'[s] = pc[s] /\ result'[s] = result[s]
      /\ UNCHANGED main
  <2>1. CASE Snapshot(t) \/ Panic(t)
    BY <2>1 DEF Snapshot, Panic, main
  <2>2. CASE Body(t)
    <3>1. /\ pc[t] = "body" /\ UNCHANGED main
          /\ pc' = [pc EXCEPT ![t] = IF SharedCount = 0 THEN "exited" ELSE "merge"]
          /\ \E r : result' = [result EXCEPT ![t] = r]
      BY <2>2 DEF Body, ToMerge
    <3> QED BY <3>1 DEF main
  <2>4. CASE NativeArityError(t)
    <3>1. /\ pc[t] = "body" /\ UNCHANGED main
          /\ pc' = [pc EXCEPT ![t] = IF SharedCount = 0 THEN "exited" ELSE "merge"]
          /\ \E r : result' = [result EXCEPT ![t] = r]
      BY <2>4 DEF NativeArityError, ToMerge
    <3> QED BY <3>1 DEF main
  <2>3. CASE Merge(t) \/ MergePanic(t)
    BY <2>3 DEF Merge, MergePanic, main
  <2> QED BY <2>1, <2>2, <2>3, <2>4 DEF ThreadStep
<1>2. phase \in {"spawn", "join"} /\ (phase = "join" => index <= t)
  BY <1>1 DEF AllExited, Phase
<1>3. phase = "join" => FirstError(verdict', result', index' - 1)
  <2> SUFFICES ASSUME phase = "join" PROVE FirstError(verdict', result', index - 1)
    BY <1>1 DEF main
  <2>1. FirstError(verdict, result, index - 1) /\ verdict' = verdict
    BY <1>1 DEF main
  <2>2. \A s \in 1 .. index - 1 : result'[s] = result[s]
    BY <1>1, <1>2
  <2>3. CASE \A s \in 1 .. index - 1 : result[s] = "ok"
    <3>1. verdict = "ok"
      BY <2>1, <2>3 DEF FirstError
    <3> QED BY <2>1, <2>2, <2>3, <3>1 DEF FirstError
  <2>4. CASE \E s \in 1 .. index - 1 : result[s] # "ok"
    <3>1. PICK u \in 1 .. index - 1 : /\ verdict = result[u] /\ verdict # "ok"
                                     /\ \A s \in 1 .. u - 1 : result[s] = "ok"
      BY <2>1, <2>4 DEF FirstError
    <3>2. \A s \in 1 .. u - 1 : s \in 1 .. index - 1
      OBVIOUS
    <3>3. verdict' = result'[u] /\ \A s \in 1 .. u - 1 : result'[s] = "ok"
      BY <2>1, <2>2, <3>1, <3>2
    <3> QED BY <2>1, <3>1, <3>3 DEF FirstError
  <2> QED BY <2>3, <2>4
<1> QED BY <1>1, <1>2, <1>3 DEF main

LEMMA JoinInvariant == Spec => []JoinInv
<1>1. TypeInv /\ JoinInv /\ [Next]_vars => JoinInv'
  <2>1. JoinInv /\ UNCHANGED vars => JoinInv'
    BY DEF JoinInv, AllExited, FirstError, vars
  <2> QED BY <2>1, MainJoin, ThreadJoin DEF Next, Returned
<1> QED BY InitJoin, <1>1, TypeInvariant, PTL DEF Spec

(* async_browse never returns, and never touches the caller's variables,   *)
(* while one of its threads is still running.                              *)
THEOREM AllThreadsJoined == Spec => []JoinedBeforePublish
<1>1. JoinInv => JoinedBeforePublish
  BY DEF JoinInv, JoinedBeforePublish, AllExited
<1> QED BY <1>1, JoinInvariant, PTL

(* The error of async_browse is that of the first failing item in list     *)
(* order, whatever the order the threads ended in.                         *)
THEOREM ErrorIsDeterminate == Spec => []FirstErrorReported
<1>1. JoinInv => FirstErrorReported
  BY DEF JoinInv, FirstErrorReported, FirstError
<1> QED BY <1>1, JoinInvariant, PTL

(* Failing threads do not keep the contributions of the others, nor their  *)
(* own, from the caller.                                                   *)
THEOREM ContributionsPublished == Spec => []PublishedEvenOnError
<1>1. JoinInv => PublishedEvenOnError
  BY DEF JoinInv, PublishedEvenOnError
<1> QED BY <1>1, JoinInvariant, PTL
-----------------------------------------------------------------------------
(* AsyncBrowse implements AtomicUpdates when the bodies only grow the      *)
(* shared variables.                                                       *)

(* The programs the statement is meant for: += and list.push on numbers,   *)
(* strings and lists, with a procedure of the right number of parameters.  *)
Growing ==
  /\ \A t \in Thread, k \in Shared : BodyUpdates[t][k] \subseteq Growth
  /\ InitialOuter \subseteq [Shared -> Mergeable]
  /\ Procedures \subseteq [native : BOOLEAN, params : {SharedCount + 1}]

(* Snapshots keep the variant of their cell, a thread about to write back  *)
(* holds the outcome of its update on its snapshot, and a thread that      *)
(* exited without a panic has written everything back.                     *)
Tracks(t) ==
  /\ pc[t] = "snapshot" => \A k \in 1 .. at[t] - 1 : SameVariant(snap[t][k], cell[k])
  /\ pc[t] \in {"body", "merge"} => \A k \in Shared : SameVariant(snap[t][k], cell[k])
  /\ pc[t] = "merge" => \A k \in Shared :
       /\ work[t][k] \in Growth
       /\ Fits(work[t][k], snap[t][k])
       /\ fin[t][k] = Apply(work[t][k], snap[t][k])
  /\ pc[t] # "exited" => result[t] # "panic"
  /\ pc[t] = "exited" /\ result[t] # "panic" => at[t] = SharedCount + 1
  /\ pc[t] = "exited" /\ result[t] = "panic" => at[t] = 1

GrowInv ==
  /\ proc.params = SharedCount + 1
  /\ phase = "evaluate" => \A k \in Shared : outer[k] \in Mergeable
  /\ phase # "evaluate" /\ items > 0 => \A k \in Shared : cell[k] \in Mergeable
  /\ \A t \in Thread : Tracks(t)

(* What a thread merges into its cell is its update, applied to the cell.  *)
LEMMA MergeStep ==
  ASSUME NEW t \in Thread, TypeInv, GrowInv, Merge(t)
  PROVE  /\ at[t] \in Shared
         /\ Fits(work[t][at[t]], cell[at[t]])
         /\ cell' = [cell EXCEPT ![at[t]] = Apply(work[t][at[t]], @)]
         /\ SameVariant(cell[at[t]], cell'[at[t]])
<1> DEFINE k == at[t]
<1>1. /\ k \in Shared /\ pc[t] = "merge" /\ work[t][k] \in Growth
      /\ Fits(work[t][k], snap[t][k]) /\ SameVariant(snap[t][k], cell[k])
      /\ fin[t][k] = Apply(work[t][k], snap[t][k])
      /\ cell \in [Shared -> Value]
  BY DEF TypeInv, TypeOK, Counters, GrowInv, Tracks, Merge
<1>2. cell' = [cell EXCEPT ![k] = MergeSharedWriteback(snap[t][k], fin[t][k], cell[k])]
  BY <1>1 DEF Merge
<1>3. /\ MergeSharedWriteback(snap[t][k], fin[t][k], cell[k]) = Apply(work[t][k], cell[k])
      /\ SameVariant(snap[t][k], Apply(work[t][k], cell[k]))
  BY <1>1, MergeAppliesUpdate
<1>4. SameVariant(cell[k], Apply(work[t][k], cell[k]))
  <2>1. SameVariant(cell[k], snap[t][k])
    BY <1>1 DEF SameVariant
  <2> QED BY <2>1, <1>3, SameVariantTransitive
<1>5. Fits(work[t][k], cell[k])
  BY <1>1, FitsSameVariant
<1> QED BY <1>1, <1>2, <1>3, <1>4, <1>5
-----------------------------------------------------------------------------
(* GrowInv holds initially and is kept by every step.                      *)
LEMMA InitGrow == Growing /\ Init => GrowInv
  BY DEF Growing, Init, GrowInv, Tracks

LEMMA MainGrow ==
  ASSUME Growing, TypeInv, JoinInv, GrowInv, MainStep
  PROVE  GrowInv'
<1> USE DEF TypeInv, TypeOK, Counters, JoinInv, GrowInv, Tracks
<1>1. CASE RejectArguments
  BY <1>1 DEF RejectArguments, Return, thread
<1>2. CASE EmptyList
  BY <1>2 DEF EmptyList, Return, thread
<1>3. CASE RejectArity
  BY <1>3 DEF RejectArity, Return, thread
<1>4. CASE CreateCells
  <2>1. \A v \in Mergeable : v \in Value
    BY DEF Mergeable, Value
  <2>2. ASSUME NEW k \in Shared PROVE cell'[k] \in Mergeable
    <3>1. outer[k] \in Mergeable /\ cell'[k] = Loaded(outer[k])
      BY <1>4 DEF CreateCells
    <3>2. outer[k] # Absent
      BY <2>1, <3>1, NullAssumption
    <3> QED BY <3>1, <3>2 DEF Loaded
  <2> QED BY <1>4, <2>2 DEF CreateCells, thread
<1>5. CASE Spawn
  <2>1. index \in Thread /\ pc[index] = "unborn" /\ at[index] = 1 /\ items > 0
    BY <1>5, SizesAssumption DEF Spawn, Thread
  <2>2. SharedCount = 0 => Shared = {}
    BY DEF Shared
  <2>3. pc' = [pc EXCEPT ![index] = IF SharedCount = 0 THEN "body" ELSE "snapshot"]
    BY <1>5 DEF Spawn
  <2>4. UNCHANGED <<proc, items, outer, cell, at, snap, fin, result, work>>
    BY <1>5 DEF Spawn
  <2>5. phase = "spawn" /\ phase' \in {"spawn", "join"}
    BY <1>5 DEF Spawn
  <2>6. ASSUME NEW t \in Thread, t # index PROVE pc'[t] = pc[t]
    BY <2>3, <2>6
  <2>7. pc'[index] = (IF SharedCount = 0 THEN "body" ELSE "snapshot")
    BY <2>1, <2>3
  <2>8. \A t \in Thread : Tracks(t)'
    BY <2>1, <2>2, <2>4, <2>6, <2>7 DEF Tracks
  <2> QED BY <2>1, <2>4, <2>5, <2>8
<1>6. CASE Join
  BY <1>6 DEF Join, Advance, thread
<1>7. CASE Publish
  BY <1>7 DEF Publish, thread
<1> QED BY <1>1, <1>2, <1>3, <1>4, <1>5, <1>6, <1>7 DEF MainStep

LEMMA ThreadGrow ==
  ASSUME NEW t \in Thread, Growing, TypeInv, JoinInv, GrowInv, ThreadStep(t)
  PROVE  GrowInv'
<1> USE DEF TypeInv, TypeOK, Counters, JoinInv, GrowInv, Tracks
<1>1. pc[t] \in {"snapshot", "body", "merge"} /\ UNCHANGED main
  BY DEF ThreadStep, Snapshot, Body, NativeArityError, Panic, Merge, MergePanic, ToMerge, main
<1>2. phase \in {"spawn", "join"} /\ items > 0
  <2>1. phase \in {"spawn", "join"}
    BY <1>1 DEF AllExited, Phase
  <2> QED BY <2>1
<1>3. CASE Snapshot(t)
  <2>1. at[t] \in Shared /\ at[t] \in 1 .. SharedCount
    BY <1>3 DEF Snapshot, Shared
  <2>2. /\ snap' = [snap EXCEPT ![t][at[t]] = cell[at[t]]]
        /\ cell' = cell /\ fin' = fin /\ result' = result /\ work' = work
    BY <1>3 DEF Snapshot
  <2>3. \A k \in 1 .. at[t] : SameVariant(snap'[t][k], cell'[k])
    <3>1. SameVariant(snap'[t][at[t]], cell'[at[t]])
      BY <1>2, <2>1, <2>2, MergeableSame
    <3>2. ASSUME NEW k \in 1 .. at[t] - 1 PROVE SameVariant(snap'[t][k], cell'[k])
      <4>1. k # at[t] /\ snap'[t][k] = snap[t][k]
        BY <2>1, <2>2
      <4>2. SameVariant(snap[t][k], cell[k])
        BY <1>3 DEF Snapshot
      <4> QED BY <2>2, <4>1, <4>2
    <3>3. ASSUME NEW n \in 1 .. SharedCount
          PROVE  \A k \in 1 .. n : k = n \/ k \in 1 .. n - 1
      BY SizesAssumption
    <3>4. \A k \in 1 .. at[t] : k = at[t] \/ k \in 1 .. at[t] - 1
      BY <2>1, <3>3
    <3> QED BY <3>1, <3>2, <3>4
  <2>4. \A s \in Thread : s # t => snap'[s] = snap[s] /\ pc'[s] = pc[s] /\ at'[s] = at[s]
    BY <1>3 DEF Snapshot
  <2>5. CASE at[t] = SharedCount
    <3>1. pc'[t] = "body"
      BY <1>3, <2>5 DEF Snapshot
    <3>2. \A k \in Shared : SameVariant(snap'[t][k], cell'[k])
      BY <2>3, <2>5 DEF Shared
    <3>3. result'[t] # "panic"
      BY <1>1, <2>2
    <3> QED BY <1>1, <1>2, <2>2, <2>4, <3>1, <3>2, <3>3 DEF main
  <2>6. CASE at[t] # SharedCount
    <3>1. pc' = pc /\ at'[t] = at[t] + 1 /\ pc[t] = "snapshot"
      BY <1>3, <2>6 DEF Snapshot
    <3>2. \A k \in 1 .. at'[t] - 1 : SameVariant(snap'[t][k], cell'[k])
      BY <2>1, <2>3, <3>1
    <3> QED BY <1>1, <1>2, <2>2, <2>4, <3>1, <3>2 DEF main
  <2> QED BY <2>5, <2>6
<1>4. CASE Body(t)
  <2>1. PICK choice \in BodyChoices(t) :
          /\ work' = [work EXCEPT ![t] = [k \in Shared |->
                        IF Fits(choice[k], snap[t][k]) THEN choice[k] ELSE Keep]]
          /\ fin' = [fin EXCEPT ![t] = [k \in Shared |->
                       Apply(IF Fits(choice[k], snap[t][k]) THEN choice[k] ELSE Keep,
                             snap[t][k])]]
          /\ result' \in {[result EXCEPT ![t] = r] : r \in {"ok", "runtime", "type", "exit"}}
    BY <1>4 DEF Body
  <2>2. /\ pc[t] = "body" /\ pc' = [pc EXCEPT ![t] = IF SharedCount = 0 THEN "exited" ELSE "merge"]
        /\ cell' = cell /\ at' = at /\ snap' = snap /\ at[t] = 1
    BY <1>4 DEF Body, ToMerge
  <2>3. ASSUME NEW k \in Shared
        PROVE  /\ work'[t][k] \in Growth
               /\ Fits(work'[t][k], snap[t][k])
               /\ fin'[t][k] = Apply(work'[t][k], snap[t][k])
    <3>1. choice[k] \in Growth
      BY <2>1 DEF BodyChoices, Growing
    <3>2. Keep \in Growth /\ Fits(Keep, snap[t][k])
      BY DEF Growth, Fits, Keep
    <3>3. work'[t][k] = IF Fits(choice[k], snap[t][k]) THEN choice[k] ELSE Keep
      BY <2>1
    <3>4. fin'[t][k] = Apply(IF Fits(choice[k], snap[t][k]) THEN choice[k] ELSE Keep, snap[t][k])
      BY <2>1
    <3> QED BY <3>1, <3>2, <3>3, <3>4
  <2>4. result'[t] # "panic"
    BY <2>1
  <2>5. \A s \in Thread : s # t => /\ pc'[s] = pc[s] /\ work'[s] = work[s]
                                   /\ fin'[s] = fin[s] /\ result'[s] = result[s]
    BY <2>1, <2>2
  <2>6. SharedCount = 0 => at[t] = SharedCount + 1
    BY <2>2
  <2>7. UNCHANGED <<phase, proc, items, outer, cell, at, snap>>
    BY <1>1, <2>2 DEF main
  <2>8. ASSUME NEW s \in Thread PROVE Tracks(s)'
    <3>1. CASE s = t
      <4>1. pc'[t] = IF SharedCount = 0 THEN "exited" ELSE "merge"
        BY <2>2
      <4>2. \A k \in Shared : SameVariant(snap[t][k], cell[k])
        BY <2>2
      <4> QED BY <2>3, <2>4, <2>6, <2>7, <3>1, <4>1, <4>2
    <3>2. CASE s # t
      BY <2>5, <2>7, <3>2
    <3> QED BY <3>1, <3>2
  <2>9. phase' # "evaluate" /\ proc'.params = SharedCount + 1 /\ \A k \in Shared : cell'[k] \in Mergeable
    BY <1>2, <2>7
  <2> QED BY <2>8, <2>9
<1>5. CASE NativeArityError(t)
  BY <1>5, SizesAssumption DEF NativeArityError
<1>6. CASE Panic(t)
  BY <1>1, <1>2, <1>6 DEF Panic, main
<1>7. CASE Merge(t)
  <2>1. at[t] \in Shared /\ SameVariant(cell[at[t]], cell'[at[t]])
    BY <1>7, MergeStep
  <2>2. \A k \in Shared : SameVariant(cell[k], cell'[k])
    <3>1. \A k \in Shared : k # at[t] => cell'[k] = cell[k]
      BY <1>7 DEF Merge
    <3> QED BY <1>2, <2>1, <3>1, MergeableSame
  <2>3. \A k \in Shared : \A v : SameVariant(v, cell[k]) => SameVariant(v, cell'[k])
    BY <2>2, SameVariantTransitive
  <2>4. /\ UNCHANGED <<main, snap, fin, result, work>>
        /\ at' = [at EXCEPT ![t] = @ + 1] /\ pc[t] = "merge"
        /\ pc' = [pc EXCEPT ![t] = IF at[t] = SharedCount THEN "exited" ELSE "merge"]
    BY <1>7 DEF Merge
  <2>5. ASSUME NEW s \in Thread PROVE Tracks(s)'
    <3>1. CASE s = t
      <4>1. /\ pc'[t] = IF at[t] = SharedCount THEN "exited" ELSE "merge"
            /\ at'[t] = at[t] + 1 /\ snap'[t] = snap[t] /\ work'[t] = work[t]
            /\ fin'[t] = fin[t] /\ result'[t] = result[t]
        BY <2>4
      <4>2. Tracks(t)
        BY DEF GrowInv
      <4>3. \A k \in Shared : SameVariant(snap'[t][k], cell'[k])
        BY <2>3, <2>4, <4>1, <4>2
      <4>4. \A k \in Shared : /\ work[t][k] \in Growth
                              /\ Fits(work[t][k], snap[t][k])
                              /\ fin[t][k] = Apply(work[t][k], snap[t][k])
        BY <2>4, <4>2
      <4>5. result[t] # "panic"
        BY <2>4, <4>2
      <4> QED BY <3>1, <4>1, <4>3, <4>4, <4>5
    <3>2. CASE s # t
      <4>1. pc'[s] = pc[s] /\ at'[s] = at[s] /\ snap'[s] = snap[s]
        BY <2>4, <3>2
      <4>2. pc[s] = "snapshot" => \A k \in 1 .. at[s] - 1 : k \in Shared
        <5>1. pc[s] = "snapshot" => at[s] \in 1 .. SharedCount
          BY DEF Shared
        <5> QED BY <5>1, SizesAssumption DEF Shared
      <4> QED BY <2>3, <2>4, <4>1, <4>2
    <3> QED BY <3>1, <3>2
  <2>6. \A k \in Shared : cell'[k] \in Mergeable
    BY <2>2, MergeableSame
  <2> QED BY <1>2, <2>4, <2>5, <2>6 DEF main
<1>8. CASE MergePanic(t)
  BY <1>8, SizesAssumption DEF MergePanic, Shared
<1> QED BY <1>3, <1>4, <1>5, <1>6, <1>7, <1>8 DEF ThreadStep

LEMMA GrowInvariant == ASSUME Growing PROVE Spec => []GrowInv
<1>1. TypeInv /\ JoinInv /\ GrowInv /\ [Next]_vars => GrowInv'
  <2>1. GrowInv /\ UNCHANGED vars => GrowInv'
    BY DEF GrowInv, Tracks, vars
  <2> QED BY <2>1, MainGrow, ThreadGrow DEF Next, Returned
<1>2. Init => GrowInv
  BY InitGrow
<1> QED BY <1>1, <1>2, TypeInvariant, JoinInvariant, PTL DEF Spec
-----------------------------------------------------------------------------
(* Every step is a step of AtomicUpdates or changes none of its variables. *)
LEMMA InitRefines == Init => Atomic!Init
  BY DEF Init, Atomic!Init, Stage, Decided, Applied, Merged

LEMMA MainRefines ==
  ASSUME Growing, TypeInv, JoinInv, GrowInv, MainStep
  PROVE  Atomic!Next \/ UNCHANGED Atomic!vars
<1> USE DEF TypeInv, TypeOK, Counters, JoinInv
<1>1. Decided' = Decided /\ Applied' = Applied /\ work' = work
  <2>1. at' = at /\ result' = result /\ work' = work
    BY DEF MainStep, RejectArguments, EmptyList, RejectArity, CreateCells, Spawn, Join, Advance,
           Publish, thread
  <2>2. \A t \in Thread :
          pc'[t] = pc[t] \/ (pc[t] = "unborn" /\ pc'[t] \in {"snapshot", "body"})
    <3>1. CASE Spawn
      <4>1. index \in Thread /\ pc[index] = "unborn"
        BY <3>1, SizesAssumption DEF Spawn, Thread
      <4> QED BY <3>1, <4>1 DEF Spawn
    <3>2. CASE ~Spawn
      BY <3>2 DEF MainStep, RejectArguments, EmptyList, RejectArity, CreateCells, Join, Advance, Publish,
                  thread
    <3> QED BY <3>1, <3>2
  <2>3. \A t \in Thread, x \in {"merge", "exited"} : pc'[t] = x <=> pc[t] = x
    BY <2>2
  <2> HIDE DEF TypeInv, TypeOK, Counters, JoinInv
  <2> QED BY <2>1, <2>3 DEF Decided, Applied, Merged
<1>2. CASE RejectArguments \/ EmptyList \/ RejectArity
  <2>1. Stage = "before" /\ Stage' = "before" /\ outer' = outer /\ cell' = cell
    BY <1>2 DEF RejectArguments, EmptyList, RejectArity, Return, Stage
  <2> QED BY <1>1, <2>1 DEF Atomic!vars
<1>3. CASE CreateCells
  <2>1. Stage = "before" /\ Stage' = "open" /\ outer' = outer
    BY <1>3 DEF CreateCells, Stage
  <2>2. cell' = [k \in Shared |-> Loaded(outer[k])]
    BY <1>3 DEF CreateCells
  <2> QED BY <1>1, <2>1, <2>2 DEF Atomic!Next, Atomic!Open
<1>4. CASE Spawn
  <2>1. Stage = "open" /\ Stage' = "open" /\ outer' = outer /\ cell' = cell
    BY <1>4 DEF Spawn, Stage
  <2> QED BY <1>1, <2>1 DEF Atomic!vars
<1>5. CASE Join
  <2>1. Stage = "open" /\ outer' = outer /\ cell' = cell /\ items' = items /\ pc' = pc
    BY <1>5 DEF Join, Advance, Stage, thread
  <2>2. CASE phase' = "join"
    <3>1. Stage' = "open"
      BY <2>2 DEF Stage
    <3> QED BY <1>1, <2>1, <3>1 DEF Atomic!vars
  <2>3. CASE phase' # "join"
    <3>1. items > 0 /\ phase' \in {"publish", "returned"}
      BY <1>5, <2>3 DEF Join, Advance
    <3>2. Stage' = "closed"
      BY <2>1, <3>1 DEF Stage
    <3>3. AllExited
      BY <1>5, <2>1, <3>1, MainJoin DEF AllExited
    <3>4. ASSUME NEW t \in Decided, NEW k \in Shared PROVE <<t, k>> \in Applied
      <4>1. t \in Thread /\ pc[t] = "exited" /\ at[t] = SharedCount + 1
        BY <3>3 DEF AllExited, Decided, GrowInv, Tracks
      <4> QED BY <4>1, SizesAssumption DEF Applied, Merged, Shared
    <3> QED BY <1>1, <2>1, <3>2, <3>4 DEF Atomic!Next, Atomic!Close
  <2> QED BY <2>2, <2>3
<1>6. CASE Publish
  <2>1. /\ index \in Shared /\ items' = items /\ cell' = cell
        /\ outer' = [outer EXCEPT ![index] = cell[index]]
        /\ phase' \in {"publish", "returned"} /\ phase = "publish"
    BY <1>6 DEF Publish
  <2>2. items > 0
    BY <2>1 DEF AllExited
  <2>3. Stage = "closed" /\ Stage' = "closed"
    BY <2>1, <2>2 DEF Stage
  <2> QED BY <1>1, <2>1, <2>3 DEF Atomic!Next, Atomic!Publish
<1> QED BY <1>2, <1>3, <1>4, <1>5, <1>6 DEF MainStep

LEMMA ThreadRefines ==
  ASSUME NEW t \in Thread, Growing, TypeInv, JoinInv, GrowInv, ThreadStep(t)
  PROVE  Atomic!Next \/ UNCHANGED Atomic!vars
<1> USE DEF TypeInv, TypeOK, Counters, JoinInv
<1>1. pc[t] \in {"snapshot", "body", "merge"} /\ UNCHANGED main
  BY DEF ThreadStep, Snapshot, Body, NativeArityError, Panic, Merge, MergePanic, ToMerge, main
<1>2. phase \in {"spawn", "join"}
  BY <1>1 DEF AllExited, Phase
<1>3. Stage = "open" /\ Stage' = "open" /\ outer' = outer
  BY <1>1, <1>2 DEF main, Stage
<1>4. CASE Snapshot(t)
  <2>1. cell' = cell /\ work' = work /\ result' = result
    BY <1>4 DEF Snapshot
  <2>2. \A s \in Thread : /\ pc'[s] \in {"merge", "exited"} <=> pc[s] \in {"merge", "exited"}
                          /\ pc'[s] \in {"merge", "exited"} => pc'[s] = pc[s] /\ at'[s] = at[s]
    BY <1>4 DEF Snapshot
  <2>3. Decided' = Decided /\ Applied' = Applied
    BY <2>1, <2>2 DEF Decided, Applied, Merged
  <2> QED BY <1>3, <2>1, <2>3 DEF Atomic!vars
<1>5. CASE Body(t)
  <2>1. /\ pc[t] = "body" /\ cell' = cell /\ at' = at /\ at[t] = 1
        /\ pc' = [pc EXCEPT ![t] = IF SharedCount = 0 THEN "exited" ELSE "merge"]
    BY <1>5 DEF Body, ToMerge
  <2>2. PICK choice \in BodyChoices(t) :
          /\ work' = [work EXCEPT ![t] = [k \in Shared |->
                        IF Fits(choice[k], snap[t][k]) THEN choice[k] ELSE Keep]]
          /\ result' \in {[result EXCEPT ![t] = r] : r \in {"ok", "runtime", "type", "exit"}}
    BY <1>5 DEF Body
  <2>3. work'[t] \in [Shared -> Growth] /\ work' = [work EXCEPT ![t] = work'[t]]
    <3>1. \A k \in Shared : choice[k] \in Growth
      BY <2>2 DEF BodyChoices, Growing
    <3>2. Keep \in Growth
      BY DEF Growth
    <3> QED BY <2>2, <3>1, <3>2
  <2>4. result'[t] # "panic" /\ \A s \in Thread : s # t => result'[s] = result[s]
    BY <2>2
  <2>5. t \notin Decided /\ Decided' = Decided \cup {t}
    BY <2>1, <2>4 DEF Decided
  <2>6. Applied' = Applied
    <3>1. \A s \in Thread, k \in Shared : Merged(s, k)' <=> Merged(s, k)
      BY <2>1, SizesAssumption DEF Merged, Shared
    <3> QED BY <3>1 DEF Applied
  <2> QED BY <1>3, <2>1, <2>3, <2>5, <2>6 DEF Atomic!Next, Atomic!Decide
<1>6. CASE NativeArityError(t)
  BY <1>6, SizesAssumption DEF NativeArityError, GrowInv
<1>7. CASE Panic(t)
  <2>1. /\ pc[t] = "body" /\ at[t] = 1 /\ cell' = cell /\ at' = at /\ work' = work
        /\ pc' = [pc EXCEPT ![t] = "exited"] /\ result' = [result EXCEPT ![t] = "panic"]
    BY <1>7 DEF Panic
  <2>2. Decided' = Decided
    BY <2>1 DEF Decided
  <2>3. Applied' = Applied
    <3>1. \A s \in Thread, k \in Shared : Merged(s, k)' <=> Merged(s, k)
      BY <2>1, SizesAssumption DEF Merged, Shared
    <3> QED BY <3>1 DEF Applied
  <2> QED BY <1>3, <2>1, <2>2, <2>3 DEF Atomic!vars
<1>8. CASE Merge(t)
  <2>1. /\ at[t] \in Shared
        /\ Fits(work[t][at[t]], cell[at[t]])
        /\ cell' = [cell EXCEPT ![at[t]] = Apply(work[t][at[t]], @)]
    BY <1>8, MergeStep
  <2>2. /\ pc[t] = "merge" /\ at' = [at EXCEPT ![t] = @ + 1]
        /\ pc' = [pc EXCEPT ![t] = IF at[t] = SharedCount THEN "exited" ELSE "merge"]
        /\ result' = result /\ work' = work
    BY <1>8 DEF Merge
  <2>3. t \in Decided /\ Decided' = Decided
    <3>1. result[t] # "panic"
      BY <2>2 DEF GrowInv, Tracks
    <3> QED BY <2>2, <3>1 DEF Decided
  <2>4. <<t, at[t]>> \notin Applied
    BY <2>1 DEF Applied, Merged, Shared
  <2>5. Applied' = Applied \cup {<<t, at[t]>>}
    <3>1. ASSUME NEW s \in Thread, NEW k \in Shared
          PROVE  Merged(s, k)' <=> Merged(s, k) \/ (s = t /\ k = at[t])
      BY <2>1, <2>2, SizesAssumption DEF Merged, Shared
    <3> QED BY <2>1, <3>1 DEF Applied
  <2> QED BY <1>3, <2>1, <2>2, <2>3, <2>4, <2>5 DEF Atomic!Next, Atomic!TakeEffect
<1>9. CASE MergePanic(t)
  BY <1>9, SizesAssumption DEF MergePanic, GrowInv, Shared
<1> QED BY <1>4, <1>5, <1>6, <1>7, <1>8, <1>9 DEF ThreadStep

(* async_browse with growing bodies behaves as if every update had been    *)
(* made atomically on the shared variable: what merge_shared_writeback is  *)
(* for, for any number of items and variables and any schedule.            *)
THEOREM ImplementsAtomicUpdates == ASSUME Growing PROVE Spec => AtomicSpec
<1>1. TypeInv /\ JoinInv /\ GrowInv /\ [Next]_vars => [Atomic!Next]_(Atomic!vars)
  <2>1. UNCHANGED vars => UNCHANGED Atomic!vars
    BY DEF vars, Atomic!vars, Stage, Decided, Applied, Merged
  <2> QED BY <2>1, MainRefines, ThreadRefines DEF Next, Returned
<1>2. Init => Atomic!Init
  BY InitRefines
<1> QED BY <1>1, <1>2, TypeInvariant, JoinInvariant, GrowInvariant, PTL
        DEF Spec, AtomicSpec, Atomic!Spec

-----------------------------------------------------------------------------
(* What a body pushed stays together: a later write-back appends behind it.*)
Holds(list, part) ==
  \E i \in 0 .. Len(list) - Len(part) : SubSeq(list, i + 1, i + Len(part)) = part

LEMMA HoldsTail ==
  ASSUME NEW S, NEW s \in Seq(S), NEW w \in Seq(S)
  PROVE  s \o w \in Seq(S) /\ Holds(s \o w, w)
<1>1. Len(s \o w) = Len(s) + Len(w) /\ Len(s) \in Nat /\ Len(w) \in Nat /\ s \o w \in Seq(S)
  BY ConcatProperties, LenProperties
<1>2. SubSeq(s \o w, Len(s) + 1, Len(s) + Len(w)) = w
  BY <1>1, TailAfterPrefix
<1>3. Len(s) \in 0 .. Len(s \o w) - Len(w)
  BY <1>1
<1> QED BY <1>1, <1>2, <1>3 DEF Holds

LEMMA HoldsStill ==
  ASSUME NEW S, NEW s \in Seq(S), NEW w \in Seq(S), NEW x \in Seq(S), Holds(s, x)
  PROVE  Holds(s \o w, x)
<1>1. Len(s \o w) = Len(s) + Len(w) /\ Len(s) \in Nat /\ Len(w) \in Nat /\ Len(x) \in Nat
  BY ConcatProperties, LenProperties
<1>2. PICK i \in 0 .. Len(s) - Len(x) : SubSeq(s, i + 1, i + Len(x)) = x
  BY DEF Holds
<1>3. SubSeq(s \o w, i + 1, i + Len(x)) = SubSeq(s, i + 1, i + Len(x))
  <2>1. CASE Len(x) = 0
    BY <1>1, <1>2, <2>1, SubSeqEmpty
  <2>2. CASE Len(x) # 0
    <3>1. i + 1 \in 1 .. Len(s) /\ i + Len(x) \in 1 .. Len(s)
      BY <1>1, <1>2, <2>2
    <3> QED BY <3>1, SubSeqOfConcat1
  <2> QED BY <2>1, <2>2
<1>4. i \in 0 .. Len(s \o w) - Len(x)
  BY <1>1, <1>2
<1> QED BY <1>2, <1>3, <1>4 DEF Holds

(* The cells keep the variants they began with, and each list holds what   *)
(* was merged into it.                                                     *)
Kept(t, k) ==
  /\ work[t][k] = Keep \/ work[t][k] \in [push : Seq(Element)]
  /\ Holds(cell[k].list, Pushed(t, k))

TogetherInv ==
  /\ phase # "evaluate" /\ items > 0 => \A k \in Shared : SameVariant(before[k], cell[k])
  /\ \A t \in Thread, k \in Shared : Merged(t, k) /\ cell[k] \in ListValue => Kept(t, k)

LEMMA PushedIsList ==
  ASSUME NEW t, NEW k, work[t][k] = Keep \/ work[t][k] \in [push : Seq(Element)]
  PROVE  Pushed(t, k) \in Seq(Element)
<1>1. CASE work[t][k] = Keep
  BY <1>1, EmptySeq DEF Pushed
<1>2. CASE work[t][k] # Keep
  BY <1>2 DEF Pushed
<1> QED BY <1>1, <1>2

LEMMA ListField ==
  ASSUME NEW v, NEW l, v = [list |-> l]
  PROVE  v.list = l
  OBVIOUS

(* A write-back: the list grows by what the thread pushed.                 *)
LEMMA MergeAppends ==
  ASSUME NEW t \in Thread, TypeInv, GrowInv, Merge(t), cell'[at[t]] \in ListValue
  PROVE  /\ cell[at[t]] \in ListValue
         /\ work[t][at[t]] = Keep \/ work[t][at[t]] \in [push : Seq(Element)]
         /\ cell'[at[t]].list = cell[at[t]].list \o Pushed(t, at[t])
<1> DEFINE k == at[t]
<1>1. /\ k \in Shared /\ Fits(work[t][k], cell[k]) /\ work[t][k] \in Growth
      /\ cell'[k] = Apply(work[t][k], cell[k]) /\ SameVariant(cell[k], cell'[k])
  BY MergeStep DEF TypeInv, TypeOK, GrowInv, Tracks, Merge
<1>2. cell[k] \in ListValue
  BY <1>1, VariantsDisjoint DEF SameVariant
<1>3. work[t][k] = Keep \/ work[t][k] \in [push : Seq(Element)]
  BY <1>1, <1>2, FittingGrowth
<1>4. cell'[k].list = cell[k].list \o Pushed(t, k)
  <2>1. cell[k].list \in Seq(Element)
    BY <1>2 DEF ListValue
  <2>2. CASE work[t][k] = Keep
    <3>1. Pushed(t, k) = <<>>
      BY <2>2 DEF Pushed
    <3>2. cell'[k] = cell[k]
      BY <1>1, <2>2, ApplyCases
    <3> QED BY <2>1, <3>1, <3>2, ConcatEmptySeq
  <2>3. CASE work[t][k] # Keep
    <3>1. work[t][k] \in [push : Seq(Element)]
      BY <1>3, <2>3
    <3>2. Apply(work[t][k], cell[k]) = [list |-> cell[k].list \o work[t][k].push]
      BY <1>2, <3>1, ApplyCases
    <3>3. Pushed(t, k) = work[t][k].push
      BY <2>3 DEF Pushed
    <3>4. cell'[k] = [list |-> cell[k].list \o work[t][k].push]
      BY <1>1, <3>2
    <3>5. cell'[k].list = cell[k].list \o work[t][k].push
      BY <3>4, ListField
    <3> QED BY <3>3, <3>5
  <2> QED BY <2>2, <2>3
<1> QED BY <1>2, <1>3, <1>4

LEMMA InitTogether == Init => TogetherInv
  BY DEF Init, TogetherInv, Merged

LEMMA MainTogether ==
  ASSUME TypeInv, JoinInv, GrowInv, TogetherInv, GrowInv', MainStep
  PROVE  TogetherInv'
<1> USE DEF TogetherInv, Merged, Kept, Pushed
<1>1. CASE RejectArguments
  BY <1>1 DEF RejectArguments, Return, thread, TypeInv, Counters, JoinInv
<1>2. CASE EmptyList
  BY <1>2 DEF EmptyList, Return, thread, TypeInv, Counters, JoinInv
<1>3. CASE RejectArity
  BY <1>3 DEF RejectArity, Return, thread, TypeInv, Counters, JoinInv
<1>4. CASE CreateCells
  <2>1. \A t \in Thread : pc'[t] = "unborn"
    BY <1>4 DEF CreateCells, thread, TypeInv, Counters
  <2>2. phase' # "evaluate" /\ items' > 0 /\ before' = cell'
    BY <1>4, SizesAssumption DEF CreateCells, Thread
  <2>3. \A k \in Shared : cell'[k] \in Mergeable
    BY <2>2 DEF GrowInv
  <2>4. \A k \in Shared : SameVariant(before'[k], cell'[k])
    BY <2>2, <2>3, MergeableSame
  <2> QED BY <2>1, <2>4
<1>5. CASE Spawn
  <2>1. index \in Thread /\ pc' = [pc EXCEPT ![index] = IF SharedCount = 0 THEN "body" ELSE "snapshot"]
    BY <1>5, SizesAssumption DEF Spawn, TypeInv, Counters, TypeOK, Thread
  <2>2. \A t \in Thread, k \in Shared : Merged(t, k)' => Merged(t, k)
    BY <1>5, <2>1 DEF Spawn, TypeInv, TypeOK
  <2> QED BY <1>5, <2>2 DEF Spawn
<1>6. CASE Join
  BY <1>6 DEF Join, Advance, thread
<1>7. CASE Publish
  BY <1>7 DEF Publish, thread
<1> QED BY <1>1, <1>2, <1>3, <1>4, <1>5, <1>6, <1>7 DEF MainStep

LEMMA NextAbove ==
  ASSUME NEW a \in Int, NEW b \in Int, a + 1 > b
  PROVE  a > b \/ b = a
  OBVIOUS

LEMMA ThreadTogether ==
  ASSUME NEW t \in Thread, TypeInv, JoinInv, GrowInv, TogetherInv, ThreadStep(t)
  PROVE  TogetherInv'
<1> USE DEF TypeInv, TypeOK
<1>1. CASE Merge(t)
  <2> DEFINE k == at[t]
  <2>1. /\ UNCHANGED <<phase, items, before, work>> /\ pc[t] = "merge"
        /\ at' = [at EXCEPT ![t] = @ + 1]
        /\ pc' = [pc EXCEPT ![t] = IF at[t] = SharedCount THEN "exited" ELSE "merge"]
    BY <1>1 DEF Merge, main
  <2>2. /\ k \in Shared /\ SameVariant(cell[k], cell'[k])
        /\ \A j \in Shared : j # k => cell'[j] = cell[j]
    BY <1>1, MergeStep DEF Merge
  <2>3. ASSUME phase # "evaluate", items > 0, NEW j \in Shared
        PROVE  SameVariant(before[j], cell'[j])
    BY <2>2, <2>3, SameVariantTransitive DEF TogetherInv
  <2>4. ASSUME NEW s \in Thread, NEW j \in Shared, Merged(s, j)', cell'[j] \in ListValue
        PROVE  Kept(s, j)'
    <3>1. Merged(s, j) \/ (s = t /\ j = k)
      <4>1. CASE s # t
        BY <2>1, <2>4, <4>1 DEF Merged
      <4>2. CASE s = t
        <5>1. at'[t] = at[t] + 1 /\ at'[t] > j /\ at[t] \in Int /\ j \in Int
          BY <2>1, <2>4, <4>2 DEF Merged, Shared
        <5>2. at[t] > j \/ j = at[t]
          BY <5>1, NextAbove
        <5> QED BY <2>1, <4>2, <5>2 DEF Merged
      <4> QED BY <4>1, <4>2
    <3>2. Pushed(s, j)' = Pushed(s, j)
      BY <2>1 DEF Pushed
    <3>3. CASE j # k
      BY <2>1, <2>2, <2>4, <3>1, <3>2, <3>3 DEF TogetherInv, Kept
    <3>4. CASE j = k
      <4>1. /\ cell[k] \in ListValue /\ cell'[k].list = cell[k].list \o Pushed(t, k)
            /\ work[t][k] = Keep \/ work[t][k] \in [push : Seq(Element)]
        BY <1>1, <2>4, <3>4, MergeAppends
      <4>2. cell[k].list \in Seq(Element) /\ Pushed(t, k) \in Seq(Element)
        BY <4>1, PushedIsList DEF ListValue
      <4>3. CASE s = t
        <5>1. Holds(cell'[k].list, Pushed(t, k))
          BY <4>1, <4>2, HoldsTail
        <5> QED BY <2>1, <3>2, <3>4, <4>1, <4>3, <5>1 DEF Kept
      <4>4. CASE s # t
        <5>1. Kept(s, k)
          BY <3>1, <3>4, <4>1, <4>4, <2>2 DEF TogetherInv
        <5>2. Pushed(s, k) \in Seq(Element) /\ Holds(cell[k].list, Pushed(s, k))
          BY <5>1, PushedIsList DEF Kept
        <5>3. Holds(cell'[k].list, Pushed(s, k))
          BY <4>1, <4>2, <5>2, HoldsStill
        <5> QED BY <2>1, <3>2, <3>4, <5>1, <5>3 DEF Kept
      <4> QED BY <4>3, <4>4
    <3> QED BY <3>3, <3>4
  <2> QED BY <2>1, <2>3, <2>4 DEF TogetherInv
<1>2. CASE ~Merge(t)
  <2>1. /\ UNCHANGED <<phase, items, before, cell>>
        /\ \A s \in Thread : s # t => pc'[s] = pc[s] /\ at'[s] = at[s] /\ work'[s] = work[s]
    BY <1>2 DEF ThreadStep, Snapshot, Body, NativeArityError, Panic, MergePanic, ToMerge, main
  <2>2. \A k \in Shared : ~Merged(t, k)'
    <3>1. CASE Snapshot(t)
      BY <3>1 DEF Snapshot, Merged
    <3>2. CASE pc[t] = "body" /\ at' = at
      BY <3>2 DEF Counters, Merged, Shared
    <3>3. ~MergePanic(t) /\ (Body(t) \/ NativeArityError(t) \/ Panic(t) => pc[t] = "body" /\ at' = at)
      BY SizesAssumption DEF MergePanic, GrowInv, Counters, Shared, Body, NativeArityError, Panic, ToMerge
    <3> QED BY <1>2, <3>1, <3>2, <3>3 DEF ThreadStep
  <2>3. ASSUME NEW s \in Thread, NEW k \in Shared, Merged(s, k)', cell'[k] \in ListValue
        PROVE  Kept(s, k)'
    <3>1. s # t /\ Merged(s, k)
      BY <2>1, <2>2, <2>3 DEF Merged
    <3> QED BY <2>1, <2>3, <3>1 DEF TogetherInv, Kept, Pushed
  <2> QED BY <2>1, <2>3 DEF TogetherInv
<1> QED BY <1>1, <1>2

(* What one growing body pushed stays together and in order, for any       *)
(* number of items and any schedule (merge_shared_writeback under one      *)
(* lock).                                                                  *)
THEOREM PushesNotInterleaved == ASSUME Growing PROVE Spec => []PushesStayTogether
<1>1. /\ TypeInv /\ JoinInv /\ GrowInv /\ TogetherInv /\ [Next]_vars => TogetherInv'
  <2>1. TogetherInv /\ UNCHANGED vars => TogetherInv'
    BY DEF TogetherInv, Kept, Merged, Pushed, vars
  <2> QED BY <2>1, MainTogether, MainGrow, ThreadTogether DEF Next, Returned
<1>2. TypeInv /\ JoinInv /\ TogetherInv => PushesStayTogether
  <2> SUFFICES ASSUME TypeInv, JoinInv, TogetherInv, NEW k \in Shared, NEW t \in Thread,
                      Merged(t, k), before[k] \in ListValue
               PROVE  Holds(cell[k].list, Pushed(t, k))
    BY DEF PushesStayTogether, Holds
  <2>1. phase # "evaluate" /\ items > 0
    <3>1. t \in 1 .. MaxItems /\ pc[t] # "unborn"
      BY DEF Merged, Thread
    <3> QED BY <3>1 DEF TypeInv, TypeOK, Counters, JoinInv, AllExited, Phase, Thread
  <2>2. cell[k] \in ListValue
    BY <2>1, VariantsDisjoint DEF TogetherInv, SameVariant
  <2> QED BY <2>2 DEF TogetherInv, Kept
<1> QED BY <1>1, <1>2, InitTogether, TypeInvariant, JoinInvariant, GrowInvariant, PTL DEF Spec
-----------------------------------------------------------------------------
(* No update is lost, whatever else the bodies of the statement may do.    *)
(* Until a thread writes k back, its final value is its update applied to  *)
(* its snapshot; and as long as every write-back of k only grew it, the    *)
(* cell and the snapshots taken from it keep the variant it began with.    *)
Pending(t, k) == pc[t] = "merge" /\ at[t] <= k
Snapped(t, k) == (pc[t] = "snapshot" /\ at[t] > k) \/ pc[t] = "body" \/ Pending(t, k)

WorkInv ==
  proc.params <= SharedCount + 1 =>
    \A t \in Thread, k \in Shared : Pending(t, k) =>
      Fits(work[t][k], snap[t][k]) /\ fin[t][k] = Apply(work[t][k], snap[t][k])

CountInv ==
  \A k \in Shared : proc.params <= SharedCount + 1 /\ OnlyGrown(k) =>
    /\ Counted(k)
    /\ before[k] \in Mergeable =>
         /\ SameVariant(before[k], cell[k])
         /\ \A t \in Thread : Snapped(t, k) => SameVariant(before[k], snap[t][k])

LEMMA CountedFrame ==
  ASSUME NEW k \in Shared, cell'[k] = cell[k], before'[k] = before[k], Mergers(k)' = Mergers(k),
         \A t \in Mergers(k) : work'[t][k] = work[t][k]
  PROVE  (OnlyGrown(k)' <=> OnlyGrown(k)) /\ (Counted(k)' <=> Counted(k))
<1>1. OnlyGrown(k)' <=> OnlyGrown(k)
  BY DEF OnlyGrown
<1>2. SumAdded(k)' = SumAdded(k)
  <2>1. \A t \in Mergers(k) : Added(t, k)' = Added(t, k)
    BY DEF Added
  <2> QED BY <2>1 DEF SumAdded
<1>3. ASSUME NEW e PROVE SumPushed(e, k)' = SumPushed(e, k)
  <2>1. \A t \in Mergers(k) : Pushed(t, k)' = Pushed(t, k)
    BY DEF Pushed
  <2> QED BY <2>1 DEF SumPushed
<1>4. ASSUME NEW e PROVE SumConcatenated(e, k)' = SumConcatenated(e, k)
  <2>1. \A t \in Mergers(k) : Concatenated(t, k)' = Concatenated(t, k)
    BY DEF Concatenated
  <2> QED BY <2>1 DEF SumConcatenated
<1>5. Counted(k)' <=> Counted(k)
  BY <1>2, <1>3, <1>4 DEF Counted
<1> QED BY <1>1, <1>5

LEMMA NothingMerged ==
  ASSUME NEW k \in Shared, Mergers(k)' = {}, cell'[k] = before'[k]
  PROVE  Counted(k)'
<1>1. \A f : DOMAIN f = {} => SumFunction(f) = 0
  BY SumOfNone
<1>2. CASE before'[k] \in NumberValue
  <2>1. SumAdded(k)' = 0
    BY <1>1 DEF SumAdded
  <2>2. cell'[k] = [num |-> before'[k].num + 0]
    BY <1>2 DEF NumberValue
  <2> QED BY <1>2, <2>1, <2>2, VariantsDisjoint DEF Counted
<1>3. \A S : \A s \in Seq(S) : IsPrefix(s, s) /\ \A e : Occurrences(e, s) \in Nat
  <2> SUFFICES ASSUME NEW S, NEW s \in Seq(S), NEW e PROVE IsPrefix(s, s) /\ Occurrences(e, s) \in Nat
    OBVIOUS
  <2>1. IsPrefix(s, s)
    BY LenProperties DEF IsPrefix
  <2>2. Occurrences(e, s) = Cardinality(PositionsOf(e, s))
    BY DEF Occurrences, PositionsOf
  <2> QED BY <2>1, <2>2, PositionsFinite
<1>4. CASE before'[k] \in ListValue
  <2>1. before'[k].list \in Seq(Element)
    BY <1>4 DEF ListValue
  <2>2. \A e : SumPushed(e, k)' = 0
    BY <1>1 DEF SumPushed
  <2>3. \A e : Occurrences(e, before'[k].list) = Occurrences(e, before'[k].list) + 0
    BY <1>3, <2>1
  <2> QED BY <1>3, <1>4, <2>1, <2>2, <2>3, VariantsDisjoint DEF Counted
<1>5. CASE before'[k] \in StringValue
  <2>1. before'[k].str \in Seq(Piece)
    BY <1>5 DEF StringValue
  <2>2. \A e : SumConcatenated(e, k)' = 0
    BY <1>1 DEF SumConcatenated
  <2>3. \A e : Occurrences(e, before'[k].str) = Occurrences(e, before'[k].str) + 0
    BY <1>3, <2>1
  <2> QED BY <1>3, <1>5, <2>1, <2>2, <2>3, VariantsDisjoint DEF Counted
<1>6. CASE before'[k] \notin Mergeable
  BY <1>6 DEF Counted, Mergeable
<1> QED BY <1>2, <1>4, <1>5, <1>6 DEF Mergeable

LEMMA StrField ==
  ASSUME NEW v, NEW s, v = [str |-> s]
  PROVE  v.str = s
  OBVIOUS

(* What a write-back that accumulates adds to the sum.                     *)
LEMMA SumsGrow ==
  ASSUME NEW t \in Thread, NEW k \in Shared, before'[k] = before[k], work' = work,
         Mergers(k)' = Mergers(k) \cup {t}, t \notin Mergers(k), OnlyGrown(k)'
  PROVE  /\ before[k] \in NumberValue =>
              /\ work[t][k] = Keep \/ work[t][k] \in [add : Int]
              /\ SumAdded(k)' = SumAdded(k) + Added(t, k) /\ SumAdded(k) \in Int
         /\ before[k] \in ListValue =>
              /\ work[t][k] = Keep \/ work[t][k] \in [push : Seq(Element)]
              /\ \A e : /\ SumPushed(e, k)' = SumPushed(e, k) + Occurrences(e, Pushed(t, k))
                       /\ SumPushed(e, k) \in Int
         /\ before[k] \in StringValue =>
              /\ work[t][k] = Keep \/ work[t][k] \in [concat : Seq(Piece)]
              /\ \A e : /\ SumConcatenated(e, k)'
                            = SumConcatenated(e, k) + Occurrences(e, Concatenated(t, k))
                       /\ SumConcatenated(e, k) \in Int
<1> DEFINE M == Mergers(k)
           N == M \cup {t}
<1>1. IsFiniteSet(M)
  <2>1. IsFiniteSet(Thread) /\ M \in SUBSET Thread
    BY FS_Interval, SizesAssumption DEF Thread, Mergers
  <2> QED BY <2>1, FS_Subset
<1>2. \A s \in N : work[s][k] \in Growth /\ Fits(work[s][k], before[k])
  BY DEF OnlyGrown, Accumulates
<1>3. CASE before[k] \in NumberValue
  <2>1. \A s \in N : work[s][k] = Keep \/ work[s][k] \in [add : Int]
    BY <1>2, <1>3, FittingGrowth
  <2>2. \A s \in N : Added(s, k) \in Int
    BY <2>1 DEF Added
  <2>3. /\ SumAdded(k) = SumFunction([s \in M |-> Added(s, k)])
        /\ SumAdded(k)' = SumFunction([s \in N |-> Added(s, k)])
    BY DEF SumAdded, Added
  <2>4. SumAdded(k)' = SumAdded(k) + Added(t, k) /\ SumAdded(k) \in Int
    <3>1. ASSUME NEW f, NEW g,
                 f = [s \in M |-> Added(s, k)], g = [s \in N |-> Added(s, k)]
          PROVE  SumFunction(g) = SumFunction(f) + Added(t, k) /\ SumFunction(f) \in Int
      <4>1. IsFiniteSet(DOMAIN f) /\ t \notin DOMAIN f /\ DOMAIN g = DOMAIN f \cup {t}
        BY <1>1, <3>1
      <4>2. (\A s \in DOMAIN f : f[s] = g[s]) /\ (\A s \in DOMAIN g : g[s] \in Int)
        BY <2>2, <3>1
      <4>3. SumFunction(g) = SumFunction(f) + g[t] /\ SumFunction(f) \in Int
        BY <4>1, <4>2, SumGrows
      <4> QED BY <3>1, <4>3
    <3> QED BY <2>3, <3>1
  <2> QED BY <1>3, <2>1, <2>4, VariantsDisjoint
<1>4. \A S : \A s \in Seq(S) : \A e : Occurrences(e, s) \in Int
  <2> SUFFICES ASSUME NEW S, NEW s \in Seq(S), NEW e PROVE Occurrences(e, s) \in Int
    OBVIOUS
  <2>1. Occurrences(e, s) = Cardinality(PositionsOf(e, s))
    BY DEF Occurrences, PositionsOf
  <2> QED BY <2>1, PositionsFinite
<1>5. CASE before[k] \in ListValue
  <2>1. \A s \in N : work[s][k] = Keep \/ work[s][k] \in [push : Seq(Element)]
    BY <1>2, <1>5, FittingGrowth
  <2>2. \A s \in N : Pushed(s, k) \in Seq(Element)
    BY <2>1, PushedIsList
  <2>3. ASSUME NEW e
        PROVE  /\ SumPushed(e, k)' = SumPushed(e, k) + Occurrences(e, Pushed(t, k))
               /\ SumPushed(e, k) \in Int
    <3> DEFINE f == [s \in M |-> Occurrences(e, Pushed(s, k))]
               g == [s \in N |-> Occurrences(e, Pushed(s, k))]
    <3>1. /\ IsFiniteSet(DOMAIN f) /\ t \notin DOMAIN f /\ DOMAIN g = DOMAIN f \cup {t}
          /\ g[t] = Occurrences(e, Pushed(t, k))
      BY <1>1
    <3>2. (\A s \in DOMAIN f : f[s] = g[s]) /\ (\A s \in DOMAIN g : g[s] \in Int)
      BY <1>4, <2>2
    <3>3. SumPushed(e, k) = SumFunction(f) /\ SumPushed(e, k)' = SumFunction(g)
      BY DEF SumPushed, Pushed
    <3> HIDE DEF f, g
    <3>4. SumFunction(g) = SumFunction(f) + g[t] /\ SumFunction(f) \in Int
      BY <3>1, <3>2, SumGrows
    <3> QED BY <3>1, <3>3, <3>4
  <2> QED BY <1>5, <2>1, <2>3, VariantsDisjoint
<1>6. CASE before[k] \in StringValue
  <2>1. \A s \in N : work[s][k] = Keep \/ work[s][k] \in [concat : Seq(Piece)]
    BY <1>2, <1>6, FittingGrowth
  <2>2. \A s \in N : Concatenated(s, k) \in Seq(Piece)
    BY <2>1, EmptySeq DEF Concatenated
  <2>3. ASSUME NEW e
        PROVE  /\ SumConcatenated(e, k)' = SumConcatenated(e, k) + Occurrences(e, Concatenated(t, k))
               /\ SumConcatenated(e, k) \in Int
    <3> DEFINE f == [s \in M |-> Occurrences(e, Concatenated(s, k))]
               g == [s \in N |-> Occurrences(e, Concatenated(s, k))]
    <3>1. /\ IsFiniteSet(DOMAIN f) /\ t \notin DOMAIN f /\ DOMAIN g = DOMAIN f \cup {t}
          /\ g[t] = Occurrences(e, Concatenated(t, k))
      BY <1>1
    <3>2. (\A s \in DOMAIN f : f[s] = g[s]) /\ (\A s \in DOMAIN g : g[s] \in Int)
      BY <1>4, <2>2
    <3>3. SumConcatenated(e, k) = SumFunction(f) /\ SumConcatenated(e, k)' = SumFunction(g)
      BY DEF SumConcatenated, Concatenated
    <3> HIDE DEF f, g
    <3>4. SumFunction(g) = SumFunction(f) + g[t] /\ SumFunction(f) \in Int
      BY <3>1, <3>2, SumGrows
    <3> QED BY <3>1, <3>3, <3>4
  <2> QED BY <1>6, <2>1, <2>3, VariantsDisjoint
<1>7. CASE before[k] \notin Mergeable
  BY <1>7 DEF Mergeable
<1> QED BY <1>3, <1>5, <1>6, <1>7 DEF Mergeable

LEMMA OccurrencesConcat ==
  ASSUME NEW S, NEW s \in Seq(S), NEW t \in Seq(S), NEW e
  PROVE  /\ Occurrences(e, s \o t) = Occurrences(e, s) + Occurrences(e, t)
         /\ Occurrences(e, s) \in Nat /\ Occurrences(e, t) \in Nat
<1>1. \A u : Occurrences(e, u) = Cardinality(PositionsOf(e, u))
  BY DEF Occurrences, PositionsOf
<1> QED BY <1>1, PositionsConcat, PositionsFinite

LEMMA MergeCounts ==
  ASSUME NEW t \in Thread, NEW k \in Shared, before'[k] = before[k], work' = work,
         Mergers(k)' = Mergers(k) \cup {t}, t \notin Mergers(k), OnlyGrown(k)',
         SameVariant(before[k], cell[k]), Counted(k), cell'[k] = Apply(work[t][k], cell[k])
  PROVE  Counted(k)'
<1>1. CASE before[k] \in NumberValue
  <2>1. /\ work[t][k] = Keep \/ work[t][k] \in [add : Int]
        /\ SumAdded(k)' = SumAdded(k) + Added(t, k) /\ SumAdded(k) \in Int
    BY <1>1, SumsGrow
  <2>2. cell[k] = [num |-> before[k].num + SumAdded(k)] /\ before[k].num \in Int
    BY <1>1 DEF Counted, NumberValue
  <2>3. cell'[k] = [num |-> (before[k].num + SumAdded(k)) + Added(t, k)] /\ Added(t, k) \in Int
    <3>1. CASE work[t][k] = Keep
      <4>1. Added(t, k) = 0 /\ cell'[k] = cell[k]
        BY <3>1, ApplyCases DEF Added
      <4> QED BY <2>1, <2>2, <4>1
    <3>2. CASE work[t][k] # Keep
      <4>1. work[t][k] \in [add : Int] /\ Added(t, k) = work[t][k].add
        BY <2>1, <3>2 DEF Added
      <4>2. cell'[k] = [num |-> cell[k].num + work[t][k].add]
        BY <4>1, ApplyCases
      <4> QED BY <2>2, <4>1, <4>2
    <3> QED BY <3>1, <3>2
  <2>4. (before[k].num + SumAdded(k)) + Added(t, k) = before[k].num + (SumAdded(k) + Added(t, k))
    BY <2>1, <2>2, <2>3
  <2>5. cell'[k] = [num |-> before'[k].num + SumAdded(k)']
    BY <2>1, <2>3, <2>4
  <2> QED BY <1>1, <2>5, VariantsDisjoint DEF Counted
<1>2. CASE before[k] \in ListValue
  <2>1. /\ work[t][k] = Keep \/ work[t][k] \in [push : Seq(Element)]
        /\ \A e : /\ SumPushed(e, k)' = SumPushed(e, k) + Occurrences(e, Pushed(t, k))
                 /\ SumPushed(e, k) \in Int
    BY <1>2, SumsGrow
  <2>2. before[k].list \in Seq(Element) /\ cell[k] \in ListValue /\ cell[k].list \in Seq(Element)
    BY <1>2, VariantsDisjoint DEF SameVariant, ListValue
  <2>3. Pushed(t, k) \in Seq(Element)
    BY <2>1, PushedIsList
  <2>4. cell'[k].list = cell[k].list \o Pushed(t, k)
    <3>1. CASE work[t][k] = Keep
      <4>1. Pushed(t, k) = <<>> /\ cell'[k] = cell[k]
        BY <3>1, ApplyCases DEF Pushed
      <4> QED BY <2>2, <4>1, ConcatEmptySeq
    <3>2. CASE work[t][k] # Keep
      <4>1. work[t][k] \in [push : Seq(Element)] /\ Pushed(t, k) = work[t][k].push
        BY <2>1, <3>2 DEF Pushed
      <4>2. cell'[k] = [list |-> cell[k].list \o work[t][k].push]
        BY <4>1, ApplyCases
      <4> DEFINE l == cell[k].list \o work[t][k].push
      <4> HIDE DEF l
      <4>3. cell'[k] = [list |-> l]
        BY <4>2 DEF l
      <4>4. cell'[k].list = l
        BY <4>3, ListField
      <4> QED BY <4>1, <4>4 DEF l
    <3> QED BY <3>1, <3>2
  <2>5. IsPrefix(before[k].list, cell'[k].list)
    BY <1>2, <2>2, <2>3, <2>4, PrefixGrows DEF Counted
  <2>6. ASSUME NEW e \in Element
        PROVE  Occurrences(e, cell'[k].list) = Occurrences(e, before[k].list) + SumPushed(e, k)'
    <3>1. /\ Occurrences(e, cell'[k].list) = Occurrences(e, cell[k].list) + Occurrences(e, Pushed(t, k))
          /\ Occurrences(e, Pushed(t, k)) \in Nat
      BY <2>2, <2>3, <2>4, OccurrencesConcat
    <3>2. Occurrences(e, cell[k].list) = Occurrences(e, before[k].list) + SumPushed(e, k)
      BY <1>2 DEF Counted
    <3>3. Occurrences(e, before[k].list) \in Nat
      BY <2>2, OccurrencesConcat
    <3> QED BY <2>1, <3>1, <3>2, <3>3
  <2> QED BY <1>2, <2>5, <2>6, VariantsDisjoint DEF Counted, Occurrences
<1>3. CASE before[k] \in StringValue
  <2>1. /\ work[t][k] = Keep \/ work[t][k] \in [concat : Seq(Piece)]
        /\ \A e : /\ SumConcatenated(e, k)' = SumConcatenated(e, k) + Occurrences(e, Concatenated(t, k))
                 /\ SumConcatenated(e, k) \in Int
    BY <1>3, SumsGrow
  <2>2. before[k].str \in Seq(Piece) /\ cell[k] \in StringValue /\ cell[k].str \in Seq(Piece)
    BY <1>3, VariantsDisjoint DEF SameVariant, StringValue
  <2>3. Concatenated(t, k) \in Seq(Piece)
    BY <2>1, EmptySeq DEF Concatenated
  <2>4. cell'[k].str = cell[k].str \o Concatenated(t, k)
    <3>1. CASE work[t][k] = Keep
      <4>1. Concatenated(t, k) = <<>> /\ cell'[k] = cell[k]
        BY <3>1, ApplyCases DEF Concatenated
      <4> QED BY <2>2, <4>1, ConcatEmptySeq
    <3>2. CASE work[t][k] # Keep
      <4>1. work[t][k] \in [concat : Seq(Piece)] /\ Concatenated(t, k) = work[t][k].concat
        BY <2>1, <3>2 DEF Concatenated
      <4>2. cell'[k] = [str |-> cell[k].str \o work[t][k].concat]
        BY <4>1, ApplyCases
      <4> DEFINE l == cell[k].str \o work[t][k].concat
      <4> HIDE DEF l
      <4>3. cell'[k] = [str |-> l]
        BY <4>2 DEF l
      <4>4. cell'[k].str = l
        BY <4>3, StrField
      <4> QED BY <4>1, <4>4 DEF l
    <3> QED BY <3>1, <3>2
  <2>5. IsPrefix(before[k].str, cell'[k].str)
    BY <1>3, <2>2, <2>3, <2>4, PrefixGrows DEF Counted
  <2>6. ASSUME NEW e \in Piece
        PROVE  Occurrences(e, cell'[k].str) = Occurrences(e, before[k].str) + SumConcatenated(e, k)'
    <3>1. /\ Occurrences(e, cell'[k].str) = Occurrences(e, cell[k].str) + Occurrences(e, Concatenated(t, k))
          /\ Occurrences(e, Concatenated(t, k)) \in Nat
      BY <2>2, <2>3, <2>4, OccurrencesConcat
    <3>2. Occurrences(e, cell[k].str) = Occurrences(e, before[k].str) + SumConcatenated(e, k)
      BY <1>3 DEF Counted
    <3>3. Occurrences(e, before[k].str) \in Nat
      BY <2>2, OccurrencesConcat
    <3> QED BY <2>1, <3>1, <3>2, <3>3
  <2> QED BY <1>3, <2>5, <2>6, VariantsDisjoint DEF Counted, Occurrences
<1> QED BY <1>1, <1>2, <1>3 DEF SameVariant

-----------------------------------------------------------------------------
LEMMA InitCount == Init => WorkInv /\ CountInv
<1> SUFFICES ASSUME Init PROVE WorkInv /\ CountInv
  OBVIOUS
<1>1. \A k \in Shared : before[k] \notin Mergeable
  BY VariantsDisjoint, NullAssumption DEF Init, Mergeable, NullValue, OtherValue
<1>2. CountInv
  BY <1>1 DEF CountInv, Counted, Mergeable
<1>3. WorkInv
  BY DEF Init, WorkInv, Pending
<1> QED BY <1>2, <1>3

LEMMA MainCount ==
  ASSUME TypeInv, JoinInv, WorkInv, CountInv, MainStep
  PROVE  WorkInv' /\ CountInv'
<1>1. /\ UNCHANGED <<proc, at, snap, fin, work>>
      /\ \A t \in Thread :
           pc'[t] = pc[t] \/ (pc[t] = "unborn" /\ pc'[t] = IF SharedCount = 0 THEN "body" ELSE "snapshot")
  <2>1. CASE Spawn
    <3>1. index \in Thread /\ pc[index] = "unborn"
      BY <2>1, SizesAssumption DEF Spawn, Thread, TypeInv, TypeOK, Counters, JoinInv
    <3> QED BY <2>1, <3>1 DEF Spawn, TypeInv, TypeOK
  <2>2. CASE ~Spawn
    BY <2>2 DEF MainStep, RejectArguments, EmptyList, RejectArity, CreateCells, Join, Advance, Publish,
                thread
  <2> QED BY <2>1, <2>2
<1>2. \A t \in Thread, x \in {"merge", "exited"} : pc'[t] = x <=> pc[t] = x
  BY <1>1
<1>3. ASSUME NEW k \in Shared PROVE Mergers(k)' = Mergers(k)
  BY <1>1, <1>2 DEF Mergers, Merged
<1>4. WorkInv'
  BY <1>1, <1>2 DEF WorkInv, Pending
<1>5. CountInv'
  <2>1. CASE CreateCells
    <3>1. \A t \in Thread : pc[t] = "unborn"
      BY <2>1 DEF CreateCells, TypeInv, Counters
    <3>2. \A t \in Thread : pc'[t] = "unborn"
      BY <2>1, <3>1 DEF CreateCells, thread
    <3>3. ASSUME NEW k \in Shared
          PROVE  /\ Counted(k)'
                 /\ \A t \in Thread : ~Snapped(t, k)'
                 /\ before'[k] \in Mergeable => SameVariant(before'[k], cell'[k])
      <4>1. Mergers(k)' = {} /\ cell'[k] = before'[k]
        BY <2>1, <3>2 DEF CreateCells, Mergers, Merged
      <4>2. \A t \in Thread : ~Snapped(t, k)'
        BY <3>2 DEF Snapped, Pending
      <4> QED BY <4>1, <4>2, NothingMerged, MergeableSame
    <3> QED BY <3>3 DEF CountInv
  <2>2. CASE ~CreateCells
    <3>1. cell' = cell /\ before' = before
      BY <2>2 DEF MainStep, RejectArguments, EmptyList, RejectArity, Spawn, Join, Advance, Publish
    <3>2. ASSUME NEW k \in Shared
          PROVE  (OnlyGrown(k)' <=> OnlyGrown(k)) /\ (Counted(k)' <=> Counted(k))
      BY <1>1, <1>3, <3>1, CountedFrame
    <3>3. ASSUME NEW k \in Shared, NEW t \in Thread, Snapped(t, k)' PROVE Snapped(t, k)
      <4>1. SharedCount # 0
        BY SizesAssumption DEF Shared
      <4>2. pc[t] = "unborn" => at[t] = 1 /\ ~(1 > k)
        BY SizesAssumption DEF TypeInv, Counters, Shared
      <4>3. pc'[t] = pc[t]
        BY <1>1, <3>3, <4>1, <4>2 DEF Snapped, Pending
      <4> QED BY <1>1, <3>3, <4>3 DEF Snapped, Pending
    <3> QED BY <1>1, <3>1, <3>2, <3>3 DEF CountInv
  <2> QED BY <2>1, <2>2
<1> QED BY <1>4, <1>5


(* A write-back of variable k, when all write-backs so far and this one    *)
(* only grow it.                                                           *)
LEMMA MergeKeepsCount ==
  ASSUME NEW t \in Thread, NEW k \in Shared, k = at[t], TypeInv, WorkInv, CountInv, Merge(t),
         proc.params <= SharedCount + 1, OnlyGrown(k)'
  PROVE  Counted(k)' /\ SameVariant(cell[k], cell'[k])
<1>1. /\ k \in Shared /\ pc[t] = "merge" /\ before' = before /\ work' = work
      /\ at' = [at EXCEPT ![t] = @ + 1]
      /\ pc' = [pc EXCEPT ![t] = IF at[t] = SharedCount THEN "exited" ELSE "merge"]
      /\ cell' = [cell EXCEPT ![k] = MergeSharedWriteback(snap[t][k], fin[t][k], cell[k])]
      /\ cell \in [Shared -> Value] /\ at \in [Thread -> 1 .. SharedCount + 1]
      /\ pc \in [Thread -> PC]
  BY DEF Merge, main, TypeInv, TypeOK, Counters
<1>2. t \notin Mergers(k) /\ Mergers(k)' = Mergers(k) \cup {t}
  <2>1. ~Merged(t, k)
    BY <1>1, SizesAssumption DEF Merged, Shared
  <2>2. Merged(t, k)'
    BY <1>1, SizesAssumption DEF Merged, Shared
  <2>3. \A s \in Thread : s # t => (Merged(s, k)' <=> Merged(s, k))
    BY <1>1 DEF Merged
  <2> QED BY <2>1, <2>2, <2>3 DEF Mergers
<1>3. OnlyGrown(k) /\ Accumulates(work[t][k], before[k])
  <2>1. \A s \in Mergers(k) \cup {t} : Accumulates(work[s][k], before[k])
    <3>1. \A s \in Mergers(k)' : Accumulates(work'[s][k], before'[k])
      BY DEF OnlyGrown
    <3> QED BY <1>1, <1>2, <3>1
  <2> QED BY <2>1 DEF OnlyGrown
<1>4. /\ work[t][k] \in Growth /\ before[k] \in Mergeable
      /\ Counted(k) /\ SameVariant(before[k], cell[k]) /\ SameVariant(before[k], snap[t][k])
  <2>1. Snapped(t, k)
    BY <1>1, SizesAssumption DEF Snapped, Pending, Shared
  <2> QED BY <1>1, <1>3, <2>1 DEF CountInv, Accumulates, Mergeable
<1>5. Fits(work[t][k], snap[t][k]) /\ fin[t][k] = Apply(work[t][k], snap[t][k])
  <2>1. Pending(t, k)
    BY <1>1, SizesAssumption DEF Pending, Shared
  <2> QED BY <1>1, <2>1 DEF WorkInv
<1>6. SameVariant(snap[t][k], cell[k]) /\ SameVariant(cell[k], snap[t][k])
  BY <1>4, VariantsDisjoint DEF SameVariant
<1>7. /\ cell'[k] = Apply(work[t][k], cell[k])
      /\ SameVariant(cell[k], cell'[k])
  <2>1. /\ MergeSharedWriteback(snap[t][k], Apply(work[t][k], snap[t][k]), cell[k])
             = Apply(work[t][k], cell[k])
        /\ SameVariant(snap[t][k], Apply(work[t][k], cell[k]))
    BY <1>4, <1>5, <1>6, MergeAppliesUpdate
  <2>2. cell'[k] = Apply(work[t][k], cell[k])
    BY <1>1, <1>5, <2>1
  <2> QED BY <1>6, <2>1, <2>2, SameVariantTransitive
<1>8. Counted(k)'
  <2>1. before'[k] = before[k]
    BY <1>1
  <2> QED BY <1>1, <1>2, <1>4, <1>7, <2>1, MergeCounts
<1> QED BY <1>7, <1>8

LEMMA ThreadCount ==
  ASSUME NEW t \in Thread, TypeInv, WorkInv, CountInv, ThreadStep(t)
  PROVE  WorkInv' /\ CountInv'
<1> USE DEF TypeInv, TypeOK
<1>1. UNCHANGED <<proc, before>> /\ (cell' = cell \/ Merge(t))
  BY DEF ThreadStep, Snapshot, Body, NativeArityError, Panic, Merge, MergePanic, ToMerge, main
<1>2. \A s \in Thread : s # t => /\ pc'[s] = pc[s] /\ at'[s] = at[s] /\ snap'[s] = snap[s]
                                 /\ fin'[s] = fin[s] /\ work'[s] = work[s]
  <2>1. CASE Snapshot(t)
    BY <2>1 DEF Snapshot
  <2>2. CASE Body(t)
    BY <2>2 DEF Body, ToMerge
  <2>3. CASE NativeArityError(t)
    BY <2>3 DEF NativeArityError, ToMerge
  <2>4. CASE Panic(t) \/ Merge(t) \/ MergePanic(t)
    BY <2>4 DEF Panic, Merge, MergePanic
  <2> QED BY <2>1, <2>2, <2>3, <2>4 DEF ThreadStep
<1>3. ASSUME NEW k \in Shared, Pending(t, k)', proc.params <= SharedCount + 1
      PROVE  Fits(work'[t][k], snap'[t][k]) /\ fin'[t][k] = Apply(work'[t][k], snap'[t][k])
  <2>1. CASE Body(t)
    <3>1. PICK choice \in BodyChoices(t) :
          /\ work' = [work EXCEPT ![t] = [j \in Shared |->
                        IF Fits(choice[j], snap[t][j]) THEN choice[j] ELSE Keep]]
          /\ fin' = [fin EXCEPT ![t] = [j \in Shared |->
                       Apply(IF Fits(choice[j], snap[t][j]) THEN choice[j] ELSE Keep, snap[t][j])]]
      BY <2>1 DEF Body
    <3>2. Fits(Keep, snap[t][k]) /\ snap' = snap
      BY <2>1 DEF Fits, Keep, Body, ToMerge
    <3> QED BY <3>1, <3>2
  <2>2. CASE Merge(t)
    <3>1. /\ UNCHANGED <<work, snap, fin>> /\ pc[t] = "merge" /\ at'[t] = at[t] + 1
          /\ at[t] \in Int
      BY <2>2 DEF Merge
    <3>2. Pending(t, k)
      BY <1>3, <3>1 DEF Pending, Shared
    <3> QED BY <1>1, <1>3, <3>1, <3>2 DEF WorkInv
  <2>3. ~Snapshot(t) /\ ~Panic(t) /\ ~MergePanic(t)
    <3>1. pc'[t] = "merge"
      BY <1>3 DEF Pending
    <3> QED BY <3>1 DEF Snapshot, Panic, MergePanic
  <2>4. ~NativeArityError(t)
    <3>1. proc.params \in Int /\ SharedCount + 1 \in Int
      BY SizesAssumption, ProcedureAssumption
    <3> QED BY <1>3, <3>1 DEF NativeArityError
  <2> QED BY <2>1, <2>2, <2>3, <2>4 DEF ThreadStep
<1>4. WorkInv'
  <2> SUFFICES ASSUME proc.params <= SharedCount + 1, NEW s \in Thread, NEW k \in Shared,
                      Pending(s, k)'
               PROVE  Fits(work'[s][k], snap'[s][k]) /\ fin'[s][k] = Apply(work'[s][k], snap'[s][k])
    BY <1>1 DEF WorkInv
  <2>1. CASE s = t
    BY <1>3, <2>1
  <2>2. CASE s # t
    <3>1. Pending(s, k)
      BY <1>2, <2>2 DEF Pending
    <3> QED BY <1>2, <2>2, <3>1 DEF WorkInv
  <2> QED BY <2>1, <2>2
<1>5. ASSUME NEW k \in Shared, ~(Merge(t) /\ k = at[t])
      PROVE  /\ cell'[k] = cell[k]
             /\ (OnlyGrown(k)' <=> OnlyGrown(k)) /\ (Counted(k)' <=> Counted(k))
  <2>1. cell'[k] = cell[k]
    BY <1>1, <1>5 DEF Merge
  <2>2. /\ Merged(t, k)' <=> Merged(t, k)
        /\ Merged(t, k) => work'[t][k] = work[t][k]
    <3>1. CASE Merge(t)
      <4>1. /\ work' = work /\ pc[t] = "merge" /\ at'[t] = at[t] + 1 /\ at[t] \in Int
            /\ pc'[t] \in {"merge", "exited"}
        BY <3>1 DEF Merge
      <4>2. at'[t] > k <=> at[t] > k
        BY <1>5, <3>1, <4>1, NextAbove DEF Shared
      <4> QED BY <4>1, <4>2 DEF Merged
    <3>2. CASE Snapshot(t)
      BY <3>2 DEF Snapshot, Merged
    <3>3. CASE pc[t] = "body" /\ at' = at
      BY <3>3 DEF Counters, Merged, Shared
    <3>4. CASE MergePanic(t)
      BY <3>4 DEF MergePanic, Merged
    <3>5. Body(t) \/ NativeArityError(t) \/ Panic(t) => pc[t] = "body" /\ at' = at
      BY DEF Body, NativeArityError, Panic, ToMerge
    <3> QED BY <3>1, <3>2, <3>3, <3>4, <3>5 DEF ThreadStep
  <2>3. Mergers(k)' = Mergers(k)
    BY <1>2, <2>2 DEF Mergers, Merged
  <2>4. \A s \in Mergers(k) : work'[s][k] = work[s][k]
    BY <1>2, <2>2 DEF Mergers
  <2> QED BY <1>1, <2>1, <2>3, <2>4, CountedFrame
<1>6. ASSUME NEW k \in Shared, proc.params <= SharedCount + 1, OnlyGrown(k)'
      PROVE  /\ Counted(k)'
             /\ before[k] \in Mergeable => SameVariant(before[k], cell'[k])
             /\ OnlyGrown(k)
  <2>1. CASE Merge(t) /\ k = at[t]
    <3>1. Counted(k)' /\ SameVariant(cell[k], cell'[k])
      BY <1>6, <2>1, MergeKeepsCount
    <3>2. OnlyGrown(k)
      <4>1. \A s \in Mergers(k) : s \in Mergers(k)'
        <5>1. /\ at'[t] = at[t] + 1 /\ at[t] \in Int /\ pc'[t] \in {"merge", "exited"}
          BY <2>1 DEF Merge
        <5>2. at[t] > k => at'[t] > k
          BY <5>1 DEF Shared
        <5> QED BY <1>2, <5>1, <5>2 DEF Mergers, Merged
      <4>2. work' = work /\ before' = before
        BY <2>1 DEF Merge, main
      <4> QED BY <1>6, <4>1, <4>2 DEF OnlyGrown
    <3>3. before[k] \in Mergeable => SameVariant(before[k], cell[k])
      BY <1>6, <3>2 DEF CountInv
    <3> QED BY <3>1, <3>2, <3>3, SameVariantTransitive
  <2>2. CASE ~(Merge(t) /\ k = at[t])
    BY <1>5, <1>6, <2>2 DEF CountInv
  <2> QED BY <2>1, <2>2
<1>7. ASSUME NEW k \in Shared, proc.params <= SharedCount + 1, OnlyGrown(k)',
             before[k] \in Mergeable, NEW s \in Thread, Snapped(s, k)'
      PROVE  SameVariant(before[k], snap'[s][k])
  <2>1. SameVariant(before[k], cell[k]) /\ (Snapped(s, k) => SameVariant(before[k], snap[s][k]))
    BY <1>6, <1>7 DEF CountInv
  <2>2. CASE s # t
    BY <1>2, <1>7, <2>1, <2>2 DEF Snapped, Pending
  <2>3. CASE s = t /\ Snapshot(t)
    <3>1. /\ snap' = [snap EXCEPT ![t][at[t]] = cell[at[t]]] /\ pc[t] = "snapshot"
          /\ at[t] \in 1 .. SharedCount /\ at[t] \in Int
          /\ \/ pc' = [pc EXCEPT ![t] = "body"] /\ at[t] = SharedCount
             \/ pc' = pc /\ at'[t] = at[t] + 1
      BY <2>3 DEF Snapshot, Counters, Shared
    <3>2. at[t] > k \/ k = at[t]
      <4>1. CASE at[t] = SharedCount
        BY <4>1, SizesAssumption DEF Shared
      <4>2. CASE pc' = pc /\ at'[t] = at[t] + 1
        BY <1>7, <2>3, <3>1, <4>2 DEF Snapped, Pending, Shared
      <4> QED BY <3>1, <4>1, <4>2
    <3>3. CASE k = at[t]
      BY <2>1, <2>3, <3>1, <3>3
    <3>4. CASE k # at[t]
      BY <2>1, <2>3, <3>1, <3>2, <3>4 DEF Snapped
    <3> QED BY <3>3, <3>4
  <2>4. CASE s = t /\ ~Snapshot(t)
    <3>1. snap' = snap /\ Snapped(t, k)
      <4>1. CASE Body(t) \/ NativeArityError(t)
        BY <4>1 DEF Body, NativeArityError, ToMerge, Snapped
      <4>2. CASE Merge(t)
        <5>1. snap' = snap /\ pc[t] = "merge" /\ at'[t] = at[t] + 1 /\ at[t] \in Int
              /\ pc'[t] \in {"merge", "exited"}
          BY <4>2 DEF Merge
        <5> QED BY <1>7, <2>4, <5>1 DEF Snapped, Pending, Shared
      <4>3. ~Panic(t) /\ ~MergePanic(t)
        BY <1>7, <2>4 DEF Panic, MergePanic, Snapped, Pending
      <4> QED BY <2>4, <4>1, <4>2, <4>3 DEF ThreadStep
    <3> QED BY <2>1, <2>4, <3>1
  <2> QED BY <2>2, <2>3, <2>4
<1>8. CountInv'
  BY <1>1, <1>6, <1>7 DEF CountInv
<1> QED BY <1>4, <1>8

(* No lost update, for any number of items and shared variables, any mix   *)
(* of growing and other updates on different variables, failures and       *)
(* panics included, and any schedule (merge_shared_writeback under one     *)
(* lock).                                                                  *)
THEOREM NoUpdateLost == Spec => []NoLostUpdate
<1>1. TypeInv /\ JoinInv /\ WorkInv /\ CountInv /\ [Next]_vars => WorkInv' /\ CountInv'
  <2>1. WorkInv /\ CountInv /\ UNCHANGED vars => WorkInv' /\ CountInv'
    <3> SUFFICES ASSUME WorkInv, CountInv, UNCHANGED vars PROVE WorkInv' /\ CountInv'
      OBVIOUS
    <3>1. \A k \in Shared : (OnlyGrown(k)' <=> OnlyGrown(k)) /\ (Counted(k)' <=> Counted(k))
      BY CountedFrame DEF vars, Mergers, Merged
    <3> QED BY <3>1 DEF WorkInv, CountInv, Snapped, Pending, vars
  <2> QED BY <2>1, MainCount, ThreadCount DEF Next, Returned
<1>2. CountInv => NoLostUpdate
  BY DEF CountInv, NoLostUpdate
<1> QED BY <1>1, <1>2, InitCount, TypeInvariant, JoinInvariant, PTL DEF Spec
==============================================================================
