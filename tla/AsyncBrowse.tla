----------------------------- MODULE AsyncBrowse -----------------------------
(***************************************************************************)
(* The async_browse statement: one OS thread per list item, each running   *)
(* the procedure on snapshots of the shared variables without any lock and *)
(* merging its final values back variable by variable, then a join of all  *)
(* threads and the write-back to the outer state.                          *)
(*                                                                         *)
(* Evaluator::exec_async_browse checks the arguments; the threads are      *)
(* those of exec_async_browse_ast (interpreter) and of                     *)
(* exec_async_browse_native (transpiled programs), which differ only in    *)
(* what a wrong number of procedure parameters leads to.                   *)
(***************************************************************************)
EXTENDS SharedMerge, FiniteSets

CONSTANTS
  MaxItems,     \* bound on the length of the iterated list
  SharedCount,  \* how many `shared @name` arguments the statement has
  InitialOuter, \* the outer states the statement can start in
  BodyUpdates,  \* BodyUpdates[t][k]: what thread t's body may do to variable k
  Procedures    \* the procedures it may be given: [native, params]

Thread == 1 .. MaxItems
Shared == 1 .. SharedCount

ASSUME SizesAssumption == MaxItems \in Nat /\ SharedCount \in Nat
ASSUME OuterAssumption == InitialOuter \subseteq [Shared -> Value \cup {Absent}]
ASSUME ProcedureAssumption == Procedures \subseteq [native : BOOLEAN, params : Nat]
ASSUME BodyAssumption == BodyUpdates \in [Thread -> [Shared -> SUBSET Update]]

VARIABLES
  phase,    \* where the statement itself is
  index,    \* the next thread to spawn or join, the next variable to publish
  proc,     \* the procedure: a transpiled closure or not, number of parameters
  items,    \* length of the list
  outer,    \* the shared variables in the RuntimeState of the caller
  cell,     \* what the Mutex of each shared variable holds
  pc,       \* where each thread is
  at,       \* the next shared variable the thread locks
  snap,     \* the thread's snapshots
  fin,      \* the thread's final values
  result,   \* how the body of the thread ended
  verdict,  \* first_err, and in the end what the statement returns
  work,     \* history: the update each body made to each variable
  before    \* history: the cells before the first thread

main   == <<phase, index, proc, items, outer, verdict, before>>
thread == <<pc, at, snap, fin, result, work>>
vars   == <<phase, index, proc, items, outer, cell, pc, at, snap, fin, result, verdict,
            work, before>>

Error   == {"runtime", "type", "exit", "panic"}
Phase   == {"evaluate", "spawn", "join", "publish", "returned"}
PC      == {"unborn", "snapshot", "body", "merge", "exited"}

TypeOK ==
  /\ phase \in Phase
  /\ proc \in Procedures
  /\ items \in 0 .. MaxItems
  /\ index \in Nat
  /\ outer \in [Shared -> Value \cup {Absent}]
  /\ cell \in [Shared -> Value]
  /\ before \in [Shared -> Value]
  /\ pc \in [Thread -> PC]
  /\ at \in [Thread -> 1 .. SharedCount + 1]
  /\ snap \in [Thread -> [Shared -> Value]]
  /\ fin \in [Thread -> [Shared -> Value]]
  /\ result \in [Thread -> {"ok"} \cup Error]
  /\ verdict \in {"ok"} \cup Error
  /\ work \in [Thread -> [Shared -> Update]]

Init ==
  /\ phase = "evaluate"
  /\ index = 1
  /\ proc \in Procedures
  /\ items = 0
  /\ outer \in InitialOuter
  /\ cell = [k \in Shared |-> NullValue]
  /\ before = cell
  /\ pc = [t \in Thread |-> "unborn"]
  /\ at = [t \in Thread |-> 1]
  /\ snap = [t \in Thread |-> [k \in Shared |-> NullValue]]
  /\ fin = snap
  /\ result = [t \in Thread |-> "ok"]
  /\ verdict = "ok"
  /\ work = [t \in Thread |-> [k \in Shared |-> Keep]]
-----------------------------------------------------------------------------
(* The statement.                                                          *)

Return(v) == phase' = "returned" /\ verdict' = v

(* The argument is not a list, or the named variable is no procedure.      *)
RejectArguments ==
  /\ phase = "evaluate"
  /\ \E e \in {"runtime", "type"} : Return(e)
  /\ UNCHANGED <<index, proc, items, outer, cell, before, thread>>

(* Nothing to do: returns before the procedure is even looked up.          *)
EmptyList ==
  /\ phase = "evaluate"
  /\ Return("ok")
  /\ UNCHANGED <<index, proc, items, outer, cell, before, thread>>

(* Only the interpreter compares the procedure's parameters with the       *)
(* statement: one for the item and one per shared variable.                *)
ArityFits == proc.params = SharedCount + 1

RejectArity ==
  /\ phase = "evaluate"
  /\ ~proc.native /\ ~ArityFits
  /\ Return("runtime")
  /\ UNCHANGED <<index, proc, items, outer, cell, before, thread>>

(* shared_arcs: one Mutex per shared variable, null if it is not set yet.  *)
CreateCells ==
  /\ phase = "evaluate"
  /\ proc.native \/ ArityFits
  /\ items' \in Thread
  /\ cell' = [k \in Shared |-> Loaded(outer[k])]
  /\ before' = cell'
  /\ phase' = "spawn"
  /\ UNCHANGED <<index, proc, outer, verdict, thread>>

Spawn ==
  /\ phase = "spawn"
  /\ pc' = [pc EXCEPT ![index] = IF SharedCount = 0 THEN "body" ELSE "snapshot"]
  /\ IF index = items
     THEN phase' = "join" /\ index' = 1
     ELSE phase' = "spawn" /\ index' = index + 1
  /\ UNCHANGED <<proc, items, outer, cell, before, verdict, at, snap, fin, result, work>>

(* The next thread to join, or what follows the last one.                  *)
Advance == IF index < items
           THEN phase' = "join" /\ index' = index + 1
           ELSE phase' = (IF SharedCount = 0 THEN "returned" ELSE "publish") /\ index' = 1

(* Mutants: a handle is dropped without waiting for its thread, a later    *)
(* error replaces an earlier one, an error returns before the publication. *)
JoinNoWait ==
  /\ phase = "join"
  /\ verdict' = IF verdict = "ok" THEN result[index] ELSE verdict
  /\ Advance
  /\ UNCHANGED <<proc, items, outer, cell, before, thread>>
JoinLastError ==
  /\ phase = "join"
  /\ pc[index] = "exited"
  /\ verdict' = IF result[index] = "ok" THEN verdict ELSE result[index]
  /\ Advance
  /\ UNCHANGED <<proc, items, outer, cell, before, thread>>
JoinReturnsError ==
  /\ phase = "join"
  /\ pc[index] = "exited"
  /\ verdict' = IF verdict = "ok" THEN result[index] ELSE verdict
  /\ IF index = items /\ verdict' # "ok" THEN phase' = "returned" /\ index' = 1 ELSE Advance
  /\ UNCHANGED <<proc, items, outer, cell, before, thread>>

(* Joins in list order; the first error in that order is kept.             *)
Join ==
  /\ phase = "join"
  /\ pc[index] = "exited"
  /\ verdict' = IF verdict = "ok" THEN result[index] ELSE verdict
  /\ Advance
  /\ UNCHANGED <<proc, items, outer, cell, before, thread>>

(* Mutant: the publication does not advance to the next variable.          *)
PublishStuck ==
  /\ phase = "publish"
  /\ outer' = [outer EXCEPT ![index] = cell[index]]
  /\ UNCHANGED <<phase, index, proc, items, cell, before, verdict, thread>>

(* The finals go to the outer state whether or not a thread failed.        *)
Publish ==
  /\ phase = "publish"
  /\ outer' = [outer EXCEPT ![index] = cell[index]]
  /\ IF index = SharedCount
     THEN phase' = "returned" /\ index' = 1
     ELSE phase' = "publish" /\ index' = index + 1
  /\ UNCHANGED <<proc, items, cell, before, verdict, thread>>
-----------------------------------------------------------------------------
(* One thread.  Every lock is held for a single variable: two threads can  *)
(* interleave between any two of these steps.                              *)

Snapshot(t) ==
  /\ pc[t] = "snapshot"
  /\ snap' = [snap EXCEPT ![t][at[t]] = cell[at[t]]]
  /\ IF at[t] = SharedCount
     THEN pc' = [pc EXCEPT ![t] = "body"] /\ at' = [at EXCEPT ![t] = 1]
     ELSE at' = [at EXCEPT ![t] = @ + 1] /\ UNCHANGED pc
  /\ UNCHANGED <<main, cell, fin, result, work>>

(* To the write-back, which is also made when the body failed.             *)
ToMerge(t) ==
  /\ pc' = [pc EXCEPT ![t] = IF SharedCount = 0 THEN "exited" ELSE "merge"]
  /\ UNCHANGED <<main, cell, at, snap>>

BodyChoices(t) ==
  {f \in [Shared -> UNION {BodyUpdates[t][k] : k \in Shared}] :
     \A k \in Shared : f[k] \in BodyUpdates[t][k]}

(* The body runs without a lock.  It fails at the first update that does   *)
(* not fit its variable, and may fail anywhere for reasons of its own.     *)
Body(t) ==
  /\ pc[t] = "body"
  /\ proc.native => proc.params <= SharedCount + 1
  /\ \E choice \in BodyChoices(t) :
       /\ LET Done(k) == IF Fits(choice[k], snap[t][k]) THEN choice[k] ELSE Keep
          IN  /\ work' = [work EXCEPT ![t] = [k \in Shared |-> Done(k)]]
              /\ fin' = [fin EXCEPT ![t] = [k \in Shared |-> Apply(Done(k), snap[t][k])]]
       /\ result' \in {[result EXCEPT ![t] = r] : r \in {"ok", "runtime", "type", "exit"}}
       /\ (\E k \in Shared : ~Fits(choice[k], snap[t][k])) => result'[t] # "ok"
  /\ ToMerge(t)

(* A closure with more parameters than arguments fails before it binds     *)
(* any of them: the values read back under the parameter names are those   *)
(* of the caller's variables that happen to have them, and null otherwise. *)
NativeArityError(t) ==
  /\ pc[t] = "body"
  /\ proc.native /\ proc.params > SharedCount + 1
  /\ \E named \in SUBSET Shared :
       fin' = [fin EXCEPT ![t] = [k \in Shared |->
                 IF k \in named THEN Loaded(outer[k]) ELSE NullValue]]
  /\ result' = [result EXCEPT ![t] = "runtime"]
  /\ UNCHANGED work
  /\ ToMerge(t)

(* A panic in the body unwinds past the write-back.                        *)
Panic(t) ==
  /\ pc[t] = "body"
  /\ pc' = [pc EXCEPT ![t] = "exited"]
  /\ result' = [result EXCEPT ![t] = "panic"]
  /\ UNCHANGED <<main, cell, at, snap, fin, work>>

Merge(t) ==
  /\ pc[t] = "merge"
  /\ at[t] + 1 <= proc.params
  /\ cell' = [cell EXCEPT ![at[t]] = MergeSharedWriteback(snap[t][at[t]], fin[t][at[t]], @)]
  /\ at' = [at EXCEPT ![t] = @ + 1]
  /\ pc' = [pc EXCEPT ![t] = IF at[t] = SharedCount THEN "exited" ELSE "merge"]
  /\ UNCHANGED <<main, snap, fin, result, work>>

(* params[i + 1] is out of bounds: the thread panics between two merges.   *)
MergePanic(t) ==
  /\ pc[t] = "merge"
  /\ at[t] + 1 > proc.params
  /\ pc' = [pc EXCEPT ![t] = "exited"]
  /\ result' = [result EXCEPT ![t] = "panic"]
  /\ UNCHANGED <<main, cell, at, snap, fin, work>>
-----------------------------------------------------------------------------
MainStep ==
  RejectArguments \/ EmptyList \/ RejectArity \/ CreateCells \/ Spawn \/ Join \/ Publish

ThreadStep(t) ==
  Snapshot(t) \/ Body(t) \/ NativeArityError(t) \/ Panic(t) \/ Merge(t) \/ MergePanic(t)

Returned == phase = "returned" /\ UNCHANGED vars

Next == MainStep \/ (\E t \in Thread : ThreadStep(t)) \/ Returned

Spec == Init /\ [][Next]_vars

(* The operating system schedules every thread; bodies terminate.          *)
FairSpec == Spec /\ WF_vars(MainStep) /\ \A t \in Thread : WF_vars(ThreadStep(t))
-----------------------------------------------------------------------------
(* Properties.                                                             *)

Merged(t, k) == pc[t] \in {"merge", "exited"} /\ at[t] > k
Mergers(k)   == {t \in Thread : Merged(t, k)}

(* Whether every thread that wrote variable k back only grew it.           *)
OnlyGrown(k) == \A t \in Mergers(k) : Accumulates(work[t][k], before[k])

Occurrences(e, s) == Cardinality({i \in 1 .. Len(s) : s[i] = e})
Pushed(t, k)      == IF work[t][k] = Keep THEN <<>> ELSE work[t][k].push
Concatenated(t, k) == IF work[t][k] = Keep THEN <<>> ELSE work[t][k].concat
Added(t, k)       == IF work[t][k] = Keep THEN 0 ELSE work[t][k].add

(* What the threads that wrote k back have contributed to it.              *)
SumAdded(k)           == SumFunction([t \in Mergers(k) |-> Added(t, k)])
SumPushed(e, k)       == SumFunction([t \in Mergers(k) |-> Occurrences(e, Pushed(t, k))])
SumConcatenated(e, k) == SumFunction([t \in Mergers(k) |-> Occurrences(e, Concatenated(t, k))])

(* The cell holds the initial value and every contribution exactly once.   *)
Counted(k) ==
  /\ before[k] \in NumberValue => cell[k] = [num |-> before[k].num + SumAdded(k)]
  /\ before[k] \in ListValue =>
       /\ IsPrefix(before[k].list, cell[k].list)
       /\ \A e \in Element :
            Occurrences(e, cell[k].list) = Occurrences(e, before[k].list) + SumPushed(e, k)
  /\ before[k] \in StringValue =>
       /\ IsPrefix(before[k].str, cell[k].str)
       /\ \A e \in Piece :
            Occurrences(e, cell[k].str) = Occurrences(e, before[k].str) + SumConcatenated(e, k)

(* No lost update: as long as bodies only grow a shared variable, every    *)
(* contribution is counted, for any interleaving of snapshots and          *)
(* write-backs (merge_shared_writeback called under one lock).  Its own    *)
(* comment says so of lists, numbers and strings; the one on               *)
(* exec_async_browse says it of lists only: see FinalValueReplaces.  A     *)
(* closure with too many parameters is excepted: it writes back what it    *)
(* never bound.                                                            *)
NoLostUpdate ==
  \A k \in Shared :
    phase # "evaluate" /\ OnlyGrown(k) /\ proc.params <= SharedCount + 1 => Counted(k)

(* What the comment on exec_async_browse says of everything but lists: the *)
(* final value of a thread replaces the current one, so that the variable  *)
(* holds that of a thread that wrote it back.  The code does not do this   *)
(* where two threads add to a number, or append to a string.               *)
FinalValueReplaces ==
  \A k \in Shared :
    before[k] \notin ListValue /\ Mergers(k) # {} => \E t \in Mergers(k) : cell[k] = fin[t][k]

(* What one body pushed stays together and in order in the shared list:    *)
(* the write-back appends the whole tail under a single lock.              *)
PushesStayTogether ==
  \A k \in Shared, t \in Thread :
    Merged(t, k) /\ before[k] \in ListValue /\ OnlyGrown(k) =>
      \E i \in 0 .. Len(cell[k].list) - Len(Pushed(t, k)) :
        SubSeq(cell[k].list, i + 1, i + Len(Pushed(t, k))) = Pushed(t, k)

(* The statement never lets go of a running thread: it writes to the outer *)
(* state and returns only after all threads have been joined, also when an *)
(* earlier one failed; until then the caller's variables are unchanged.    *)
JoinedBeforePublish ==
  /\ phase \in {"publish", "returned"} => \A t \in Thread : pc[t] \in {"unborn", "exited"}
  /\ phase \in {"spawn", "join"} =>
       \A k \in Shared : before[k] = Loaded(outer[k])

(* The statement fails exactly if some thread failed, with the error of    *)
(* the first item, in list order, whose thread did.                        *)
FirstErrorReported ==
  phase = "returned" /\ items > 0 =>
    \/ verdict = "ok" /\ \A t \in 1 .. items : result[t] = "ok"
    \/ \E t \in 1 .. items : /\ verdict = result[t] /\ verdict # "ok"
                             /\ \A s \in 1 .. t - 1 : result[s] = "ok"

(* Contributions survive failure: when the statement returns, with or      *)
(* without an error, the outer variables hold what all threads merged.     *)
PublishedEvenOnError ==
  phase = "returned" /\ items > 0 => outer = cell

(* Every call of the statement returns.                                    *)
EventuallyReturns == <>(phase = "returned")

(* With growing bodies the statement implements AtomicUpdates: snapshots,  *)
(* unlocked bodies and merges amount to one atomic update per thread and   *)
(* variable, as the comment on merge_shared_writeback says of lists,       *)
(* numbers and strings, and that on exec_async_browse of lists only.       *)
Decided == {t \in Thread : pc[t] = "merge" \/ (pc[t] = "exited" /\ result[t] # "panic")}
Applied == {p \in Thread \X Shared : Merged(p[1], p[2])}
Stage   == CASE phase \in {"spawn", "join"}         -> "open"
             [] phase = "publish"                   -> "closed"
             [] phase = "returned" /\ items > 0     -> "closed"
             [] OTHER                               -> "before"

Atomic == INSTANCE AtomicUpdates
            WITH stage <- Stage, decided <- Decided, applied <- Applied

AtomicSpec == Atomic!Spec
==============================================================================
