------------------------------- MODULE Sessions -------------------------------
(***************************************************************************)
(* Handles and the in-script tests.  A script names a live session, or     *)
(* listener or stream, by a map with its kind and id, which is a copyable  *)
(* value; the thing itself sits in a registry of the runtime state.  A     *)
(* clone of the state, which every async_browse thread and every handler   *)
(* gets, starts with empty registries whose ids start over.  The runner of *)
(* run_test blocks opens one session per test and closes it, whatever the  *)
(* body did with it.                                                       *)
(***************************************************************************)
EXTENDS Integers, Sequences, FiniteSets

CONSTANTS
  Tests,       \* the number of run_test blocks
  MaxOpened    \* bound on the sessions, listeners and streams ever opened

ASSUME TestsAssumption == Tests \in Nat /\ MaxOpened \in Nat

Kinds == {"pex", "listener", "stream"}   \* the kinds of a script have an id space each
NoTest == [opened |-> 0]

VARIABLES
  results,    \* passed or failed, one per test that ended
  test,       \* the handle the runner opened for the test under way, or NoTest
  entries,    \* [state, kind, id, thing]: the registries of the live states
  nextId,     \* the counters of those states
  threads,    \* history: how many clones there were
  cloned,     \* a clone is running: it is then the state that runs the body
  held,       \* the handles the script has, in variables and statics
  opened,     \* history: how many things were opened
  owns,       \* history: the things the runner opened
  last        \* history: the last use of a handle, and what it reached

sessions == <<results, test, entries, nextId, threads, cloned, held, opened, owns, last>>

(* The state the body runs in: 0 is the runner's own, n the n-th clone.    *)
Current == IF cloned THEN threads ELSE 0

NoUse == [handle |-> NoTest, by |-> 0, reached |-> {}]
Fresh == [kind \in Kinds |-> 0]

SessionsInit ==
  /\ results = <<>> /\ test = NoTest
  /\ entries = {} /\ nextId = [s \in {0} |-> Fresh] /\ threads = 0 /\ cloned = FALSE
  /\ held = {} /\ opened = 0 /\ owns = {} /\ last = NoUse
-----------------------------------------------------------------------------
(* The registries.                                                         *)

(* Mutant: the size of the registry is the next id.                        *)
TakeSize(s, kind) == Cardinality({e \in entries : e.state = s /\ e.kind = kind})
Take(s, kind) == nextId[s][kind]   \* fetch_add: no id is given twice
Handle(s, kind) == [kind |-> kind, id |-> Take(s, kind), madeBy |-> s, opened |-> opened + 1]

Insert(s, kind) ==
  /\ opened < MaxOpened
  /\ opened' = opened + 1
  /\ entries' = entries \cup {[state |-> s, kind |-> kind, id |-> Take(s, kind), thing |-> opened + 1]}
  /\ nextId' = [nextId EXCEPT ![s][kind] = @ + 1]

Found(s, handle) == {e \in entries : e.state = s /\ e.kind = handle.kind /\ e.id = handle.id}
Things(found)    == {e.thing : e \in found}
-----------------------------------------------------------------------------
(* The runner.                                                             *)

(* clear_vars; what the script keeps is in statics.                        *)
ClearVars(new) == \E kept \in SUBSET held : held' = kept \cup new

Ready == test = NoTest /\ Len(results) < Tests

SpawnTest ==
  /\ Ready
  /\ Insert(0, "pex")
  /\ test' = Handle(0, "pex")
  /\ owns' = owns \cup {opened + 1}
  /\ ClearVars({Handle(0, "pex")})
  /\ UNCHANGED <<results, threads, cloned, last>>

(* The argument list, or the program, is bad: the test has failed.         *)
SpawnFails ==
  /\ Ready
  /\ results' = Append(results, "failed")
  /\ ClearVars({})
  /\ UNCHANGED <<test, entries, nextId, threads, cloned, opened, owns, last>>

(* The session is closed before the error of the body is looked at, and    *)
(* that the body closed it already is no error.  An error of any kind, a   *)
(* sys.exit too, is a failure of this test only.                           *)
(* Mutant: the error of the body is looked at first.                       *)
EndTestEarly(result) ==
  /\ test # NoTest /\ ~cloned
  /\ entries' = IF result = "passed" THEN entries \ Found(0, test) ELSE entries
  /\ results' = Append(results, result)
  /\ test' = NoTest
  /\ UNCHANGED <<nextId, threads, cloned, held, opened, owns, last>>
EndTest(result) ==
  /\ test # NoTest /\ ~cloned
  /\ entries' = entries \ Found(0, test)
  /\ results' = Append(results, result)
  /\ test' = NoTest
  /\ UNCHANGED <<nextId, threads, cloned, held, opened, owns, last>>
-----------------------------------------------------------------------------
(* The body of a test.                                                     *)

InBody == test # NoTest

Open(kind) ==
  /\ InBody
  /\ Insert(Current, kind)
  /\ held' = held \cup {Handle(Current, kind)}
  /\ UNCHANGED <<results, test, threads, cloned, owns, last>>

(* Every call with a handle: the registry of the state that runs the call. *)
Use(handle) ==
  /\ InBody
  /\ last' = [handle |-> handle, by |-> Current, reached |-> Things(Found(Current, handle))]
  /\ UNCHANGED <<results, test, entries, nextId, threads, cloned, held, opened, owns>>

Accept(listener) ==
  /\ InBody
  /\ listener.kind = "listener" /\ Found(Current, listener) # {}
  /\ Insert(Current, "stream")
  /\ held' = held \cup {Handle(Current, "stream")}
  /\ last' = [handle |-> listener, by |-> Current, reached |-> Things(Found(Current, listener))]
  /\ UNCHANGED <<results, test, threads, cloned, owns>>

Close(handle) ==
  /\ InBody
  /\ entries' = entries \ Found(Current, handle)
  /\ last' = [handle |-> handle, by |-> Current, reached |-> Things(Found(Current, handle))]
  /\ UNCHANGED <<results, test, nextId, threads, cloned, held, opened, owns>>

(* A thread of an async_browse, or a handler: the handles are copied, the  *)
(* registries are new.  When it ends they go, and what they hold with      *)
(* them; its handles may leave it in a shared variable.                    *)
Clone ==
  /\ InBody /\ ~cloned
  /\ cloned' = TRUE /\ threads' = threads + 1 /\ threads < MaxOpened
  /\ nextId' = [s \in DOMAIN nextId \cup {threads + 1} |-> IF s = threads + 1 THEN Fresh ELSE nextId[s]]
  /\ UNCHANGED <<results, test, entries, held, opened, owns, last>>

DropClone ==
  /\ cloned
  /\ cloned' = FALSE
  /\ entries' = {e \in entries : e.state # threads}
  /\ \E kept \in SUBSET {h \in held : h.madeBy = threads} :
       held' = {h \in held : h.madeBy # threads} \cup kept
  /\ UNCHANGED <<results, test, nextId, threads, opened, owns, last>>

SessionsNext ==
  \/ SpawnTest \/ SpawnFails
  \/ \E result \in {"passed", "failed"} : EndTest(result)
  \/ \E kind \in Kinds : Open(kind)
  \/ \E handle \in held : Use(handle) \/ Accept(handle) \/ Close(handle)
  \/ Clone \/ DropClone

SessionsSpec == SessionsInit /\ [][SessionsNext]_sessions
-----------------------------------------------------------------------------
(* In the state that made it, a handle reaches what it was made for, or    *)
(* nothing once that is closed; never what was opened since.               *)
ReachesItsOwn ==
  last.handle # NoTest /\ last.by = last.handle.madeBy => last.reached \subseteq {last.handle.opened}

(* The session of a test is gone when the next test begins, whether its    *)
(* body passed, failed, exited or closed it itself.                        *)
TestSessionsClosed ==
  \A e \in entries : e.thing \in owns => InBody /\ e.thing = test.opened
==============================================================================
