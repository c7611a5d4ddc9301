----------------------------- MODULE HttpListen ------------------------------
(***************************************************************************)
(* The http_listen statement (HttpServer::exec_http_listen_native, for     *)
(* interpreted and transpiled programs alike): the thread of the statement *)
(* accepts and reads one connection after the other and never returns but  *)
(* with an error; a thread per request takes snapshots of the shared       *)
(* variables, runs the block without any lock, answers the client, and     *)
(* only then, if the block succeeded, merges its final values back.        *)
(*                                                                         *)
(* What a request or a response contains is left out: a request is whether *)
(* it can be read, and an answer is that it was given.                     *)
(***************************************************************************)
EXTENDS SharedMerge, FiniteSets

CONSTANTS
  Request,      \* the connections clients make, each with one request
  SharedCount,  \* how many `shared @name` arguments the statement has
  InitialOuter, \* the caller's variables the statement can start from
  BodyUpdates   \* BodyUpdates[r][k]: what the block may do to variable k for r

Shared == 1 .. SharedCount

ASSUME SharedAssumption == SharedCount \in Nat
ASSUME OuterAssumption == InitialOuter \subseteq [Shared -> Value \cup {Absent}]
ASSUME BodyAssumption == BodyUpdates \in [Request -> [Shared -> SUBSET Update]]

VARIABLES
  phase,    \* where the statement, and in the end the process, is
  backlog,  \* connections the listener has not accepted yet
  pc,       \* how far each request is
  at,       \* the shared variable its thread locks next
  snap,     \* its snapshots
  fin,      \* its final values
  ok,       \* whether its block succeeded
  cell,     \* what the Mutex of each shared variable holds
  outer,    \* the shared variables in the caller's RuntimeState
  work      \* history: the update each block made to each variable

server  == <<phase, backlog>>
request == <<pc, at, snap, fin, ok, work>>
vars    == <<phase, backlog, pc, at, snap, fin, ok, cell, outer, work>>

Threaded == {"snapshot", "body", "respond", "merge"}
Ended    == {"done", "dropped"}

TypeOK ==
  /\ phase \in {"start", "rejected", "accept", "returned", "exited"}
  /\ backlog \in Seq(Request)
  /\ pc \in [Request -> {"away", "waiting", "reading"} \cup Threaded \cup Ended]
  /\ at \in [Request -> 1 .. SharedCount + 1]
  /\ snap \in [Request -> [Shared -> Value]]
  /\ fin \in [Request -> [Shared -> Value]]
  /\ ok \in [Request -> BOOLEAN]
  /\ cell \in [Shared -> Value]
  /\ outer \in [Shared -> Value \cup {Absent}]
  /\ work \in [Request -> [Shared -> Update]]

Init ==
  /\ phase = "start"
  /\ backlog = <<>>
  /\ pc = [r \in Request |-> "away"]
  /\ at = [r \in Request |-> 1]
  /\ snap = [r \in Request |-> [k \in Shared |-> NullValue]]
  /\ fin = snap
  /\ ok = [r \in Request |-> FALSE]
  /\ cell = [k \in Shared |-> NullValue]
  /\ outer \in InitialOuter
  /\ work = [r \in Request |-> [k \in Shared |-> Keep]]
-----------------------------------------------------------------------------
(* The statement.                                                          *)

(* The port is no 16-bit integer, or cannot be bound.                      *)
RejectPort ==
  /\ phase = "start"
  /\ phase' = "rejected"
  /\ UNCHANGED <<backlog, cell, outer, request>>

Bind ==
  /\ phase = "start"
  /\ phase' = "accept"
  /\ cell' = [k \in Shared |-> Loaded(outer[k])]
  /\ UNCHANGED <<backlog, outer, request>>

Reading == {r \in Request : pc[r] = "reading"}

(* Mutant: the next connection is taken when the last one is finished.     *)
AcceptAlone ==
  /\ phase = "accept" /\ Reading = {} /\ backlog # <<>>
  /\ \A r \in Request : pc[r] \notin Threaded
  /\ pc' = [pc EXCEPT ![Head(backlog)] = "reading"]
  /\ backlog' = Tail(backlog)
  /\ UNCHANGED <<phase, cell, outer, at, snap, fin, ok, work>>

Accept ==
  /\ phase = "accept" /\ Reading = {} /\ backlog # <<>>
  /\ pc' = [pc EXCEPT ![Head(backlog)] = "reading"]
  /\ backlog' = Tail(backlog)
  /\ UNCHANGED <<phase, cell, outer, at, snap, fin, ok, work>>

(* `?` on a failed accept leaves the statement; its threads go on.         *)
AcceptFails ==
  /\ phase = "accept" /\ Reading = {}
  /\ phase' = "returned"
  /\ UNCHANGED <<backlog, cell, outer, request>>

ReadRequest ==
  /\ phase = "accept"
  /\ \E r \in Reading :
       pc' = [pc EXCEPT ![r] = IF SharedCount = 0 THEN "body" ELSE "snapshot"]
  /\ UNCHANGED <<server, cell, outer, at, snap, fin, ok, work>>

(* Malformed, too large, closed early or timed out: closed without answer. *)
ReadFails ==
  /\ phase = "accept"
  /\ \E r \in Reading : pc' = [pc EXCEPT ![r] = "dropped"]
  /\ UNCHANGED <<server, cell, outer, at, snap, fin, ok, work>>

(* The script ends after the statement did, and its threads with it.       *)
Exit ==
  /\ phase = "returned"
  /\ phase' = "exited"
  /\ UNCHANGED <<backlog, cell, outer, request>>
-----------------------------------------------------------------------------
(* The clients: each connects when it likes.                               *)

Connect(r) ==
  /\ phase = "accept" /\ pc[r] = "away"
  /\ pc' = [pc EXCEPT ![r] = "waiting"]
  /\ backlog' = Append(backlog, r)
  /\ UNCHANGED <<phase, cell, outer, at, snap, fin, ok, work>>
-----------------------------------------------------------------------------
(* The thread of a request.  Every lock is held for a single variable.     *)

Alive == phase # "exited"

Snapshot(r) ==
  /\ Alive /\ pc[r] = "snapshot"
  /\ snap' = [snap EXCEPT ![r][at[r]] = cell[at[r]]]
  /\ IF at[r] = SharedCount
     THEN pc' = [pc EXCEPT ![r] = "body"] /\ at' = [at EXCEPT ![r] = 1]
     ELSE at' = [at EXCEPT ![r] = @ + 1] /\ UNCHANGED pc
  /\ UNCHANGED <<server, cell, outer, fin, ok, work>>

Updates(r) ==
  {f \in [Shared -> UNION {BodyUpdates[r][k] : k \in Shared}] :
     \A k \in Shared : f[k] \in BodyUpdates[r][k] /\ Fits(f[k], snap[r][k])}

Body(r) ==
  /\ Alive /\ pc[r] = "body"
  /\ \E choice \in Updates(r) :
       /\ work' = [work EXCEPT ![r] = choice]
       /\ fin' = [fin EXCEPT ![r] = [k \in Shared |-> Apply(choice[k], snap[r][k])]]
  /\ ok' = [ok EXCEPT ![r] = TRUE]
  /\ pc' = [pc EXCEPT ![r] = "respond"]
  /\ UNCHANGED <<server, cell, outer, at, snap>>

(* An error, also that of sys.exit: what the block did is not looked at.   *)
BodyFails(r) ==
  /\ Alive /\ pc[r] = "body"
  /\ pc' = [pc EXCEPT ![r] = "respond"]
  /\ UNCHANGED <<server, cell, outer, at, snap, fin, ok, work>>

(* A panic ends the thread and closes its stream.                          *)
BodyPanics(r) ==
  /\ Alive /\ pc[r] = "body"
  /\ pc' = [pc EXCEPT ![r] = "dropped"]
  /\ UNCHANGED <<server, cell, outer, at, snap, fin, ok, work>>

(* The answer is written before anything is merged, and writing it takes   *)
(* as long as the client takes to read it: there is no write timeout.      *)
(* Mutants: the write-back does not look at success, or never happens.     *)
RespondMergesErrors(r) ==
  /\ Alive /\ pc[r] = "respond"
  /\ pc' = [pc EXCEPT ![r] = IF SharedCount > 0 THEN "merge" ELSE "done"]
  /\ UNCHANGED <<server, cell, outer, at, snap, fin, ok, work>>

RespondOnly(r) ==
  /\ Alive /\ pc[r] = "respond"
  /\ pc' = [pc EXCEPT ![r] = "done"]
  /\ UNCHANGED <<server, cell, outer, at, snap, fin, ok, work>>

Respond(r) ==
  /\ Alive /\ pc[r] = "respond"
  /\ pc' = [pc EXCEPT ![r] = IF ok[r] /\ SharedCount > 0 THEN "merge" ELSE "done"]
  /\ UNCHANGED <<server, cell, outer, at, snap, fin, ok, work>>

Merge(r) ==
  /\ Alive /\ pc[r] = "merge"
  /\ cell' = [cell EXCEPT ![at[r]] = MergeSharedWriteback(snap[r][at[r]], fin[r][at[r]], @)]
  /\ at' = [at EXCEPT ![r] = @ + 1]
  /\ pc' = [pc EXCEPT ![r] = IF at[r] = SharedCount THEN "done" ELSE "merge"]
  /\ UNCHANGED <<server, outer, snap, fin, ok, work>>
-----------------------------------------------------------------------------
Listener == RejectPort \/ Bind \/ Accept \/ ReadRequest \/ ReadFails

ThreadStep(r) ==
  Snapshot(r) \/ Body(r) \/ BodyFails(r) \/ BodyPanics(r) \/ Respond(r) \/ Merge(r)

Stopped == phase \in {"rejected", "exited"} /\ UNCHANGED vars

Next ==
  \/ Listener \/ AcceptFails \/ Exit \/ Stopped
  \/ \E r \in Request : Connect(r) \/ ThreadStep(r)

Spec == Init /\ [][Next]_vars

(* The operating system schedules the threads, reading ends because of its *)
(* timeout and its limits, and blocks end.  Nothing makes a client take    *)
(* its answer, so Respond has no fairness.  Clients need not come,         *)
(* accepting need not fail and the process need not exit.                  *)
OwnStep(r) == Snapshot(r) \/ Body(r) \/ BodyFails(r) \/ BodyPanics(r) \/ Merge(r)

FairSpec == Spec /\ WF_vars(Listener) /\ \A r \in Request : WF_vars(OwnStep(r))
-----------------------------------------------------------------------------
(* Properties.                                                             *)

Stage   == IF phase \in {"start", "rejected"} THEN "before" ELSE "open"
Decided == {r \in Request : ok[r]}
Applied == {p \in Request \X Shared : ok[p[1]] /\ at[p[1]] > p[2]}

(* Snapshots, unlocked blocks and write-backs amount to one atomic update  *)
(* per successful request and variable, and a request that failed, or      *)
(* whose thread panicked, has no effect (init_http_scope and               *)
(* write_http_response).  The caller's variables never change.             *)
Atomic == INSTANCE AtomicUpdates
            WITH Thread <- Request, stage <- Stage, decided <- Decided, applied <- Applied

AtomicSpec == Atomic!Spec

(* Once every thread has ended, a counter is what it was plus what each    *)
(* successful request added, and a list has grown by what each pushed: no  *)
(* request is counted twice, in part or not at all, unless the process     *)
(* exited (the write-back at the end of write_http_response).              *)
Quiet == \A r \in Request : pc[r] \notin Threaded
Gain(r, k) == CASE work[r][k] = Keep          -> 0
                [] work[r][k] \in [add : Int] -> work[r][k].add
                [] OTHER                      -> Len(work[r][k].push)
Total(v)   == IF v \in NumberValue THEN v.num ELSE Len(v.list)
AddsUp ==
  Quiet /\ phase \in {"accept", "returned"} =>
    \A k \in Shared :
      cell[k] \in NumberValue \cup ListValue =>
        Total(cell[k]) = Total(Loaded(outer[k])) + SumFunction([r \in Decided |-> Gain(r, k)])

(* A client that never takes its answer, and a request that fails, panics  *)
(* or cannot be read, delays nobody else: every other one that connected   *)
(* comes to its own answer or is closed, as long as accepting works; its   *)
(* block runs even if the statement has returned; and what it did is       *)
(* merged once its answer is taken (the accept loop hands each request to  *)
(* a thread of its own, which holds no lock while it runs and answers).    *)
AtAnswer == {"respond", "merge"} \cup Ended
DelaysNobodyElse ==
  \A r \in Request :
    /\ (pc[r] = "waiting") ~> (pc[r] \in AtAnswer \/ phase # "accept")
    /\ (pc[r] \in {"snapshot", "body"}) ~> (pc[r] \in AtAnswer \/ phase = "exited")
    /\ (pc[r] = "merge") ~> (pc[r] = "done" \/ phase = "exited")
==============================================================================
