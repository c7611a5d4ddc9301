----------------------------- MODULE AmqpConsume -----------------------------
(***************************************************************************)
(* The amqp_consume statement (Evaluator::run_amqp_consumer_loop, for      *)
(* interpreted and transpiled programs alike), together with the broker it *)
(* consumes from.  One delivery after the other: snapshot the shared       *)
(* variables, run the block, merge its final values back whether or not it *)
(* failed, then acknowledge the message, or reject it if the block failed. *)
(* The connection may be lost and the process may die at any moment; the   *)
(* script may run the statement again.                                     *)
(*                                                                         *)
(* The statement is the only one to lock the shared variables, so all of   *)
(* them are read, and written back, in one step.                           *)
(***************************************************************************)
EXTENDS SharedMerge, FiniteSets

CONSTANTS
  Message,      \* the messages in the queue at first
  SharedCount,  \* how many `shared @name` arguments the statement has
  InitialOuter, \* the caller's variables a script can start from
  BodyUpdates,  \* BodyUpdates[m][k]: what the block may do to variable k for m
  MaxRuns       \* bound on how often the statement is run

Shared == 1 .. SharedCount

ASSUME SharedAssumption == SharedCount \in Nat
ASSUME MessageAssumption == IsFiniteSet(Message)
ASSUME OuterAssumption == InitialOuter \subseteq [Shared -> Value \cup {Absent}]
ASSUME BodyAssumption == BodyUpdates \in [Message -> [Shared -> SUBSET Update]]
ASSUME RunsAssumption == MaxRuns \in Nat \ {0}

VARIABLES
  (* The broker.                                                           *)
  ready,    \* messages it may deliver
  unacked,  \* messages it delivered over the present connection
  acked, rejected,  \* messages it has forgotten
  (* The connection and the statement.                                     *)
  link,     \* the connection is up
  buffer,   \* deliveries the consumer's stream holds
  phase,    \* where the statement is
  message,  \* the delivery that is being processed, as a set
  snap, fin, ok,  \* snapshots, final values, and whether the block succeeded
  cell, outer,    \* the Mutexes, and the caller's variables
  (* History.                                                              *)
  runs,     \* how often the statement was run
  losses,   \* how often the broker took unacknowledged messages back
  ran,      \* ran[m]: how often the block ended for m
  success,  \* the messages the block succeeded for at least once
  base,     \* the caller's variables when the process started
  gains,    \* gains[k]: how much blocks have grown variable k since then
  work      \* the updates of the block that ran last

broker  == <<ready, unacked, acked, rejected>>
history == <<runs, losses, ran, success, base, gains, work>>
vars    == <<broker, link, buffer, phase, message, snap, fin, ok, cell, outer, history>>

Phase == {"start", "receive", "body", "merge", "settle", "publish", "returned"}

TypeOK ==
  /\ ready \in SUBSET Message /\ unacked \in SUBSET Message
  /\ acked \in SUBSET Message /\ rejected \in SUBSET Message
  /\ link \in BOOLEAN
  /\ buffer \in Seq(Message)
  /\ phase \in Phase
  /\ message \in SUBSET Message
  /\ snap \in [Shared -> Value] /\ fin \in [Shared -> Value] /\ cell \in [Shared -> Value]
  /\ ok \in BOOLEAN
  /\ outer \in [Shared -> Value \cup {Absent}] /\ base \in [Shared -> Value \cup {Absent}]
  /\ runs \in 1 .. MaxRuns /\ losses \in Nat
  /\ ran \in [Message -> Nat] /\ success \in SUBSET Message
  /\ gains \in [Shared -> Int]
  /\ work \in [Shared -> Update]

Init ==
  /\ ready = Message /\ unacked = {} /\ acked = {} /\ rejected = {}
  /\ link = FALSE /\ buffer = <<>>
  /\ phase = "start" /\ message = {}
  /\ snap = [k \in Shared |-> NullValue] /\ fin = snap /\ cell = snap
  /\ ok = FALSE
  /\ outer \in InitialOuter /\ base = outer
  /\ runs = 1 /\ losses = 0
  /\ ran = [m \in Message |-> 0] /\ success = {}
  /\ gains = [k \in Shared |-> 0]
  /\ work = [k \in Shared |-> Keep]
-----------------------------------------------------------------------------
(* The broker and the connection.                                          *)

Deliver ==
  /\ link /\ phase # "start"
  /\ \E m \in ready : /\ ready' = ready \ {m}
                      /\ unacked' = unacked \cup {m}
                      /\ buffer' = Append(buffer, m)
  /\ UNCHANGED <<acked, rejected, link, phase, message, snap, fin, ok, cell, outer, history>>

(* What was not acknowledged will be delivered again.                      *)
TakenBack ==
  /\ link' = FALSE
  /\ ready' = ready \cup unacked
  /\ unacked' = {}
  /\ losses' = IF unacked = {} THEN losses ELSE losses + 1
  /\ UNCHANGED <<acked, rejected>>

(* The stream ends, after the deliveries it holds or at once.              *)
Disconnect ==
  /\ link
  /\ TakenBack
  /\ buffer' \in {buffer, <<>>}
  /\ UNCHANGED <<phase, message, snap, fin, ok, cell, outer, runs, ran, success, base, gains, work>>
-----------------------------------------------------------------------------
(* The statement.                                                          *)

(* The queue is no string: fails before anything is read.                  *)
RejectQueue ==
  /\ phase = "start"
  /\ phase' = "returned"
  /\ UNCHANGED <<broker, link, buffer, message, snap, fin, ok, cell, outer, history>>

Load == cell' = [k \in Shared |-> Loaded(outer[k])]

(* No connection, channel or consumer: the error is returned after the     *)
(* publication, which sets variables that did not exist to null.           *)
CannotConsume ==
  /\ phase = "start"
  /\ phase' = "publish"
  /\ Load
  /\ UNCHANGED <<broker, link, buffer, message, snap, fin, ok, outer, history>>

Consume ==
  /\ phase = "start"
  /\ phase' = "receive" /\ link' = TRUE
  /\ Load
  /\ UNCHANGED <<broker, buffer, message, snap, fin, ok, outer, history>>

(* An error in the stream is passed over, and so is no step.               *)
Receive ==
  /\ phase = "receive" /\ buffer # <<>>
  /\ phase' = "body"
  /\ message' = {Head(buffer)} /\ buffer' = Tail(buffer)
  /\ snap' = cell
  /\ UNCHANGED <<broker, link, fin, ok, cell, outer, history>>

Updates(m) ==
  {f \in [Shared -> UNION {BodyUpdates[m][k] : k \in Shared}] :
     \A k \in Shared : f[k] \in BodyUpdates[m][k] /\ Fits(f[k], snap[k])}

(* A block that fails may have made any of its updates before, and an exit *)
(* request is an error like any other.                                     *)
Body ==
  /\ phase = "body"
  /\ \E m \in message : \E choice \in Updates(m), good \in BOOLEAN :
       /\ work' = choice
       /\ fin' = [k \in Shared |-> Apply(choice[k], snap[k])]
       /\ ok' = good
       /\ ran' = [ran EXCEPT ![m] = @ + 1]
       /\ success' = IF good THEN success \cup {m} ELSE success
  /\ phase' = "merge"
  /\ UNCHANGED <<broker, link, buffer, message, snap, cell, outer, runs, losses, base, gains>>

Gain(u) == CASE u \in [add : Int]           -> u.add
                [] u \in [push : Seq(Element)] -> Len(u.push)
                [] OTHER                       -> 0

(* Mutant: a failed block contributes nothing, as in http_listen.          *)
MergeGood ==
  /\ phase = "merge"
  /\ cell' = IF ok THEN [k \in Shared |-> MergeSharedWriteback(snap[k], fin[k], cell[k])] ELSE cell
  /\ gains' = [k \in Shared |-> gains[k] + Gain(work[k])]
  /\ phase' = "settle"
  /\ UNCHANGED <<broker, link, buffer, message, snap, fin, ok, outer, runs, losses, ran, success, base, work>>

Merge ==
  /\ phase = "merge"
  /\ cell' = [k \in Shared |-> MergeSharedWriteback(snap[k], fin[k], cell[k])]
  /\ gains' = [k \in Shared |-> gains[k] + Gain(work[k])]
  /\ phase' = "settle"
  /\ UNCHANGED <<broker, link, buffer, message, snap, fin, ok, outer, runs, losses, ran, success, base, work>>

(* ack, or nack, which by default does not requeue.  That it fails because *)
(* the connection is lost is ignored.                                      *)
(* Mutants: the acknowledgement covers every delivery so far, a rejection  *)
(* requeues, and a failed block is not answered at all.                    *)
SettleMultiple ==
  /\ phase = "settle"
  /\ phase' = "receive" /\ message' = {}
  /\ unacked' = IF link THEN {} ELSE unacked
  /\ acked' = IF link /\ ok THEN acked \cup unacked ELSE acked
  /\ rejected' = IF link /\ ~ok THEN rejected \cup unacked ELSE rejected
  /\ UNCHANGED <<ready, link, buffer, snap, fin, ok, cell, outer, history>>

SettleRequeues ==
  /\ phase = "settle"
  /\ phase' = "receive" /\ message' = {}
  /\ unacked' = IF link THEN unacked \ message ELSE unacked
  /\ acked' = IF link /\ ok THEN acked \cup message ELSE acked
  /\ ready' = IF link /\ ~ok THEN ready \cup message ELSE ready
  /\ UNCHANGED <<rejected, link, buffer, snap, fin, ok, cell, outer, history>>

SettleOnlyGood ==
  /\ phase = "settle"
  /\ phase' = "receive" /\ message' = {}
  /\ unacked' = IF link /\ ok THEN unacked \ message ELSE unacked
  /\ acked' = IF link /\ ok THEN acked \cup message ELSE acked
  /\ UNCHANGED <<ready, rejected, link, buffer, snap, fin, ok, cell, outer, history>>

Settle ==
  /\ phase = "settle"
  /\ phase' = "receive" /\ message' = {}
  /\ unacked' = IF link THEN unacked \ message ELSE unacked
  /\ acked' = IF link /\ ok THEN acked \cup message ELSE acked
  /\ rejected' = IF link /\ ~ok THEN rejected \cup message ELSE rejected
  /\ UNCHANGED <<ready, link, buffer, snap, fin, ok, cell, outer, history>>

(* The answer is lost on its way, and the connection with it.              *)
SettleInVain ==
  /\ phase = "settle" /\ link
  /\ phase' = "receive" /\ message' = {}
  /\ TakenBack
  /\ buffer' \in {buffer, <<>>}
  /\ UNCHANGED <<snap, fin, ok, cell, outer, runs, ran, success, base, gains, work>>

(* The stream is over: the statement returns, without an error.            *)
(* Mutant: it polls for ever.                                              *)
EndOfStreamPolls == phase = "receive" /\ buffer = <<>> /\ ~link /\ UNCHANGED vars

EndOfStream ==
  /\ phase = "receive" /\ buffer = <<>> /\ ~link
  /\ phase' = "publish"
  /\ UNCHANGED <<broker, link, buffer, message, snap, fin, ok, cell, outer, history>>

Publish ==
  /\ phase = "publish"
  /\ outer' = cell
  /\ phase' = "returned"
  /\ UNCHANGED <<broker, link, buffer, message, snap, fin, ok, cell, history>>
-----------------------------------------------------------------------------
(* The script and the process.                                             *)

Again ==
  /\ phase = "returned" /\ runs < MaxRuns
  /\ phase' = "start" /\ runs' = runs + 1
  /\ UNCHANGED <<broker, link, buffer, message, snap, fin, ok, cell, outer, losses, ran, success, base, gains, work>>

(* The process dies, also of a panic in the block, and is started again.   *)
Crash ==
  /\ runs < MaxRuns
  /\ TakenBack
  /\ buffer' = <<>> /\ message' = {}
  /\ phase' = "start" /\ runs' = runs + 1
  /\ outer' \in InitialOuter /\ base' = outer'
  /\ gains' = [k \in Shared |-> 0]
  /\ UNCHANGED <<snap, fin, ok, cell, ran, success, work>>

Statement == RejectQueue \/ CannotConsume \/ Consume \/ Receive \/ Body \/ Merge \/ Settle
               \/ EndOfStream \/ Publish

Done == phase = "returned" /\ runs = MaxRuns /\ UNCHANGED vars

Next == Statement \/ Deliver \/ Disconnect \/ SettleInVain \/ Again \/ Crash \/ Done

Spec == Init /\ [][Next]_vars

(* Blocks end, and a connected broker delivers.                            *)
FairSpec == Spec /\ WF_vars(Statement) /\ WF_vars(Deliver)
-----------------------------------------------------------------------------
(* Properties.                                                             *)

(* At least once: the broker forgets a message as done only if the block   *)
(* succeeded for it, and as rejected only after the block ended for it,    *)
(* through lost connections, stale deliveries and restarts (the ack after  *)
(* the body in run_amqp_consumer_loop).                                    *)
AtLeastOnce ==
  /\ acked \subseteq success
  /\ \A m \in rejected : ran[m] > 0
  /\ ready \cup unacked = Message \ (acked \cup rejected)

(* A message is processed once, and once more at most for each time the    *)
(* broker had to take its deliveries back.                                 *)
RepeatsNeedLosses == \A m \in Message : ran[m] <= 1 + losses

(* With blocks that only grow them, the shared variables count every block *)
(* that ended since the process started, failed and repeated ones too,     *)
(* over all runs of the statement and also when it returns an error (the merge does not look at *)
(* the block's result, nor the publication at the loop's).                 *)
Total(v) == IF v \in NumberValue THEN v.num ELSE Len(v.list)
EveryBlockCounts ==
  \A k \in Shared :
    LET now == IF phase \in {"start", "returned"} THEN Loaded(outer[k]) ELSE cell[k]
    IN  base[k] \in NumberValue \cup ListValue => Total(now) = Total(base[k]) + gains[k]

(* A consumer that stays connected empties the queue, whatever fails: a    *)
(* rejected message does not come back.                                    *)
Drains == <>[](link /\ phase # "start") => <>(ready = {} /\ unacked = {})

(* When the connection is lost the statement does not wait for ever.       *)
LossEndsStatement == (~link /\ phase \notin {"start", "returned"}) ~> (phase \in {"start", "returned"})
==============================================================================
