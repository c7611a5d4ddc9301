-------------------------- MODULE HttpListenProofs --------------------------
(***************************************************************************)
(* HttpListen is type correct, and when blocks only grow the shared        *)
(* variables it implements AtomicUpdates and every successful request      *)
(* adds up, for any number of requests and of shared variables.            *)
(***************************************************************************)
EXTENDS HttpListen, SharedMergeProofs

(* Where a request's index and its success stand, and that the listener's  *)
(* backlog holds the waiting requests, each once.                          *)
Counters(r) ==
  /\ pc[r] \in {"snapshot", "merge"} => at[r] \in Shared
  /\ pc[r] \in {"away", "waiting", "reading", "body", "respond"} => at[r] = 1
  /\ pc[r] \notin {"respond", "merge", "done"} => ~ok[r]
  /\ pc[r] = "merge" => ok[r]
  /\ pc[r] # "away" => phase \notin {"start", "rejected"}

Backlog ==
  /\ \A i \in 1 .. Len(backlog) : pc[backlog[i]] = "waiting"
  /\ \A i, j \in 1 .. Len(backlog) : backlog[i] = backlog[j] => i = j

TypeInv == TypeOK /\ Backlog /\ \A r \in Request : Counters(r)

LEMMA InitTyped == Init => TypeInv
<1> SUFFICES ASSUME Init PROVE TypeInv
  OBVIOUS
<1>1. Keep \in Update
  BY DEF Update, Growth
<1>2. 1 \in 1 .. SharedCount + 1
  BY SharedAssumption
<1>3. outer \in [Shared -> Value \cup {Absent}]
  BY OuterAssumption DEF Init
<1> QED BY <1>1, <1>2, <1>3, NullIsValue
        DEF Init, TypeInv, TypeOK, Backlog, Counters, Threaded, Ended

(* Taking the first request from the backlog, and adding one to it.        *)
LEMMA AcceptTyped == TypeInv /\ Accept => TypeInv'
<1> SUFFICES ASSUME TypeInv, Accept PROVE TypeInv'
  OBVIOUS
<1> USE DEF TypeInv, TypeOK, Threaded, Ended
<1>1. Len(backlog) \in Nat /\ Len(backlog) > 0 /\ Head(backlog) = backlog[1] /\ Head(backlog) \in Request
  BY DEF Accept
<1>2. /\ Tail(backlog) \in Seq(Request) /\ Len(Tail(backlog)) = Len(backlog) - 1
      /\ \A i \in 1 .. Len(backlog) - 1 : Tail(backlog)[i] = backlog[i + 1]
  BY <1>1
<1>3. pc[Head(backlog)] = "waiting"
  BY <1>1 DEF Backlog
<1>4. \A i \in 1 .. Len(backlog) - 1 : backlog[i + 1] # Head(backlog) /\ backlog[i + 1] \in Request
  BY <1>1 DEF Backlog
<1>5. \A r \in Request : pc'[r] = IF r = Head(backlog) THEN "reading" ELSE pc[r]
  BY <1>1 DEF Accept
<1>6. Backlog'
  BY <1>1, <1>2, <1>4, <1>5 DEF Accept, Backlog
<1>7. \A r \in Request : Counters(r)'
  BY <1>3, <1>5 DEF Accept, Counters
<1> QED BY <1>1, <1>2, <1>6, <1>7 DEF Accept

LEMMA ConnectTyped ==
  ASSUME NEW r \in Request, TypeInv, Connect(r)
  PROVE  TypeInv'
<1> USE DEF TypeInv, TypeOK, Threaded, Ended
<1>1. /\ backlog' = Append(backlog, r) /\ Len(backlog) \in Nat
      /\ backlog' \in Seq(Request) /\ Len(backlog') = Len(backlog) + 1
      /\ \A i \in 1 .. Len(backlog) : backlog'[i] = backlog[i]
      /\ backlog'[Len(backlog) + 1] = r
  BY DEF Connect
<1>2. \A i \in 1 .. Len(backlog') : i \in 1 .. Len(backlog) \/ i = Len(backlog) + 1
  BY <1>1
<1>3. \A i \in 1 .. Len(backlog) : backlog[i] \in Request /\ backlog[i] # r
  BY DEF Connect, Backlog
<1>4. \A q \in Request : pc'[q] = IF q = r THEN "waiting" ELSE pc[q]
  BY DEF Connect
<1>5. Backlog'
  BY <1>1, <1>2, <1>3, <1>4 DEF Backlog
<1>6. \A q \in Request : Counters(q)'
  BY <1>4 DEF Connect, Counters
<1> QED BY <1>1, <1>5, <1>6 DEF Connect

(* Steps that take a request from one place of the statement or its thread *)
(* to another do not touch the backlog's requests.                         *)
LEMMA MoveKeepsBacklog ==
  ASSUME NEW r \in Request, TypeInv, pc[r] # "waiting", backlog' = backlog,
         \A q \in Request : q # r => pc'[q] = pc[q]
  PROVE  Backlog'
<1>1. \A i \in 1 .. Len(backlog) : backlog[i] \in Request /\ backlog[i] # r
  BY DEF TypeInv, TypeOK, Backlog
<1> QED BY <1>1 DEF TypeInv, TypeOK, Backlog

LEMMA ListenerTyped ==
  ASSUME TypeInv, RejectPort \/ Bind \/ ReadRequest \/ ReadFails \/ AcceptFails \/ Exit \/ Stopped
  PROVE  TypeInv'
<1> USE DEF TypeInv, TypeOK, Threaded, Ended, request, server
<1>1. CASE RejectPort
  BY <1>1 DEF RejectPort, Backlog, Counters
<1>2. CASE Bind
  <2>1. \A v \in Value \cup {Absent} : Loaded(v) \in Value
    BY NullIsValue DEF Loaded
  <2> QED BY <1>2, <2>1 DEF Bind, Backlog, Counters
<1>3. CASE ReadRequest
  <2>1. PICK r \in Reading : pc' = [pc EXCEPT ![r] = IF SharedCount = 0 THEN "body" ELSE "snapshot"]
    BY <1>3 DEF ReadRequest
  <2>2. r \in Request /\ pc[r] = "reading"
    BY DEF Reading
  <2>3. \A q \in Request : pc'[q] = IF q = r THEN IF SharedCount = 0 THEN "body" ELSE "snapshot" ELSE pc[q]
    BY <2>1, <2>2
  <2>4. SharedCount # 0 => 1 \in Shared
    BY SharedAssumption DEF Shared
  <2>5. Backlog'
    BY <1>3, <2>2, <2>3, MoveKeepsBacklog DEF ReadRequest
  <2>6. \A q \in Request : Counters(q)'
    BY <1>3, <2>2, <2>3, <2>4 DEF ReadRequest, Counters
  <2> QED BY <1>3, <2>1, <2>2, <2>5, <2>6 DEF ReadRequest
<1>4. CASE ReadFails
  <2>1. PICK r \in Reading : pc' = [pc EXCEPT ![r] = "dropped"]
    BY <1>4 DEF ReadFails
  <2>2. r \in Request /\ pc[r] = "reading"
    BY DEF Reading
  <2>3. \A q \in Request : pc'[q] = IF q = r THEN "dropped" ELSE pc[q]
    BY <2>1, <2>2
  <2>4. Backlog'
    BY <1>4, <2>2, <2>3, MoveKeepsBacklog DEF ReadFails
  <2>5. \A q \in Request : Counters(q)'
    BY <1>4, <2>2, <2>3 DEF ReadFails, Counters
  <2> QED BY <1>4, <2>1, <2>2, <2>4, <2>5 DEF ReadFails
<1>5. CASE AcceptFails
  BY <1>5 DEF AcceptFails, Backlog, Counters
<1>6. CASE Exit
  BY <1>6 DEF Exit, Backlog, Counters
<1>7. CASE Stopped
  BY <1>7 DEF Stopped, vars, Backlog, Counters
<1> QED BY <1>1, <1>2, <1>3, <1>4, <1>5, <1>6, <1>7

(* What Body may choose.                                                   *)
LEMMA UpdatesTyped ==
  ASSUME NEW r \in Request, TypeOK, NEW f \in Updates(r)
  PROVE  /\ f \in [Shared -> Update]
         /\ \A k \in Shared : f[k] \in BodyUpdates[r][k] /\ Fits(f[k], snap[r][k])
         /\ [k \in Shared |-> Apply(f[k], snap[r][k])] \in [Shared -> Value]
<1>1. f \in [Shared -> UNION {BodyUpdates[r][k] : k \in Shared}]
      /\ \A k \in Shared : f[k] \in BodyUpdates[r][k] /\ Fits(f[k], snap[r][k])
  BY DEF Updates
<1>2. \A k \in Shared : f[k] \in Update /\ snap[r][k] \in Value
  BY <1>1, BodyAssumption DEF TypeOK
<1>3. f \in [Shared -> Update]
  BY <1>1, <1>2
<1>4. \A k \in Shared : Apply(f[k], snap[r][k]) \in Value
  BY <1>1, <1>2, ApplyInValue
<1> QED BY <1>1, <1>3, <1>4

LEMMA ThreadTyped ==
  ASSUME NEW r \in Request, TypeInv, ThreadStep(r)
  PROVE  TypeInv'
<1> USE DEF TypeInv, TypeOK, Threaded, Ended, server
<1>1. pc[r] \in Threaded /\ UNCHANGED <<phase, backlog, outer>> /\ \A q \in Request : q # r => pc'[q] = pc[q]
  BY DEF ThreadStep, Snapshot, Body, BodyFails, BodyPanics, Respond, Merge
<1>2. Backlog'
  BY <1>1, MoveKeepsBacklog
<1>3. CASE Snapshot(r)
  <2>1. at[r] \in Shared /\ pc[r] = "snapshot"
    BY <1>3 DEF Snapshot, Counters
  <2>2. snap' \in [Request -> [Shared -> Value]]
    <3>1. snap' = [snap EXCEPT ![r] = [snap[r] EXCEPT ![at[r]] = cell[at[r]]]]
      BY <1>3 DEF Snapshot
    <3>2. cell[at[r]] \in Value /\ snap[r] \in [Shared -> Value]
      BY <2>1
    <3>3. [snap[r] EXCEPT ![at[r]] = cell[at[r]]] \in [Shared -> Value]
      BY <3>2
    <3> QED BY <3>1, <3>3
  <2>3. CASE at[r] = SharedCount
    <3>1. at' = [at EXCEPT ![r] = 1] /\ pc' = [pc EXCEPT ![r] = "body"]
      BY <1>3, <2>3 DEF Snapshot
    <3>2. 1 \in 1 .. SharedCount + 1
      BY SharedAssumption
    <3>3. \A q \in Request : Counters(q)'
      BY <1>1, <1>3, <2>1, <3>1 DEF Snapshot, Counters
    <3> QED BY <1>1, <1>2, <1>3, <2>2, <3>1, <3>2, <3>3 DEF Snapshot
  <2>4. CASE at[r] # SharedCount
    <3>1. at[r] + 1 \in Shared /\ at[r] + 1 \in 1 .. SharedCount + 1
      BY <2>1, <2>4, SharedAssumption DEF Shared
    <3>2. at' = [at EXCEPT ![r] = @ + 1] /\ pc' = pc
      BY <1>3, <2>4 DEF Snapshot
    <3>3. \A q \in Request : Counters(q)'
      BY <1>1, <1>3, <2>1, <3>1, <3>2 DEF Snapshot, Counters
    <3> QED BY <1>1, <1>2, <1>3, <2>2, <3>1, <3>2, <3>3 DEF Snapshot
  <2> QED BY <2>3, <2>4
<1>4. CASE Body(r)
  <2>1. PICK choice \in Updates(r) :
          /\ work' = [work EXCEPT ![r] = choice]
          /\ fin' = [fin EXCEPT ![r] = [k \in Shared |-> Apply(choice[k], snap[r][k])]]
    BY <1>4 DEF Body
  <2>2. work' \in [Request -> [Shared -> Update]] /\ fin' \in [Request -> [Shared -> Value]]
    BY <2>1, UpdatesTyped
  <2>3. \A q \in Request : Counters(q)'
    BY <1>1, <1>4 DEF Body, Counters
  <2> QED BY <1>1, <1>2, <1>4, <2>2, <2>3 DEF Body
<1>5. CASE BodyFails(r)
  BY <1>1, <1>2, <1>5 DEF BodyFails, Counters
<1>6. CASE BodyPanics(r)
  BY <1>1, <1>2, <1>6 DEF BodyPanics, Counters
<1>7. CASE Respond(r)
  <2>1. SharedCount > 0 => 1 \in Shared
    BY SharedAssumption DEF Shared
  <2> QED BY <1>1, <1>2, <1>7, <2>1 DEF Respond, Counters
<1>8. CASE Merge(r)
  <2>1. at[r] \in Shared /\ pc[r] = "merge" /\ ok[r]
    BY <1>8 DEF Merge, Counters
  <2>2. MergeSharedWriteback(snap[r][at[r]], fin[r][at[r]], cell[at[r]]) \in Value
    BY <2>1, MergeInValue
  <2>3. at[r] + 1 \in 1 .. SharedCount + 1 /\ (at[r] # SharedCount => at[r] + 1 \in Shared)
    BY <2>1, SharedAssumption DEF Shared
  <2>4. \A q \in Request : Counters(q)'
    BY <1>1, <1>8, <2>1, <2>3 DEF Merge, Counters
  <2>5. cell' \in [Shared -> Value] /\ at' \in [Request -> 1 .. SharedCount + 1]
    BY <1>8, <2>1, <2>2, <2>3 DEF Merge
  <2> QED BY <1>1, <1>2, <1>8, <2>4, <2>5 DEF Merge
<1> QED BY <1>3, <1>4, <1>5, <1>6, <1>7, <1>8 DEF ThreadStep

LEMMA TypeInvariant == Spec => []TypeInv
<1>1. TypeInv /\ [Next]_vars => TypeInv'
  <2>1. TypeInv /\ UNCHANGED vars => TypeInv'
    BY DEF TypeInv, TypeOK, Backlog, Counters, vars
  <2> QED BY <2>1, AcceptTyped, ConnectTyped, ListenerTyped, ThreadTyped DEF Next, Listener
<1> QED BY InitTyped, <1>1, PTL DEF Spec

(* Snapshots, final values and cells always hold values, and the listener  *)
(* hands every connection to one thread only.                              *)
THEOREM TypeCorrect == Spec => []TypeOK
  BY TypeInvariant, PTL DEF TypeInv
-----------------------------------------------------------------------------
(* The statements http_listen is meant for: += and list.push on numbers,   *)
(* strings and lists.                                                      *)
Growing ==
  /\ \A r \in Request, k \in Shared : BodyUpdates[r][k] \subseteq Growth
  /\ InitialOuter \subseteq [Shared -> Mergeable]

(* Snapshots keep the variant of their cell, and a thread whose block      *)
(* succeeded holds the outcome of its update on its snapshot.              *)
Tracks(r) ==
  /\ pc[r] = "snapshot" => \A k \in 1 .. at[r] - 1 : SameVariant(snap[r][k], cell[k])
  /\ pc[r] \in {"body", "respond", "merge"} => \A k \in Shared : SameVariant(snap[r][k], cell[k])
  /\ pc[r] \in {"respond", "merge"} /\ ok[r] => \A k \in Shared :
       /\ work[r][k] \in Growth
       /\ Fits(work[r][k], snap[r][k])
       /\ fin[r][k] = Apply(work[r][k], snap[r][k])

GrowInv ==
  /\ phase = "start" => \A k \in Shared : outer[k] \in Mergeable
  /\ phase \notin {"start", "rejected"} => \A k \in Shared : cell[k] \in Mergeable
  /\ \A r \in Request : Tracks(r)

(* What a thread merges into a cell is its update, applied to the cell.    *)
LEMMA MergeStep ==
  ASSUME NEW r \in Request, TypeInv, GrowInv, Merge(r)
  PROVE  /\ at[r] \in Shared /\ ok[r]
         /\ Fits(work[r][at[r]], cell[at[r]])
         /\ cell' = [cell EXCEPT ![at[r]] = Apply(work[r][at[r]], @)]
         /\ SameVariant(cell[at[r]], cell'[at[r]])
<1> DEFINE k == at[r]
<1>1. /\ k \in Shared /\ pc[r] = "merge" /\ ok[r] /\ work[r][k] \in Growth
      /\ Fits(work[r][k], snap[r][k]) /\ SameVariant(snap[r][k], cell[k])
      /\ fin[r][k] = Apply(work[r][k], snap[r][k])
      /\ cell \in [Shared -> Value]
  BY DEF TypeInv, TypeOK, Counters, GrowInv, Tracks, Merge
<1>2. cell' = [cell EXCEPT ![k] = MergeSharedWriteback(snap[r][k], fin[r][k], cell[k])]
  BY <1>1 DEF Merge
<1>3. /\ MergeSharedWriteback(snap[r][k], fin[r][k], cell[k]) = Apply(work[r][k], cell[k])
      /\ SameVariant(snap[r][k], Apply(work[r][k], cell[k]))
  BY <1>1, MergeAppliesUpdate
<1>4. SameVariant(cell[k], Apply(work[r][k], cell[k]))
  <2>1. SameVariant(cell[k], snap[r][k])
    BY <1>1 DEF SameVariant
  <2> QED BY <2>1, <1>3, SameVariantTransitive
<1>5. Fits(work[r][k], cell[k])
  BY <1>1, FitsSameVariant
<1> QED BY <1>1, <1>2, <1>3, <1>4, <1>5
-----------------------------------------------------------------------------
(* GrowInv holds initially and is kept by every step.                      *)
LEMMA InitGrow == Growing /\ Init => GrowInv
  BY DEF Growing, Init, GrowInv, Tracks

LEMMA BindGrow ==
  ASSUME Growing, TypeInv, GrowInv, Bind
  PROVE  GrowInv'
<1>1. \A v \in Mergeable : v \in Value
  BY DEF Mergeable, Value
<1>2. ASSUME NEW k \in Shared PROVE cell'[k] \in Mergeable
  <2>1. outer[k] \in Mergeable /\ cell'[k] = Loaded(outer[k])
    BY DEF Bind, GrowInv
  <2>2. outer[k] # Absent
    BY <1>1, <2>1, NullAssumption
  <2> QED BY <2>1, <2>2 DEF Loaded
<1>3. \A r \in Request : pc[r] = "away"
  BY DEF Bind, TypeInv, Counters
<1>4. \A r \in Request : Tracks(r)'
  BY <1>3 DEF Bind, request, Tracks
<1> QED BY <1>2, <1>4 DEF Bind, GrowInv

(* Steps of the listener and of clients change no value, and at most bring *)
(* one request to the beginning of its thread.                             *)
LEMMA ListenerGrow ==
  ASSUME TypeInv, GrowInv, UNCHANGED <<cell, outer, at, snap, fin, ok, work>>,
         phase' = "start" => phase = "start",
         phase \in {"start", "rejected"} => phase' \in {"start", "rejected"},
         \A r \in Request :
           \/ pc'[r] = pc[r]
           \/ pc'[r] \notin {"snapshot", "body", "respond", "merge"}
           \/ pc[r] = "reading" /\ pc'[r] = IF SharedCount = 0 THEN "body" ELSE "snapshot"
  PROVE  GrowInv'
<1>1. ASSUME NEW r \in Request PROVE Tracks(r)'
  <2>1. Tracks(r) /\ Counters(r)
    BY DEF GrowInv, TypeInv
  <2>2. SharedCount = 0 => Shared = {}
    BY DEF Shared
  <2>3. CASE pc[r] = "reading" /\ pc'[r] = IF SharedCount = 0 THEN "body" ELSE "snapshot"
    <3>1. at[r] = 1 /\ \A k \in 1 .. at[r] - 1 : FALSE
      BY <2>1, <2>3 DEF Counters
    <3> QED BY <2>2, <2>3, <3>1 DEF Tracks
  <2>4. CASE pc'[r] = pc[r]
    BY <2>1, <2>4 DEF Tracks
  <2>5. CASE pc'[r] \notin {"snapshot", "body", "respond", "merge"}
    BY <2>5 DEF Tracks
  <2> QED BY <2>3, <2>4, <2>5
<1> QED BY <1>1 DEF GrowInv

LEMMA OtherSteps ==
  ASSUME TypeInv, GrowInv,
         RejectPort \/ Accept \/ AcceptFails \/ ReadRequest \/ ReadFails \/ Exit \/ Stopped
           \/ \E r \in Request : Connect(r)
  PROVE  /\ GrowInv'
         /\ UNCHANGED <<cell, outer, at, ok, work>>
         /\ phase \in {"start", "rejected"} <=> phase' \in {"start", "rejected"}
<1> USE DEF TypeInv, TypeOK, request, server, vars
<1>1. CASE RejectPort
  BY <1>1, ListenerGrow DEF RejectPort
<1>2. CASE Accept
  <2>1. Head(backlog) \in Request /\ phase = "accept"
    BY <1>2 DEF Accept
  <2>2. \A r \in Request : pc'[r] = pc[r] \/ pc'[r] = "reading"
    BY <1>2, <2>1 DEF Accept
  <2> QED BY <1>2, <2>1, <2>2, ListenerGrow DEF Accept
<1>3. CASE AcceptFails
  BY <1>3, ListenerGrow DEF AcceptFails
<1>4. CASE ReadRequest
  <2>1. \A r \in Request : \/ pc'[r] = pc[r]
                           \/ pc[r] = "reading" /\ pc'[r] = IF SharedCount = 0 THEN "body" ELSE "snapshot"
    BY <1>4 DEF ReadRequest, Reading
  <2> QED BY <1>4, <2>1, ListenerGrow DEF ReadRequest
<1>5. CASE ReadFails
  <2>1. \A r \in Request : pc'[r] = pc[r] \/ pc'[r] = "dropped"
    BY <1>5 DEF ReadFails, Reading
  <2> QED BY <1>5, <2>1, ListenerGrow DEF ReadFails
<1>6. CASE Exit
  BY <1>6, ListenerGrow DEF Exit
<1>7. CASE Stopped
  BY <1>7, ListenerGrow DEF Stopped
<1>8. CASE \E r \in Request : Connect(r)
  <2>1. PICK r \in Request : Connect(r)
    BY <1>8
  <2>2. \A q \in Request : pc'[q] = pc[q] \/ pc'[q] = "waiting"
    BY <2>1 DEF Connect
  <2> QED BY <2>1, <2>2, ListenerGrow DEF Connect
<1> QED BY <1>1, <1>2, <1>3, <1>4, <1>5, <1>6, <1>7, <1>8

LEMMA ThreadGrow ==
  ASSUME NEW r \in Request, Growing, TypeInv, GrowInv, ThreadStep(r)
  PROVE  GrowInv'
<1> USE DEF TypeInv, TypeOK, server
<1>1. /\ pc[r] \in Threaded /\ UNCHANGED <<phase, backlog, outer>>
      /\ phase \notin {"start", "rejected"}
      /\ \A q \in Request : q # r => pc'[q] = pc[q]
  BY DEF ThreadStep, Snapshot, Body, BodyFails, BodyPanics, Respond, Merge, Threaded, Counters
<1>2. \A k \in Shared : cell[k] \in Mergeable
  BY <1>1 DEF GrowInv
<1>3. \A q \in Request : Tracks(q) /\ Counters(q)
  BY DEF GrowInv
<1>4. CASE Snapshot(r)
  <2>1. at[r] \in Shared /\ at[r] \in 1 .. SharedCount /\ pc[r] = "snapshot" /\ ~ok[r]
    BY <1>3, <1>4 DEF Snapshot, Shared, Counters
  <2>2. /\ snap' = [snap EXCEPT ![r][at[r]] = cell[at[r]]]
        /\ cell' = cell /\ fin' = fin /\ ok' = ok /\ work' = work
    BY <1>4 DEF Snapshot
  <2>3. \A k \in 1 .. at[r] : SameVariant(snap'[r][k], cell'[k])
    <3>1. SameVariant(snap'[r][at[r]], cell'[at[r]])
      BY <1>2, <2>1, <2>2, MergeableSame
    <3>2. ASSUME NEW k \in 1 .. at[r] - 1 PROVE SameVariant(snap'[r][k], cell'[k])
      <4>1. k # at[r] /\ snap'[r][k] = snap[r][k]
        BY <2>1, <2>2
      <4>2. SameVariant(snap[r][k], cell[k])
        BY <1>3, <2>1 DEF Tracks
      <4> QED BY <2>2, <4>1, <4>2
    <3>3. \A k \in 1 .. at[r] : k = at[r] \/ k \in 1 .. at[r] - 1
      BY <2>1, SharedAssumption
    <3> QED BY <3>1, <3>2, <3>3
  <2>4. ASSUME NEW q \in Request, q # r PROVE Tracks(q)'
    <3>1. snap'[q] = snap[q] /\ pc'[q] = pc[q] /\ at'[q] = at[q]
      BY <1>1, <1>4, <2>4 DEF Snapshot
    <3> QED BY <1>3, <2>2, <3>1 DEF Tracks
  <2>5. Tracks(r)'
    <3>1. CASE at[r] = SharedCount
      <4>1. pc'[r] = "body" /\ \A k \in Shared : SameVariant(snap'[r][k], cell'[k])
        BY <1>4, <2>3, <3>1 DEF Snapshot, Shared
      <4> QED BY <4>1 DEF Tracks
    <3>2. CASE at[r] # SharedCount
      <4>1. pc'[r] = "snapshot" /\ at'[r] = at[r] + 1
        BY <1>4, <2>1, <3>2 DEF Snapshot
      <4>2. \A k \in 1 .. at'[r] - 1 : SameVariant(snap'[r][k], cell'[k])
        BY <2>1, <2>3, <4>1
      <4> QED BY <4>1, <4>2 DEF Tracks
    <3> QED BY <3>1, <3>2
  <2> QED BY <1>1, <1>2, <2>2, <2>4, <2>5 DEF GrowInv
<1>5. CASE Body(r)
  <2>1. PICK choice \in Updates(r) :
          /\ work' = [work EXCEPT ![r] = choice]
          /\ fin' = [fin EXCEPT ![r] = [k \in Shared |-> Apply(choice[k], snap[r][k])]]
    BY <1>5 DEF Body
  <2>2. \A k \in Shared : /\ choice[k] \in Growth /\ Fits(choice[k], snap[r][k])
                          /\ work'[r][k] = choice[k]
                          /\ fin'[r][k] = Apply(choice[k], snap[r][k])
    BY <2>1, UpdatesTyped DEF Growing
  <2>3. pc[r] = "body" /\ pc'[r] = "respond" /\ UNCHANGED <<cell, at, snap>>
    BY <1>5 DEF Body
  <2>4. \A q \in Request : q # r => work'[q] = work[q] /\ fin'[q] = fin[q] /\ ok'[q] = ok[q]
    BY <1>5, <2>1 DEF Body
  <2>5. ASSUME NEW q \in Request, q # r PROVE Tracks(q)'
    BY <1>1, <1>3, <2>3, <2>4, <2>5 DEF Tracks
  <2>6. Tracks(r)'
    <3>1. \A k \in Shared : SameVariant(snap[r][k], cell[k])
      BY <1>3, <2>3 DEF Tracks
    <3> QED BY <2>2, <2>3, <3>1 DEF Tracks
  <2> QED BY <1>1, <1>2, <2>3, <2>5, <2>6 DEF GrowInv
<1>6. CASE BodyFails(r)
  <2>1. \A q \in Request : Tracks(q)'
    BY <1>1, <1>3, <1>6 DEF BodyFails, Tracks, Counters
  <2> QED BY <1>1, <1>2, <1>6, <2>1 DEF BodyFails, GrowInv
<1>7. CASE BodyPanics(r)
  <2>1. \A q \in Request : Tracks(q)'
    BY <1>1, <1>3, <1>7 DEF BodyPanics, Tracks
  <2> QED BY <1>1, <1>2, <1>7, <2>1 DEF BodyPanics, GrowInv
<1>8. CASE Respond(r)
  <2>1. \A q \in Request : Tracks(q)'
    BY <1>1, <1>3, <1>8 DEF Respond, Tracks
  <2> QED BY <1>1, <1>2, <1>8, <2>1 DEF Respond, GrowInv
<1>9. CASE Merge(r)
  <2>1. at[r] \in Shared /\ SameVariant(cell[at[r]], cell'[at[r]])
    BY <1>9, MergeStep
  <2>2. \A k \in Shared : SameVariant(cell[k], cell'[k])
    <3>1. \A k \in Shared : k # at[r] => cell'[k] = cell[k]
      BY <1>9 DEF Merge
    <3> QED BY <1>2, <2>1, <3>1, MergeableSame
  <2>3. \A k \in Shared : \A v : SameVariant(v, cell[k]) => SameVariant(v, cell'[k])
    BY <2>2, SameVariantTransitive
  <2>4. /\ pc[r] = "merge" /\ pc'[r] \in {"merge", "done"} /\ UNCHANGED <<snap, fin, ok, work>>
        /\ \A q \in Request : q # r => at'[q] = at[q]
    BY <1>9 DEF Merge
  <2>5. \A q \in Request : pc[q] = "snapshot" => \A k \in 1 .. at[q] - 1 : k \in Shared
    BY SharedAssumption DEF Shared
  <2>6. ASSUME NEW q \in Request PROVE Tracks(q)'
    <3>1. pc'[q] = "snapshot" => q # r /\ pc[q] = "snapshot" /\ at'[q] = at[q]
      BY <1>1, <2>4
    <3>2. pc'[q] \in {"body", "respond", "merge"} =>
            pc[q] \in {"body", "respond", "merge"} /\ (pc'[q] = "merge" => pc[q] = "merge")
      BY <1>1, <2>4
    <3>3. pc'[q] = "respond" => pc[q] = "respond"
      BY <1>1, <2>4
    <3> QED BY <1>3, <2>3, <2>4, <2>5, <3>1, <3>2, <3>3 DEF Tracks
  <2>7. \A k \in Shared : cell'[k] \in Mergeable
    BY <2>2, MergeableSame
  <2> QED BY <1>1, <2>6, <2>7 DEF GrowInv
<1> QED BY <1>4, <1>5, <1>6, <1>7, <1>8, <1>9 DEF ThreadStep

LEMMA GrowInvariant == ASSUME Growing PROVE Spec => []GrowInv
<1>1. TypeInv /\ GrowInv /\ [Next]_vars => GrowInv'
  <2>1. GrowInv /\ UNCHANGED vars => GrowInv'
    BY DEF GrowInv, Tracks, vars
  <2> QED BY <2>1, BindGrow, OtherSteps, ThreadGrow DEF Next, Listener
<1>2. Init => GrowInv
  BY InitGrow
<1> QED BY <1>1, <1>2, TypeInvariant, PTL DEF Spec
-----------------------------------------------------------------------------
(* Every step is a step of AtomicUpdates or changes none of its variables. *)
LEMMA ThreadRefines ==
  ASSUME NEW r \in Request, Growing, TypeInv, GrowInv, ThreadStep(r)
  PROVE  Atomic!Next \/ UNCHANGED Atomic!vars
<1> USE DEF TypeInv, TypeOK, server
<1>1. Stage = "open" /\ Stage' = "open" /\ outer' = outer
  BY DEF ThreadStep, Snapshot, Body, BodyFails, BodyPanics, Respond, Merge, Counters, Stage
<1>2. \A p \in Request \X Shared : p[1] \in Request /\ p[2] \in Shared
  OBVIOUS
<1>3. CASE Snapshot(r)
  <2>1. ~ok[r] /\ UNCHANGED <<cell, ok, work>> /\ \A q \in Request : q # r => at'[q] = at[q]
    BY <1>3 DEF Snapshot, Counters
  <2>2. Decided' = Decided /\ Applied' = Applied
    BY <1>2, <2>1 DEF Decided, Applied
  <2> QED BY <1>1, <2>1, <2>2 DEF Atomic!vars
<1>4. CASE Body(r)
  <2>1. PICK choice \in Updates(r) : work' = [work EXCEPT ![r] = choice]
    BY <1>4 DEF Body
  <2>2. pc[r] = "body" /\ at[r] = 1 /\ ~ok[r] /\ UNCHANGED <<cell, at>> /\ ok' = [ok EXCEPT ![r] = TRUE]
    BY <1>4 DEF Body, Counters
  <2>3. work'[r] \in [Shared -> Growth] /\ work' = [work EXCEPT ![r] = work'[r]]
    <3>1. choice \in [Shared -> Update] /\ \A k \in Shared : choice[k] \in Growth
      BY UpdatesTyped DEF Growing
    <3> QED BY <2>1, <3>1
  <2>4. r \notin Decided /\ Decided' = Decided \cup {r}
    BY <2>2 DEF Decided
  <2>5. Applied' = Applied
    <3>1. \A k \in Shared : ~(at[r] > k)
      BY <2>2, SharedAssumption DEF Shared
    <3> QED BY <1>2, <2>2, <3>1 DEF Applied
  <2> QED BY <1>1, <2>2, <2>3, <2>4, <2>5 DEF Atomic!Next, Atomic!Decide
<1>5. CASE BodyFails(r) \/ BodyPanics(r) \/ Respond(r)
  BY <1>1, <1>5 DEF BodyFails, BodyPanics, Respond, Atomic!vars, Decided, Applied
<1>6. CASE Merge(r)
  <2>1. /\ at[r] \in Shared /\ ok[r]
        /\ Fits(work[r][at[r]], cell[at[r]])
        /\ cell' = [cell EXCEPT ![at[r]] = Apply(work[r][at[r]], @)]
    BY <1>6, MergeStep
  <2>2. at' = [at EXCEPT ![r] = @ + 1] /\ UNCHANGED <<ok, work>>
    BY <1>6 DEF Merge
  <2>3. r \in Decided /\ Decided' = Decided
    BY <2>1, <2>2 DEF Decided
  <2>4. <<r, at[r]>> \notin Applied
    BY <2>1 DEF Applied, Shared
  <2>5. Applied' = Applied \cup {<<r, at[r]>>}
    <3>1. ASSUME NEW q \in Request, NEW k \in Shared
          PROVE  (ok'[q] /\ at'[q] > k) <=> ((ok[q] /\ at[q] > k) \/ (q = r /\ k = at[r]))
      BY <2>1, <2>2, SharedAssumption DEF Shared
    <3> QED BY <1>2, <2>1, <3>1 DEF Applied
  <2> QED BY <1>1, <2>1, <2>2, <2>3, <2>4, <2>5 DEF Atomic!Next, Atomic!TakeEffect
<1> QED BY <1>3, <1>4, <1>5, <1>6 DEF ThreadStep

LEMMA StatementRefines ==
  ASSUME TypeInv, GrowInv, Bind \/ ~\E r \in Request : ThreadStep(r), Next
  PROVE  Atomic!Next \/ UNCHANGED Atomic!vars
<1>1. CASE Bind
  <2>1. Stage = "before" /\ Stage' = "open" /\ UNCHANGED <<outer, at, ok, work>>
    BY <1>1 DEF Bind, request, Stage
  <2>2. cell' = [k \in Shared |-> Loaded(outer[k])]
    BY <1>1 DEF Bind
  <2> QED BY <2>1, <2>2 DEF Atomic!Next, Atomic!Open, Decided, Applied
<1>2. CASE ~Bind
  <2>1. /\ UNCHANGED <<cell, outer, at, ok, work>>
        /\ phase \in {"start", "rejected"} <=> phase' \in {"start", "rejected"}
    BY <1>2, OtherSteps DEF Next, Listener
  <2> QED BY <2>1 DEF Atomic!vars, Stage, Decided, Applied
<1> QED BY <1>1, <1>2

(* With growing blocks, http_listen behaves as if every successful request *)
(* made its updates atomically on the shared variables, and the others     *)
(* none (init_http_scope and the write-back in write_http_response), for   *)
(* any number of requests and variables and any schedule.                  *)
THEOREM ImplementsAtomicUpdates == ASSUME Growing PROVE Spec => AtomicSpec
<1>1. TypeInv /\ GrowInv /\ [Next]_vars => [Atomic!Next]_(Atomic!vars)
  <2>1. UNCHANGED vars => UNCHANGED Atomic!vars
    BY DEF vars, Atomic!vars, Stage, Decided, Applied
  <2> QED BY <2>1, StatementRefines, ThreadRefines
<1>2. Init => Atomic!Init
  BY DEF Init, Atomic!Init, Stage, Decided, Applied
<1> QED BY <1>1, <1>2, TypeInvariant, GrowInvariant, PTL DEF Spec, AtomicSpec, Atomic!Spec
-----------------------------------------------------------------------------
(* Every successful request adds up, whatever the variables it shares held *)
(* to begin with.  A value the updates do not fit stays as it was, so the  *)
(* cells and the snapshots are alike what the statement started from.      *)
BlocksGrow == \A r \in Request, k \in Shared : BodyUpdates[r][k] \subseteq Growth

Alike(v, w)  == v = w \/ SameVariant(v, w)
Taken(r, k)  == (pc[r] = "snapshot" /\ at[r] > k) \/ pc[r] = "body" \/ ok[r]
Landed(k)    == {r \in Decided : at[r] > k}
Countable    == NumberValue \cup ListValue
Serving      == phase \notin {"start", "rejected"}

(* A block that succeeded holds the outcome of its update.                 *)
Outcomes ==
  \A r \in Decided :
    /\ \A k \in Shared : /\ work[r][k] \in Growth /\ Fits(work[r][k], snap[r][k])
                         /\ fin[r][k] = Apply(work[r][k], snap[r][k])
    /\ pc[r] = "done" => at[r] = SharedCount + 1

Variants ==
  \A k \in Shared :
    /\ Alike(Loaded(outer[k]), cell[k])
    /\ \A r \in Request : Taken(r, k) => Alike(Loaded(outer[k]), snap[r][k])

Sums ==
  \A k \in Shared :
    cell[k] \in Countable =>
      Total(cell[k]) = Total(Loaded(outer[k])) + SumFunction([r \in Landed(k) |-> Gain(r, k)])

LandInv == /\ IsFiniteSet(Decided) /\ Outcomes
           /\ Serving => Variants /\ Sums

-----------------------------------------------------------------------------
LEMMA AlikeTransitive ==
  ASSUME NEW u, NEW v, NEW w, Alike(u, v), Alike(v, w)
  PROVE  Alike(u, w)
  BY SameVariantTransitive DEF Alike

LEMMA AlikeSymmetric == ASSUME NEW u, NEW v, Alike(u, v) PROVE Alike(v, u)
  BY DEF Alike, SameVariant

LEMMA AlikeCountable ==
  ASSUME NEW v, NEW w, Alike(v, w)
  PROVE  /\ v \in NumberValue <=> w \in NumberValue
         /\ v \in ListValue <=> w \in ListValue
  BY VariantsDisjoint DEF Alike, SameVariant

(* The write-back of an update that fits, whatever the variable holds.     *)
LEMMA MergeAlike ==
  ASSUME NEW u \in Growth, NEW v, NEW w, v \in Value, Alike(v, w), Fits(u, v)
  PROVE  /\ MergeSharedWriteback(v, Apply(u, v), w) = Apply(u, w)
         /\ Alike(w, Apply(u, w))
<1>1. CASE v \in Mergeable
  <2>1. SameVariant(v, w)
    BY <1>1, MergeableSame DEF Alike
  <2>2. SameVariant(w, v)
    BY <2>1 DEF SameVariant
  <2> QED BY <2>1, <2>2, MergeAppliesUpdate, SameVariantTransitive DEF Alike
<1>2. CASE v \notin Mergeable
  <2>1. w = v
    BY <1>2, MergeableSame DEF Alike
  <2>2. u = Keep
    BY <1>2 DEF Growth, Fits, Mergeable
  <2>3. Apply(u, v) = v
    BY <2>2, ApplyCases
  <2>4. MergeSharedWriteback(v, v, v) = v
    BY <1>2 DEF MergeSharedWriteback, Mergeable
  <2> QED BY <2>1, <2>3, <2>4 DEF Alike
<1> QED BY <1>1, <1>2

(* What it adds to the total.                                              *)
LEMMA GainAdds ==
  ASSUME NEW r, NEW k, NEW v \in Countable, work[r][k] \in Growth, Fits(work[r][k], v)
  PROVE  /\ Gain(r, k) \in Int /\ Total(v) \in Int
         /\ Total(Apply(work[r][k], v)) = Total(v) + Gain(r, k)
<1> DEFINE u == work[r][k]
<1>3. u = Keep => Gain(r, k) = 0 /\ Apply(u, v) = v
  <2>1. Keep \notin [add : Int]
    BY DEF Keep
  <2> QED BY <2>1, ApplyCases DEF Gain
<1>1. CASE v \in NumberValue
  <2>1. v.num \in Int /\ Total(v) = v.num
    BY <1>1 DEF NumberValue, Total
  <2>2. CASE u = Keep
    BY <1>3, <2>1, <2>2
  <2>3. CASE u # Keep
    <3>1. u \in [add : Int] /\ Gain(r, k) = u.add
      BY <1>1, <2>3, FittingGrowth DEF Gain
    <3>2. Apply(u, v) = [num |-> v.num + u.add]
      BY <3>1, ApplyCases
    <3>3. Apply(u, v) \in NumberValue /\ Apply(u, v).num = v.num + u.add
      BY <2>1, <3>1, <3>2 DEF NumberValue
    <3> QED BY <2>1, <3>1, <3>3 DEF Total
  <2> QED BY <2>2, <2>3
<1>2. CASE v \in ListValue
  <2>1. v.list \in Seq(Element) /\ Total(v) = Len(v.list) /\ Total(v) \in Int
    BY <1>2, VariantsDisjoint DEF ListValue, Total
  <2>2. CASE u = Keep
    BY <1>3, <2>1, <2>2
  <2>3. CASE u # Keep
    <3>1. u \in [push : Seq(Element)]
      BY <1>2, <2>3, FittingGrowth
    <3>2. Gain(r, k) = Len(u.push) /\ u.push \in Seq(Element)
      BY <2>3, <3>1 DEF Gain
    <3>3. Apply(u, v) = [list |-> v.list \o u.push]
      BY <3>1, ApplyCases
    <3>4. v.list \o u.push \in Seq(Element) /\ Len(v.list \o u.push) = Len(v.list) + Len(u.push)
      BY <2>1, <3>2, ConcatProperties
    <3>5. Apply(u, v) \in ListValue /\ Apply(u, v).list = v.list \o u.push
      <4>1. \A s \in Seq(Element) : [list |-> s] \in ListValue /\ [list |-> s].list = s
        BY DEF ListValue
      <4> QED BY <3>3, <3>4, <4>1
    <3>6. Total(Apply(u, v)) = Len(v.list \o u.push)
      BY <3>5, VariantsDisjoint DEF Total
    <3> QED BY <2>1, <3>2, <3>4, <3>6, LenProperties
  <2> QED BY <2>2, <2>3
<1> QED BY <1>1, <1>2 DEF Countable

(* An update that fits a value fits every value like it.                   *)
LEMMA FitsAlike ==
  ASSUME NEW u \in Growth, NEW v, NEW w, Alike(v, w), Fits(u, v)
  PROVE  Fits(u, w)
  BY FitsSameVariant DEF Alike

-----------------------------------------------------------------------------
(* The steps that change no value.                                         *)
Idle ==
  /\ UNCHANGED <<cell, outer, at, snap, fin, ok, work>>
  /\ Serving' => Serving
  /\ \A r \in Request :
       \/ pc'[r] = pc[r]
       \/ pc'[r] \notin {"snapshot", "body", "done"}
       \/ pc[r] = "reading" /\ pc'[r] = IF SharedCount = 0 THEN "body" ELSE "snapshot"
       \/ pc[r] = "respond" /\ pc'[r] = "done" /\ (ok[r] => SharedCount = 0)

LEMMA IdleSteps ==
  ASSUME TypeInv, [Next]_vars, ~Bind,
         \A r \in Request : ~Snapshot(r) /\ ~Body(r) /\ ~Merge(r)
  PROVE  Idle
<1> USE DEF TypeInv, TypeOK, request, server, vars, Serving
<1>1. CASE RejectPort \/ AcceptFails \/ Exit \/ Stopped \/ UNCHANGED vars
  BY <1>1 DEF RejectPort, AcceptFails, Exit, Stopped, Idle
<1>2. CASE Accept
  <2>1. Head(backlog) \in Request
    BY <1>2 DEF Accept
  <2> QED BY <1>2, <2>1 DEF Accept, Idle
<1>3. CASE ReadRequest
  BY <1>3 DEF ReadRequest, Reading, Idle
<1>4. CASE ReadFails
  BY <1>4 DEF ReadFails, Reading, Idle
<1>5. ASSUME NEW r \in Request, Connect(r) PROVE Idle
  BY <1>5 DEF Connect, Idle
<1>6. ASSUME NEW r \in Request, ThreadStep(r) PROVE Idle
  <2>1. CASE BodyFails(r)
    BY <2>1 DEF BodyFails, Idle
  <2>2. CASE BodyPanics(r)
    BY <2>2 DEF BodyPanics, Idle
  <2>3. CASE Respond(r)
    BY <2>3, SharedAssumption DEF Respond, Idle
  <2> QED BY <1>6, <2>1, <2>2, <2>3 DEF ThreadStep
<1> QED BY <1>1, <1>2, <1>3, <1>4, <1>5, <1>6 DEF Next, Listener

LEMMA SumsFrame ==
  ASSUME NEW k \in Shared, Landed(k)' = Landed(k),
         \A r \in Landed(k) : work'[r][k] = work[r][k]
  PROVE  SumFunction([r \in Landed(k) |-> Gain(r, k)])'
           = SumFunction([r \in Landed(k) |-> Gain(r, k)])
<1>1. \A r \in Landed(k) : Gain(r, k)' = Gain(r, k)
  BY DEF Gain
<1> QED BY <1>1

LEMMA InitLand == Init => LandInv
<1> SUFFICES ASSUME Init PROVE LandInv
  OBVIOUS
<1>1. Decided = {}
  BY DEF Init, Decided
<1> QED BY <1>1, FS_EmptySet DEF Init, LandInv, Outcomes, Serving

LEMMA BindLand ==
  ASSUME TypeInv, LandInv, Bind
  PROVE  LandInv'
<1>1. \A r \in Request : pc[r] = "away" /\ ~ok[r] /\ at[r] = 1
  BY DEF Bind, TypeInv, Counters
<1>2. UNCHANGED <<outer, pc, at, snap, fin, ok, work>> /\ cell' = [k \in Shared |-> Loaded(outer[k])]
  BY DEF Bind, request
<1>3. Decided' = {} /\ \A k \in Shared : Landed(k)' = {}
  BY <1>1, <1>2 DEF Decided, Landed
<1>4. IsFiniteSet(Decided') /\ Outcomes'
  BY <1>3, FS_EmptySet DEF Outcomes
<1>5. Variants'
  BY <1>1, <1>2 DEF Variants, Taken, Alike
<1>6. Sums'
  <2> SUFFICES ASSUME NEW k \in Shared, cell'[k] \in Countable
               PROVE  Total(cell'[k]) = Total(Loaded(outer'[k]))
                                          + SumFunction([r \in Landed(k) |-> Gain(r, k)])'
    BY DEF Sums
  <2>1. SumFunction([r \in Landed(k) |-> Gain(r, k)])' = 0
    <3>1. \A f : DOMAIN f = {} => SumFunction(f) = 0
      BY SumOfNone
    <3> QED BY <1>3, <3>1
  <2>2. cell'[k] = Loaded(outer'[k])
    BY <1>2
  <2>3. Total(cell'[k]) \in Int
    BY VariantsDisjoint, LenProperties DEF Countable, Total, NumberValue, ListValue
  <2> QED BY <2>1, <2>2, <2>3
<1> QED BY <1>4, <1>5, <1>6 DEF LandInv

LEMMA IdleLand ==
  ASSUME TypeInv, LandInv, Idle
  PROVE  LandInv'
<1>1. UNCHANGED <<cell, outer, at, snap, fin, ok, work>>
  BY DEF Idle
<1>2. Decided' = Decided /\ \A k \in Shared : Landed(k)' = Landed(k)
  BY <1>1 DEF Decided, Landed
<1>3. ASSUME NEW r \in Decided PROVE pc'[r] = "done" => at'[r] = SharedCount + 1
  <2>1. r \in Request /\ ok[r] /\ (pc[r] = "done" => at[r] = SharedCount + 1)
    BY DEF LandInv, Outcomes, Decided
  <2>2. /\ pc[r] = "respond" => at[r] = 1
        /\ pc[r] # "reading"
    BY <2>1 DEF TypeInv, Counters
  <2> QED BY <1>1, <2>1, <2>2, SharedAssumption DEF Idle
<1>4. Outcomes'
  BY <1>1, <1>2, <1>3 DEF LandInv, Outcomes
<1>5. ASSUME NEW r \in Request, NEW k \in Shared, Taken(r, k)' PROVE Taken(r, k)
  <2>1. SharedCount # 0 /\ (pc[r] = "reading" => at[r] = 1) /\ ~(1 > k)
    BY SharedAssumption DEF Shared, TypeInv, Counters
  <2> QED BY <1>1, <1>5, <2>1 DEF Taken, Idle
<1>6. Serving => Variants'
  BY <1>1, <1>5 DEF LandInv, Variants
<1>7. Serving => Sums'
  <2>1. \A k \in Shared : SumFunction([r \in Landed(k) |-> Gain(r, k)])'
                            = SumFunction([r \in Landed(k) |-> Gain(r, k)])
    BY <1>1, <1>2, SumsFrame
  <2> QED BY <1>1, <2>1 DEF LandInv, Sums
<1> QED BY <1>2, <1>4, <1>6, <1>7 DEF LandInv, Idle


LEMMA SnapshotLand ==
  ASSUME NEW r \in Request, TypeInv, LandInv, Snapshot(r)
  PROVE  LandInv'
<1> USE DEF TypeInv, TypeOK
<1>1. /\ UNCHANGED <<phase, cell, outer, fin, ok, work>> /\ pc[r] = "snapshot" /\ ~ok[r]
      /\ at[r] \in 1 .. SharedCount /\ snap' = [snap EXCEPT ![r][at[r]] = cell[at[r]]]
      /\ \/ pc' = [pc EXCEPT ![r] = "body"] /\ at' = [at EXCEPT ![r] = 1] /\ at[r] = SharedCount
         \/ pc' = pc /\ at' = [at EXCEPT ![r] = @ + 1]
  BY DEF Snapshot, server, Counters, Shared
<1>2. \A q \in Request : q # r => snap'[q] = snap[q] /\ pc'[q] = pc[q] /\ at'[q] = at[q]
  BY <1>1
<1>3. Decided' = Decided /\ r \notin Decided /\ \A k \in Shared : Landed(k)' = Landed(k)
  BY <1>1, <1>2 DEF Decided, Landed
<1>4. Outcomes'
  <2>1. \A q \in Decided : q # r /\ q \in Request
    BY <1>3 DEF Decided
  <2> QED BY <1>1, <1>2, <1>3, <2>1 DEF LandInv, Outcomes
<1>5. ASSUME Serving, NEW k \in Shared, NEW q \in Request, Taken(q, k)'
      PROVE  Alike(Loaded(outer[k]), snap'[q][k])
  <2>1. Alike(Loaded(outer[k]), cell[k]) /\ (Taken(q, k) => Alike(Loaded(outer[k]), snap[q][k]))
    BY <1>5 DEF LandInv, Variants
  <2>2. CASE q # r
    BY <1>1, <1>2, <1>5, <2>1, <2>2 DEF Taken
  <2>3. CASE q = r /\ k = at[r]
    BY <1>1, <2>1, <2>3
  <2>4. CASE q = r /\ k # at[r]
    <3>1. at[r] > k
      <4>1. CASE at[r] = SharedCount
        BY <2>4, <4>1, SharedAssumption DEF Shared
      <4>2. CASE pc' = pc /\ at'[r] = at[r] + 1
        BY <1>1, <1>5, <2>4, <4>2 DEF Taken, Shared
      <4> QED BY <1>1, <4>1, <4>2
    <3> QED BY <1>1, <2>1, <2>4, <3>1 DEF Taken
  <2> QED BY <2>2, <2>3, <2>4
<1>6. Serving => Variants'
  BY <1>1, <1>5 DEF LandInv, Variants
<1>7. Serving => Sums'
  <2>1. \A k \in Shared : SumFunction([q \in Landed(k) |-> Gain(q, k)])'
                            = SumFunction([q \in Landed(k) |-> Gain(q, k)])
    BY <1>1, <1>3, SumsFrame
  <2> QED BY <1>1, <2>1 DEF LandInv, Sums
<1> QED BY <1>1, <1>3, <1>4, <1>6, <1>7 DEF LandInv, Serving

LEMMA BodyLand ==
  ASSUME BlocksGrow, NEW r \in Request, TypeInv, LandInv, Body(r)
  PROVE  LandInv'
<1> USE DEF TypeInv, TypeOK
<1>1. PICK choice \in Updates(r) :
        /\ work' = [work EXCEPT ![r] = choice]
        /\ fin' = [fin EXCEPT ![r] = [k \in Shared |-> Apply(choice[k], snap[r][k])]]
  BY DEF Body
<1>2. /\ UNCHANGED <<phase, cell, outer, at, snap>> /\ pc[r] = "body" /\ ~ok[r] /\ at[r] = 1
      /\ pc' = [pc EXCEPT ![r] = "respond"] /\ ok' = [ok EXCEPT ![r] = TRUE]
  BY DEF Body, server, Counters
<1>3. \A q \in Request : q # r => work'[q] = work[q] /\ fin'[q] = fin[q] /\ ok'[q] = ok[q] /\ pc'[q] = pc[q]
  BY <1>1, <1>2
<1>4. r \notin Decided /\ Decided' = Decided \cup {r}
  BY <1>2 DEF Decided
<1>5. ASSUME NEW k \in Shared
      PROVE  Landed(k)' = Landed(k) /\ \A q \in Landed(k) : work'[q][k] = work[q][k]
  <2>1. ~(at[r] > k)
    BY <1>2 DEF Shared
  <2> QED BY <1>2, <1>3, <1>4, <2>1 DEF Landed, Decided
<1>6. Outcomes'
  <2>1. ASSUME NEW k \in Shared
        PROVE  /\ work'[r][k] \in Growth /\ Fits(work'[r][k], snap[r][k])
               /\ fin'[r][k] = Apply(work'[r][k], snap[r][k])
    BY <1>1, UpdatesTyped DEF BlocksGrow
  <2>2. \A q \in Decided : q # r /\ q \in Request
    BY <1>4 DEF Decided
  <2> QED BY <1>2, <1>3, <1>4, <2>1, <2>2 DEF LandInv, Outcomes
<1>7. \A q \in Request, k \in Shared : Taken(q, k)' => Taken(q, k)
  BY <1>2, <1>3 DEF Taken
<1>8. Serving => Variants'
  BY <1>2, <1>7 DEF LandInv, Variants
<1>9. Serving => Sums'
  <2>1. \A k \in Shared : SumFunction([q \in Landed(k) |-> Gain(q, k)])'
                            = SumFunction([q \in Landed(k) |-> Gain(q, k)])
    BY <1>5, SumsFrame
  <2> QED BY <1>2, <2>1 DEF LandInv, Sums
<1>10. IsFiniteSet(Decided')
  BY <1>4, FS_AddElement DEF LandInv
<1> QED BY <1>2, <1>6, <1>8, <1>9, <1>10 DEF LandInv, Serving

LEMMA MergeLand ==
  ASSUME NEW r \in Request, NEW k \in Shared, k = at[r], TypeInv, LandInv, Merge(r)
  PROVE  LandInv'
<1> USE DEF TypeInv, TypeOK
<1>1. /\ UNCHANGED <<phase, outer, snap, fin, ok, work>> /\ pc[r] = "merge" /\ ok[r] /\ Serving
      /\ cell' = [cell EXCEPT ![k] = MergeSharedWriteback(snap[r][k], fin[r][k], cell[k])]
      /\ at' = [at EXCEPT ![r] = k + 1]
      /\ pc' = [pc EXCEPT ![r] = IF k = SharedCount THEN "done" ELSE "merge"]
  BY DEF Merge, server, Counters, Serving
<1>2. \A q \in Request : q # r => pc'[q] = pc[q] /\ at'[q] = at[q]
  BY <1>1
<1>3. Decided' = Decided /\ r \in Decided
  BY <1>1 DEF Decided
<1>4. Outcomes'
  <2>1. pc'[r] = "done" => at'[r] = SharedCount + 1
    BY <1>1
  <2> QED BY <1>1, <1>2, <1>3, <2>1 DEF LandInv, Outcomes, Decided
<1>5. /\ work[r][k] \in Growth /\ Fits(work[r][k], snap[r][k]) /\ snap[r][k] \in Value
      /\ fin[r][k] = Apply(work[r][k], snap[r][k])
      /\ Alike(Loaded(outer[k]), cell[k]) /\ Alike(Loaded(outer[k]), snap[r][k])
  BY <1>1, <1>3 DEF LandInv, Outcomes, Variants, Taken
<1>6. Alike(snap[r][k], cell[k])
  BY <1>5, AlikeSymmetric, AlikeTransitive
<1>7. cell'[k] = Apply(work[r][k], cell[k]) /\ Alike(cell[k], cell'[k]) /\ Fits(work[r][k], cell[k])
  <2>1. MergeSharedWriteback(snap[r][k], fin[r][k], cell[k]) = Apply(work[r][k], cell[k])
        /\ Alike(cell[k], Apply(work[r][k], cell[k]))
    BY <1>5, <1>6, MergeAlike
  <2>2. cell'[k] = MergeSharedWriteback(snap[r][k], fin[r][k], cell[k])
    BY <1>1
  <2> QED BY <1>5, <1>6, <2>1, <2>2, FitsAlike
<1>8. Variants'
  <2>1. ASSUME NEW j \in Shared PROVE Alike(Loaded(outer[j]), cell'[j])
    <3>1. CASE j = k
      BY <1>5, <1>7, <3>1, AlikeTransitive
    <3>2. CASE j # k
      BY <1>1, <3>2 DEF LandInv, Variants
    <3> QED BY <3>1, <3>2
  <2>2. \A q \in Request, j \in Shared : Taken(q, j)' => Taken(q, j)
    BY <1>1, <1>2 DEF Taken
  <2> QED BY <1>1, <2>1, <2>2 DEF LandInv, Variants
<1>9. Sums'
  <2> SUFFICES ASSUME NEW j \in Shared, cell'[j] \in Countable
               PROVE  Total(cell'[j]) = Total(Loaded(outer[j]))
                                          + SumFunction([q \in Landed(j) |-> Gain(q, j)])'
    BY <1>1 DEF Sums
  <2>1. CASE j # k
    <3>1. Landed(j)' = Landed(j)
      <4>1. k + 1 > j <=> k > j
        BY <2>1 DEF Shared
      <4> QED BY <1>1, <1>2, <1>3, <4>1 DEF Landed, Decided
    <3>2. SumFunction([q \in Landed(j) |-> Gain(q, j)])' = SumFunction([q \in Landed(j) |-> Gain(q, j)])
      BY <1>1, <3>1, SumsFrame
    <3> QED BY <1>1, <2>1, <3>2 DEF LandInv, Sums
  <2>2. CASE j = k
    <3> DEFINE M == Landed(k)
               f == [q \in M |-> Gain(q, k)]
               g == [q \in M \cup {r} |-> Gain(q, k)]
    <3>1. r \notin M /\ Landed(k)' = M \cup {r}
      <4>1. ~(k > k) /\ k + 1 > k
        BY DEF Shared
      <4> QED BY <1>1, <1>2, <1>3, <4>1 DEF Landed, Decided
    <3>2. IsFiniteSet(M)
      <4>1. M \in SUBSET Decided
        BY DEF Landed
      <4> QED BY <4>1, FS_Subset DEF LandInv
    <3>3. cell[k] \in Countable
      BY <1>7, <2>2, AlikeCountable DEF Countable
    <3>4. ASSUME NEW q \in Decided PROVE Gain(q, k) \in Int
      <4>1. work[q][k] \in Growth /\ Fits(work[q][k], snap[q][k]) /\ Alike(Loaded(outer[k]), snap[q][k])
        BY <1>1 DEF LandInv, Outcomes, Variants, Taken, Decided
      <4>2. snap[q][k] \in Countable
        BY <1>5, <3>3, <4>1, AlikeCountable DEF Countable
      <4> QED BY <4>1, <4>2, GainAdds
    <3>5. /\ Total(cell'[k]) = Total(cell[k]) + Gain(r, k)
          /\ Total(cell[k]) \in Int /\ Gain(r, k) \in Int
      <4>1. /\ cell[k] \in Countable /\ work[r][k] \in Growth /\ Fits(work[r][k], cell[k])
            /\ cell'[k] = Apply(work[r][k], cell[k])
        BY <1>5, <1>7, <3>3
      <4>2. /\ Gain(r, k) \in Int /\ Total(cell[k]) \in Int
            /\ Total(Apply(work[r][k], cell[k])) = Total(cell[k]) + Gain(r, k)
        BY <4>1, GainAdds, Zenon
      <4> QED BY <4>1, <4>2
    <3>6. Total(cell[k]) = Total(Loaded(outer[k])) + SumFunction(f)
      BY <1>1, <3>3 DEF LandInv, Sums
    <3>7. SumFunction([q \in Landed(k) |-> Gain(q, k)])' = SumFunction(g)
      <4>1. \A q \in M \cup {r} : Gain(q, k)' = Gain(q, k)
        BY <1>1 DEF Gain
      <4> QED BY <3>1, <4>1
    <3>8. Total(Loaded(outer[k])) \in Int
      <4>1. Loaded(outer[k]) \in Countable
        BY <1>5, <3>3, AlikeCountable DEF Countable
      <4> QED BY <4>1, VariantsDisjoint, LenProperties DEF Countable, Total, NumberValue, ListValue
    <3>9. \A q \in M \cup {r} : Gain(q, k) \in Int
      BY <1>3, <3>4 DEF Landed
    <3>10. ASSUME NEW h, NEW e, h = f, e = g
           PROVE  SumFunction(e) = SumFunction(h) + Gain(r, k) /\ SumFunction(h) \in Int
      <4>1. /\ DOMAIN h = M /\ DOMAIN e = M \cup {r} /\ e[r] = Gain(r, k)
            /\ (\A q \in DOMAIN h : h[q] = e[q]) /\ (\A q \in DOMAIN e : e[q] \in Int)
        BY <3>9, <3>10
      <4>2. IsFiniteSet(DOMAIN h) /\ r \notin DOMAIN h /\ DOMAIN e = DOMAIN h \cup {r}
        BY <3>1, <3>2, <4>1
      <4>3. SumFunction(e) = SumFunction(h) + e[r] /\ SumFunction(h) \in Int
        <5>1. (\A q \in DOMAIN h : h[q] = e[q]) /\ (\A q \in DOMAIN e : e[q] \in Int)
          BY <4>1
        <5> HIDE DEF TypeInv, TypeOK, M, f, g
        <5> QED BY <4>2, <5>1, SumGrows
      <4> QED BY <4>1, <4>3
    <3>11. SumFunction(g) = SumFunction(f) + Gain(r, k) /\ SumFunction(f) \in Int
      BY <3>10
    <3> HIDE DEF M, f, g
    <3> QED BY <2>2, <3>5, <3>6, <3>7, <3>8, <3>11
  <2> QED BY <2>1, <2>2
<1> QED BY <1>3, <1>4, <1>8, <1>9 DEF LandInv

LEMMA LandInvariant == ASSUME BlocksGrow PROVE Spec => []LandInv
<1>1. TypeInv /\ LandInv /\ [Next]_vars => LandInv'
  <2> SUFFICES ASSUME TypeInv, LandInv, [Next]_vars PROVE LandInv'
    OBVIOUS
  <2>1. ASSUME NEW r \in Request, Merge(r) PROVE LandInv'
    <3>1. at[r] \in Shared
      BY <2>1 DEF Merge, TypeInv, Counters
    <3> QED BY <2>1, <3>1, MergeLand
  <2> QED BY <2>1, BindLand, SnapshotLand, BodyLand, IdleSteps, IdleLand
<1> QED BY <1>1, InitLand, TypeInvariant, PTL DEF Spec

(* Every successful request counts once: for any number of requests and    *)
(* shared variables, whatever these held before, with failing blocks,      *)
(* panics, unreadable requests and a failing accept in any order (the      *)
(* write-back at the end of write_http_response).                          *)
THEOREM SuccessfulRequestsAddUp == ASSUME BlocksGrow PROVE Spec => []AddsUp
<1>1. TypeInv /\ LandInv => AddsUp
  <2> SUFFICES ASSUME TypeInv, LandInv, Quiet, phase \in {"accept", "returned"},
                      NEW k \in Shared, cell[k] \in NumberValue \cup ListValue
               PROVE  Total(cell[k]) = Total(Loaded(outer[k]))
                                         + SumFunction([r \in Decided |-> Gain(r, k)])
    BY DEF AddsUp
  <2>1. ASSUME NEW r \in Decided PROVE at[r] > k
    <3>1. pc[r] = "done"
      BY DEF Decided, Quiet, Threaded, TypeInv, TypeOK, Ended, Counters
    <3>2. at[r] = SharedCount + 1
      BY <3>1 DEF LandInv, Outcomes
    <3> QED BY <3>2, SharedAssumption DEF Shared
  <2>2. Landed(k) = Decided
    BY <2>1 DEF Landed
  <2> QED BY <2>2 DEF LandInv, Serving, Sums, Countable
<1> QED BY <1>1, LandInvariant, TypeInvariant, PTL
==============================================================================
