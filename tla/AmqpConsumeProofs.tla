-------------------------- MODULE AmqpConsumeProofs -------------------------
(***************************************************************************)
(* AmqpConsume for every set of messages, any number of shared variables   *)
(* and any number of runs: messages are processed at least once, repeats   *)
(* need losses, and the shared variables count every block.                *)
(***************************************************************************)
EXTENDS AmqpConsume, SharedMergeProofs

(* Where the deliveries are: what the consumer holds is known to the       *)
(* broker as delivered, or as ready again once the connection is lost.     *)
Holding(m) == m \in message \/ \E i \in 1 .. Len(buffer) : buffer[i] = m

Places ==
  /\ ready \cap unacked = {}
  /\ ready \cup unacked = Message \ (acked \cup rejected)
  /\ ~link => unacked = {}
  /\ \A m \in Message : Holding(m) => m \in IF link THEN unacked ELSE ready
  /\ \A i, j \in 1 .. Len(buffer) : buffer[i] = buffer[j] => i = j
  /\ \A i \in 1 .. Len(buffer) : buffer[i] \notin message

OneMessage == \A x, y \in message : x = y

Phases ==
  /\ OneMessage
  /\ phase \in {"start", "publish", "returned"} => ~link /\ buffer = <<>>
  /\ phase \notin {"body", "merge", "settle"} => message = {}

Outcomes ==
  /\ acked \subseteq success
  /\ \A m \in rejected : ran[m] > 0
  /\ phase \in {"merge", "settle"} => \A m \in message : ran[m] > 0 /\ (ok => m \in success)

(* A message the consumer still has to run the block for.                  *)
Pending(m) == (m \in message /\ phase = "body") \/ \E i \in 1 .. Len(buffer) : buffer[i] = m

Repeats ==
  \A m \in Message :
    /\ ran[m] <= losses + 1
    /\ m \in ready => ran[m] <= losses
    /\ Pending(m) => ran[m] <= losses
    /\ Pending(m) /\ ~link => ran[m] + 1 <= losses

MailInv == Places /\ Phases /\ Outcomes /\ Repeats
-----------------------------------------------------------------------------
(* Types.                                                                  *)
LEMMA NoDeliveries == <<>> \in Seq(Message)
  OBVIOUS

LEMMA GainIsInt == ASSUME NEW u \in Update PROVE Gain(u) \in Int
  BY DEF Gain, Update, Growth

LEMMA UpdatesTyped ==
  ASSUME NEW m \in Message, TypeOK, NEW f \in Updates(m)
  PROVE  /\ f \in [Shared -> Update]
         /\ \A k \in Shared : f[k] \in BodyUpdates[m][k] /\ Fits(f[k], snap[k])
         /\ [k \in Shared |-> Apply(f[k], snap[k])] \in [Shared -> Value]
<1>1. f \in [Shared -> UNION {BodyUpdates[m][k] : k \in Shared}]
      /\ \A k \in Shared : f[k] \in BodyUpdates[m][k] /\ Fits(f[k], snap[k])
  BY DEF Updates
<1>2. \A k \in Shared : f[k] \in Update /\ snap[k] \in Value
  BY <1>1, BodyAssumption DEF TypeOK
<1>3. f \in [Shared -> Update]
  BY <1>1, <1>2
<1>4. \A k \in Shared : Apply(f[k], snap[k]) \in Value
  BY <1>1, <1>2, ApplyInValue
<1> QED BY <1>1, <1>3, <1>4

(* The block's step for the message it is run for.                         *)
BodyOf(m) ==
  /\ \E choice \in Updates(m) : work' = choice /\ fin' = [k \in Shared |-> Apply(choice[k], snap[k])]
  /\ ok' \in BOOLEAN
  /\ ran' = [ran EXCEPT ![m] = @ + 1]
  /\ success' = IF ok' THEN success \cup {m} ELSE success

LEMMA BodySplit == Body => \E m \in message : BodyOf(m)
<1> SUFFICES ASSUME Body PROVE \E m \in message : BodyOf(m)
  OBVIOUS
<1>1. PICK m \in message : \E choice \in Updates(m), good \in BOOLEAN :
        /\ work' = choice
        /\ fin' = [k \in Shared |-> Apply(choice[k], snap[k])]
        /\ ok' = good
        /\ ran' = [ran EXCEPT ![m] = @ + 1]
        /\ success' = IF good THEN success \cup {m} ELSE success
  BY Zenon DEF Body
<1>2. PICK choice \in Updates(m), good \in BOOLEAN :
        /\ work' = choice
        /\ fin' = [k \in Shared |-> Apply(choice[k], snap[k])]
        /\ ok' = good
        /\ ran' = [ran EXCEPT ![m] = @ + 1]
        /\ success' = IF good THEN success \cup {m} ELSE success
  BY <1>1, Zenon
<1>3. \E c \in Updates(m) : work' = c /\ fin' = [k \in Shared |-> Apply(c[k], snap[k])]
  BY <1>2, Zenon
<1> QED BY <1>2, <1>3 DEF BodyOf

LEMMA InitTyped == Init => TypeOK
<1> SUFFICES ASSUME Init PROVE TypeOK
  OBVIOUS
<1>1. Keep \in Update
  BY DEF Update, Growth
<1>2. 1 \in 1 .. MaxRuns
  BY RunsAssumption
<1>3. outer \in [Shared -> Value \cup {Absent}]
  BY OuterAssumption DEF Init
<1>4. /\ ready \in SUBSET Message /\ unacked \in SUBSET Message
      /\ acked \in SUBSET Message /\ rejected \in SUBSET Message /\ message \in SUBSET Message
  BY Zenon DEF Init
<1>7. link \in BOOLEAN /\ buffer \in Seq(Message) /\ phase \in Phase /\ ok \in BOOLEAN
  BY NoDeliveries, Zenon DEF Init, Phase
<1>5. snap \in [Shared -> Value] /\ fin \in [Shared -> Value] /\ cell \in [Shared -> Value]
  BY NullIsValue DEF Init
<1>6. /\ runs \in 1 .. MaxRuns /\ losses \in Nat /\ success \in SUBSET Message
      /\ ran \in [Message -> Nat] /\ gains \in [Shared -> Int]
  BY <1>2 DEF Init
<1> QED BY <1>1, <1>3, <1>4, <1>5, <1>6, <1>7 DEF Init, TypeOK

LEMMA StatementTyped == TypeOK /\ Statement => TypeOK'
<1> SUFFICES ASSUME TypeOK, Statement PROVE TypeOK'
  OBVIOUS
<1> USE DEF TypeOK, Phase, broker, history
<1>1. CASE RejectQueue
  BY <1>1 DEF RejectQueue
<1>2. \A v \in Value \cup {Absent} : Loaded(v) \in Value
  BY NullIsValue DEF Loaded
<1>3. CASE CannotConsume
  BY <1>2, <1>3 DEF CannotConsume, Load
<1>4. CASE Consume
  BY <1>2, <1>4 DEF Consume, Load
<1>5. CASE Receive
  <2>1. Head(buffer) \in Message /\ Tail(buffer) \in Seq(Message)
    BY <1>5 DEF Receive
  <2> QED BY <1>5, <2>1 DEF Receive
<1>6. CASE Body
  <2>1. PICK m \in message : BodyOf(m)
    BY <1>6, BodySplit
  <2>2. work' \in [Shared -> Update] /\ fin' \in [Shared -> Value]
    <3>1. PICK choice \in Updates(m) : work' = choice /\ fin' = [k \in Shared |-> Apply(choice[k], snap[k])]
      BY <2>1, Zenon DEF BodyOf
    <3>2. m \in Message
      BY <2>1
    <3> QED BY <3>1, <3>2, UpdatesTyped
  <2>3. m \in Message /\ ran' \in [Message -> Nat] /\ success' \in SUBSET Message
    BY <2>1 DEF BodyOf
  <2>4. ok' \in BOOLEAN
    BY <2>1, Zenon DEF BodyOf
  <2>5. phase' \in Phase /\ UNCHANGED <<broker, link, buffer, message, snap, cell, outer, runs, losses, base, gains>>
    BY <1>6 DEF Body
  <2> QED BY <2>2, <2>3, <2>4, <2>5
<1>7. CASE Merge
  <2>1. \A k \in Shared : MergeSharedWriteback(snap[k], fin[k], cell[k]) \in Value
    BY MergeInValue
  <2>2. \A k \in Shared : gains[k] + Gain(work[k]) \in Int
    BY GainIsInt
  <2> QED BY <1>7, <2>1, <2>2 DEF Merge
<1>8. CASE Settle
  BY <1>8 DEF Settle
<1>9. CASE EndOfStream
  BY <1>9 DEF EndOfStream
<1>10. CASE Publish
  BY <1>10 DEF Publish
<1> QED BY <1>1, <1>3, <1>4, <1>5, <1>6, <1>7, <1>8, <1>9, <1>10 DEF Statement

LEMMA TakenBackTyped ==
  ASSUME TypeOK, TakenBack
  PROVE  /\ link' \in BOOLEAN /\ losses' \in Nat
         /\ ready' \in SUBSET Message /\ unacked' \in SUBSET Message
         /\ acked' \in SUBSET Message /\ rejected' \in SUBSET Message
<1>1. losses' \in Nat
  BY DEF TypeOK, TakenBack
<1> QED BY <1>1 DEF TypeOK, TakenBack

LEMMA OtherTyped ==
  ASSUME TypeOK, Deliver \/ Disconnect \/ SettleInVain \/ Again \/ Crash \/ Done
  PROVE  TypeOK'
<1> USE DEF TypeOK, Phase, broker, history
<1>1. CASE Deliver
  BY <1>1 DEF Deliver
<1>2. CASE Disconnect
  <2>1. buffer' \in Seq(Message)
    BY <1>2, NoDeliveries, Zenon DEF Disconnect
  <2> QED BY <1>2, <2>1, TakenBackTyped DEF Disconnect
<1>3. CASE SettleInVain
  <2>1. buffer' \in Seq(Message)
    BY <1>3, NoDeliveries, Zenon DEF SettleInVain
  <2> QED BY <1>3, <2>1, TakenBackTyped DEF SettleInVain
<1>4. CASE Again
  BY <1>4, RunsAssumption DEF Again
<1>5. CASE Crash
  <2>1. outer' \in [Shared -> Value \cup {Absent}] /\ base' = outer'
    BY <1>5, OuterAssumption DEF Crash
  <2>2. runs' \in 1 .. MaxRuns /\ buffer' \in Seq(Message) /\ gains' \in [Shared -> Int]
    BY <1>5, RunsAssumption DEF Crash
  <2> QED BY <1>5, <2>1, <2>2, TakenBackTyped DEF Crash
<1>6. CASE Done
  BY <1>6 DEF Done, vars
<1> QED BY <1>1, <1>2, <1>3, <1>4, <1>5, <1>6

(* Cells, snapshots and final values always hold values, and no counter    *)
(* leaves its range.                                                       *)
THEOREM TypeCorrect == Spec => []TypeOK
<1>1. TypeOK /\ [Next]_vars => TypeOK'
  <2>1. TypeOK /\ UNCHANGED vars => TypeOK'
    BY DEF TypeOK, vars, broker, history
  <2> QED BY <2>1, StatementTyped, OtherTyped DEF Next
<1> QED BY InitTyped, <1>1, PTL DEF Spec
-----------------------------------------------------------------------------
(* The mail.                                                               *)
LEMMA InitMail == Init => MailInv
<1> SUFFICES ASSUME Init PROVE MailInv
  OBVIOUS
<1>1. Len(buffer) = 0 /\ message = {} /\ \A i \in 1 .. Len(buffer) : FALSE
  BY DEF Init
<1>2. Places /\ Phases
  BY <1>1 DEF Init, Places, Phases, Holding, OneMessage
<1>3. Outcomes
  BY DEF Init, Outcomes
<1>4. Repeats
  BY <1>1 DEF Init, Repeats, Pending
<1> QED BY <1>2, <1>3, <1>4 DEF MailInv

LEMMA DeliverMail == ASSUME TypeOK, MailInv, Deliver PROVE MailInv'
<1> USE DEF history
<1>1. PICK m \in ready : ready' = ready \ {m} /\ unacked' = unacked \cup {m} /\ buffer' = Append(buffer, m)
  BY DEF Deliver
<1>2. m \in Message /\ m \notin unacked /\ link /\ link' = link
  BY DEF TypeOK, MailInv, Places, Deliver
<1>3. /\ Len(buffer') = Len(buffer) + 1 /\ Len(buffer) \in Nat
      /\ \A i \in 1 .. Len(buffer) : buffer'[i] = buffer[i] /\ buffer[i] \in Message
      /\ buffer'[Len(buffer) + 1] = m
  BY <1>1, <1>2 DEF TypeOK
<1>4. \A i \in 1 .. Len(buffer') : i \in 1 .. Len(buffer) \/ i = Len(buffer) + 1
  BY <1>3
<1>5. ~Holding(m)
  BY <1>2 DEF MailInv, Places
<1>6. \A x \in Message : (\E i \in 1 .. Len(buffer') : buffer'[i] = x)
                           <=> x = m \/ \E i \in 1 .. Len(buffer) : buffer[i] = x
  BY <1>3, <1>4
<1>7. UNCHANGED <<acked, rejected, phase, message, ok, losses, ran, success>>
  BY DEF Deliver
<1>8. Places'
  <2>1. \A x \in Message : Holding(x)' <=> x = m \/ Holding(x)
    BY <1>6, <1>7 DEF Holding
  <2>2. \A x \in Message : Holding(x)' => x \in unacked'
    BY <1>1, <1>2, <2>1 DEF MailInv, Places
  <2>3. \A i, j \in 1 .. Len(buffer') : buffer'[i] = buffer'[j] => i = j
    BY <1>3, <1>4, <1>5 DEF MailInv, Places, Holding
  <2>4. \A i \in 1 .. Len(buffer') : buffer'[i] \notin message'
    BY <1>3, <1>4, <1>5, <1>7 DEF MailInv, Places, Holding
  <2>5. ready' \cap unacked' = {} /\ ready' \cup unacked' = Message \ (acked' \cup rejected')
    BY <1>1, <1>7 DEF MailInv, Places
  <2> QED BY <1>2, <2>2, <2>3, <2>4, <2>5 DEF Places
<1>9. Phases'
  BY <1>2, <1>7 DEF MailInv, Phases, OneMessage
<1>10. Outcomes'
  BY <1>7 DEF MailInv, Outcomes
<1>11. Repeats'
  <2>1. \A x \in Message : Pending(x)' <=> x = m \/ Pending(x)
    BY <1>6, <1>7 DEF Pending
  <2> QED BY <1>1, <1>2, <1>7, <2>1 DEF MailInv, Repeats
<1> QED BY <1>8, <1>9, <1>10, <1>11 DEF MailInv

(* Whatever the consumer still holds of it when the connection is lost.    *)
LEMMA LossMail ==
  ASSUME TypeOK, MailInv, TakenBack, buffer' \in {buffer, <<>>},
         message' \in {message, {}}, UNCHANGED <<ok, ran, success>>,
         phase' \in {"start", "publish", "returned"} => buffer' = <<>>,
         phase' \notin {"body", "merge", "settle"} => message' = {},
         phase' \in {"body", "merge", "settle"} => phase' = phase
  PROVE  MailInv'
<1>1. Len(<<>>) = 0 /\ \A i \in 1 .. 0 : FALSE
  OBVIOUS
<1>2. \A x : (\E i \in 1 .. Len(buffer') : buffer'[i] = x) => \E i \in 1 .. Len(buffer) : buffer[i] = x
  BY <1>1
<1>3. \A x : x \in message' => x \in message
  OBVIOUS
<1>4. /\ ready' = ready \cup unacked /\ unacked' = {} /\ ~link' /\ UNCHANGED <<acked, rejected>>
      /\ losses' = IF unacked = {} THEN losses ELSE losses + 1
  BY DEF TakenBack
<1>5. Places'
  <2>1. \A x \in Message : Holding(x)' => Holding(x)
    BY <1>2, <1>3 DEF Holding
  <2>2. \A x \in Message : Holding(x)' => x \in ready'
    BY <1>4, <2>1 DEF MailInv, Places
  <2>3. /\ \A i, j \in 1 .. Len(buffer') : buffer'[i] = buffer'[j] => i = j
        /\ \A i \in 1 .. Len(buffer') : buffer'[i] \notin message'
    BY <1>1, <1>3 DEF MailInv, Places
  <2> QED BY <1>4, <2>2, <2>3 DEF MailInv, Places
<1>6. Phases'
  BY <1>3, <1>4 DEF MailInv, Phases, OneMessage
<1>7. Outcomes'
  <2>1. acked' \subseteq success' /\ \A m \in rejected' : ran'[m] > 0
    BY <1>4 DEF MailInv, Outcomes
  <2>2. ASSUME phase' \in {"merge", "settle"}, NEW m \in message'
        PROVE  ran'[m] > 0 /\ (ok' => m \in success')
    BY <1>3, <2>2 DEF MailInv, Outcomes
  <2> QED BY <2>1, <2>2 DEF Outcomes
<1>8. Repeats'
  <2>1. \A x \in Message : Pending(x)' => Pending(x) /\ Holding(x)
    BY <1>2, <1>3 DEF Pending, Holding
  <2>2. losses \in Nat /\ \A x \in Message : ran[x] \in Nat
    BY DEF TypeOK
  <2>3. \A x \in Message : Holding(x) => (link /\ x \in unacked) \/ ~link
    BY DEF MailInv, Places
  <2>4. ~link => losses' = losses
    BY <1>4 DEF MailInv, Places
  <2> QED BY <1>4, <2>1, <2>2, <2>3, <2>4 DEF MailInv, Repeats
<1> QED BY <1>5, <1>6, <1>7, <1>8 DEF MailInv

LEMMA ReceiveMail == ASSUME TypeOK, MailInv, Receive PROVE MailInv'
<1> USE DEF broker, history
<1>1. /\ phase = "receive" /\ phase' = "body" /\ Len(buffer) \in Nat /\ Len(buffer) > 0 /\ message = {}
      /\ message' = {buffer[1]} /\ buffer[1] \in Message
  BY DEF Receive, TypeOK, MailInv, Phases, OneMessage
<1>2. /\ Len(buffer') = Len(buffer) - 1
      /\ \A i \in 1 .. Len(buffer') : buffer'[i] = buffer[i + 1] /\ i + 1 \in 1 .. Len(buffer)
  BY <1>1 DEF Receive, TypeOK
<1>3. UNCHANGED <<ready, unacked, acked, rejected, link, ok, losses, ran, success>>
  BY DEF Receive
<1>4. \A i \in 1 .. Len(buffer) : i = 1 \/ i - 1 \in 1 .. Len(buffer')
  BY <1>1, <1>2
<1>5. \A x : (\E i \in 1 .. Len(buffer') : buffer'[i] = x) => \E i \in 1 .. Len(buffer) : buffer[i] = x
  BY <1>2
<1>6. 1 \in 1 .. Len(buffer)
  BY <1>1
<1>7. Places'
  <2>1. \A x \in Message : Holding(x)' => Holding(x)
    BY <1>1, <1>5, <1>6 DEF Holding
  <2>2. \A i \in 1 .. Len(buffer') : buffer'[i] # buffer[1]
    BY <1>2, <1>6 DEF MailInv, Places
  <2>3. \A i, j \in 1 .. Len(buffer') : buffer'[i] = buffer'[j] => i = j
    BY <1>1, <1>2 DEF MailInv, Places
  <2> QED BY <1>1, <1>3, <2>1, <2>2, <2>3 DEF MailInv, Places
<1>8. Phases' /\ Outcomes'
  BY <1>1, <1>3 DEF MailInv, Phases, Outcomes, OneMessage
<1>9. Repeats'
  <2>1. \A x \in Message : Pending(x)' => Pending(x)
    BY <1>1, <1>5, <1>6 DEF Pending
  <2> QED BY <1>3, <2>1 DEF MailInv, Repeats
<1> QED BY <1>7, <1>8, <1>9 DEF MailInv
LEMMA BodyMail == ASSUME TypeOK, MailInv, Body PROVE MailInv'
<1> USE DEF broker, history
<1>1. PICK m \in message : BodyOf(m)
  BY BodySplit
<1>2. /\ phase = "body" /\ phase' = "merge" /\ m \in Message
      /\ UNCHANGED <<ready, unacked, acked, rejected, link, buffer, message, losses>>
  BY DEF Body, TypeOK
<1>3. \A x \in message : x = m
  BY <1>1 DEF MailInv, Phases, OneMessage
<1>4. /\ ran' = [ran EXCEPT ![m] = @ + 1] /\ ran[m] \in Nat /\ losses \in Nat
      /\ \A x \in Message : ran[x] \in Nat /\ ran'[x] = IF x = m THEN ran[m] + 1 ELSE ran[x]
  BY <1>1, <1>2 DEF BodyOf, TypeOK
<1>5. success' = (IF ok' THEN success \cup {m} ELSE success)
  BY <1>1 DEF BodyOf
<1>6. Places'
  BY <1>2 DEF MailInv, Places, Holding
<1>7. Phases'
  BY <1>2 DEF MailInv, Phases, OneMessage
<1>8. Outcomes'
  <2>1. acked' \subseteq success'
    BY <1>2, <1>5 DEF MailInv, Outcomes
  <2>2. \A x \in rejected' : ran'[x] > 0
    BY <1>2, <1>4 DEF MailInv, Outcomes, TypeOK
  <2>3. ran'[m] > 0 /\ (ok' => m \in success')
    BY <1>2, <1>4, <1>5
  <2> QED BY <1>2, <1>3, <2>1, <2>2, <2>3 DEF Outcomes
<1>9. Repeats'
  <2>1. Pending(m) /\ (m \in ready => ~link)
    BY <1>1, <1>2 DEF Pending, MailInv, Places, Holding
  <2>2. ~(Pending(m)')
    BY <1>1, <1>2 DEF Pending, MailInv, Places
  <2>3. \A x \in Message : x # m => (Pending(x)' => Pending(x))
    BY <1>2, <1>3 DEF Pending
  <2> QED BY <1>2, <1>4, <2>1, <2>2, <2>3 DEF MailInv, Repeats
<1> QED BY <1>6, <1>7, <1>8, <1>9 DEF MailInv

LEMMA SettleMail == ASSUME TypeOK, MailInv, Settle PROVE MailInv'
<1> USE DEF history
<1>1. /\ phase = "settle" /\ phase' = "receive" /\ message' = {}
      /\ unacked' = (IF link THEN unacked \ message ELSE unacked)
      /\ acked' = (IF link /\ ok THEN acked \cup message ELSE acked)
      /\ rejected' = (IF link /\ ~ok THEN rejected \cup message ELSE rejected)
      /\ UNCHANGED <<ready, link, buffer, ok, losses, ran, success>>
  BY DEF Settle
<1>2. link => message \subseteq unacked
  BY DEF MailInv, Places, Holding, TypeOK
<1>3. Places'
  <2>1. \A x \in Message : Holding(x)' => Holding(x) /\ x \notin message
    BY <1>1 DEF Holding, MailInv, Places
  <2>2. ready' \cap unacked' = {} /\ ready' \cup unacked' = Message \ (acked' \cup rejected')
    BY <1>1, <1>2 DEF MailInv, Places
  <2>3. ~link' => unacked' = {}
    BY <1>1 DEF MailInv, Places
  <2>4. \A x \in Message : Holding(x)' => x \in IF link' THEN unacked' ELSE ready'
    BY <1>1, <2>1 DEF MailInv, Places
  <2> QED BY <1>1, <2>2, <2>3, <2>4 DEF MailInv, Places
<1>4. Phases'
  BY <1>1 DEF MailInv, Phases, OneMessage
<1>5. Outcomes'
  BY <1>1 DEF MailInv, Outcomes
<1>6. Repeats'
  <2>1. \A x \in Message : Pending(x)' => Pending(x)
    BY <1>1 DEF Pending
  <2> QED BY <1>1, <2>1 DEF MailInv, Repeats
<1> QED BY <1>3, <1>4, <1>5, <1>6 DEF MailInv

(* The other steps of the statement and the script leave the mail alone.   *)
LEMMA OtherMail ==
  ASSUME TypeOK, MailInv,
         RejectQueue \/ CannotConsume \/ Consume \/ Merge \/ EndOfStream \/ Publish \/ Again \/ Done
  PROVE  MailInv'
<1> USE DEF broker, history, vars
<1>1. /\ UNCHANGED <<ready, unacked, acked, rejected, buffer, message, ok, losses, ran, success>>
      /\ (link' = link \/ (phase = "start" /\ link'))
      /\ phase # "body" /\ phase' # "body"
      /\ phase' \in {"merge", "settle"} => phase \in {"merge", "settle"}
      /\ phase' \in {"start", "publish", "returned"} => ~link' /\ buffer = <<>>
      /\ phase' = "settle" \/ message = {} \/ phase' = phase
  BY DEF RejectQueue, CannotConsume, Consume, Merge, EndOfStream, Publish, Again, Done,
         MailInv, Phases, OneMessage
<1>2. link' # link => phase = "start" /\ ~link
  BY <1>1 DEF TypeOK
<1>3. phase = "start" => \A x : ~Holding(x) /\ ~Pending(x)
  BY DEF MailInv, Phases, Holding, Pending
<1>4. Places'
  <2>1. \A x \in Message : Holding(x)' <=> Holding(x)
    BY <1>1 DEF Holding
  <2> QED BY <1>1, <1>2, <1>3, <2>1 DEF MailInv, Places
<1>5. Phases'
  BY <1>1 DEF MailInv, Phases, OneMessage
<1>6. Outcomes'
  BY <1>1 DEF MailInv, Outcomes
<1>7. Repeats'
  <2>1. \A x \in Message : Pending(x)' => Pending(x)
    BY <1>1 DEF Pending
  <2> QED BY <1>1, <1>2, <1>3, <2>1 DEF MailInv, Repeats
<1> QED BY <1>4, <1>5, <1>6, <1>7 DEF MailInv

LEMMA MailInvariant == Spec => []MailInv
<1>1. TypeOK /\ MailInv /\ [Next]_vars => MailInv'
  <2> SUFFICES ASSUME TypeOK, MailInv, [Next]_vars PROVE MailInv'
    OBVIOUS
  <2> USE DEF history
  <2>1. CASE Disconnect
    <3>1. link /\ TakenBack /\ buffer' \in {buffer, <<>>} /\ UNCHANGED <<phase, message, ok, ran, success>>
      BY <2>1 DEF Disconnect
    <3> QED BY <3>1, LossMail DEF MailInv, Phases
  <2>2. CASE SettleInVain
    BY <2>2, LossMail DEF SettleInVain
  <2>3. CASE Crash
    BY <2>3, LossMail DEF Crash
  <2>4. CASE UNCHANGED vars
    BY <2>4 DEF vars, broker, MailInv, Places, Phases, Outcomes, Repeats, Holding, Pending, OneMessage
  <2> QED BY <2>1, <2>2, <2>3, <2>4, DeliverMail, ReceiveMail, BodyMail, SettleMail, OtherMail
          DEF Next, Statement
<1> QED BY InitMail, <1>1, TypeCorrect, PTL DEF Spec

(* No message is forgotten before the block succeeded for it, or ended     *)
(* with an error, whatever connections are lost and processes die (the     *)
(* answer after the block in run_amqp_consumer_loop).                      *)
THEOREM ProcessedAtLeastOnce == Spec => []AtLeastOnce
<1>1. MailInv => AtLeastOnce
  BY DEF MailInv, Places, Outcomes, AtLeastOnce
<1> QED BY <1>1, MailInvariant, PTL

(* A message is processed again only if the broker had to take deliveries  *)
(* back: rejected ones do not return, nor do those in the stream twice.    *)
THEOREM RepeatsOnlyAfterLosses == Spec => []RepeatsNeedLosses
<1>1. TypeOK /\ MailInv => RepeatsNeedLosses
  BY DEF TypeOK, MailInv, Repeats, RepeatsNeedLosses
<1> QED BY <1>1, TypeCorrect, MailInvariant, PTL
-----------------------------------------------------------------------------
(* The counts: blocks that only grow the shared variables.                 *)
Growing == \A m \in Message, k \in Shared : BodyUpdates[m][k] \subseteq Growth

Countable == NumberValue \cup ListValue

(* Where a shared variable lives, and its count relative to the start.     *)
Now(k) == IF phase \in {"start", "returned"} THEN Loaded(outer[k]) ELSE cell[k]
Counts(k) == base[k] \in Countable =>
               /\ SameVariant(base[k], Now(k))
               /\ Total(Now(k)) = Total(base[k]) + gains[k]

(* Nobody else writes a cell between the snapshot and the merge.           *)
CountInv ==
  /\ \A k \in Shared : Counts(k)
  /\ phase \in {"body", "merge"} => snap = cell
  /\ phase = "merge" => \A k \in Shared :
       /\ work[k] \in Growth
       /\ Fits(work[k], snap[k])
       /\ fin[k] = Apply(work[k], snap[k])

LEMMA TotalApply ==
  ASSUME NEW u \in Growth, NEW v \in Countable, Fits(u, v)
  PROVE  Total(Apply(u, v)) = Total(v) + Gain(u)
<1>1. CASE v \in NumberValue
  <2>1. u = Keep \/ u \in [add : Int]
    BY <1>1, FittingGrowth
  <2>2. CASE u \in [add : Int]
    <3>1. Apply(u, v) = [num |-> v.num + u.add] /\ Gain(u) = u.add
      BY <2>2, ApplyCases DEF Gain
    <3>2. [num |-> v.num + u.add] \in NumberValue
      BY <1>1, <2>2 DEF NumberValue
    <3> QED BY <1>1, <3>1, <3>2 DEF Total
  <2>3. CASE u = Keep
    <3>1. Apply(u, v) = v /\ Gain(u) = 0
      BY <2>3, ApplyCases DEF Gain, Keep
    <3>2. v.num \in Int
      BY <1>1 DEF NumberValue
    <3> QED BY <1>1, <3>1, <3>2 DEF Total
  <2> QED BY <2>1, <2>2, <2>3
<1>2. CASE v \in ListValue
  <2>1. u = Keep \/ u \in [push : Seq(Element)]
    BY <1>2, FittingGrowth
  <2>2. v \notin NumberValue /\ v.list \in Seq(Element) /\ Len(v.list) \in Nat
    BY <1>2, VariantsDisjoint DEF ListValue
  <2>3. CASE u \in [push : Seq(Element)]
    <3>1. Apply(u, v) = [list |-> v.list \o u.push] /\ Gain(u) = Len(u.push)
      BY <2>3, ApplyCases DEF Gain
    <3>2. u.push \in Seq(Element)
      BY <2>3
    <3>3. v.list \o u.push \in Seq(Element) /\ Len(v.list \o u.push) = Len(v.list) + Len(u.push)
      BY <2>2, <3>2, ConcatProperties
    <3>4. [list |-> v.list \o u.push] \in ListValue
      BY <3>3 DEF ListValue
    <3>5. [list |-> v.list \o u.push] \notin NumberValue
      BY <3>4, VariantsDisjoint
    <3> QED BY <2>2, <3>1, <3>3, <3>5 DEF Total
  <2>4. CASE u = Keep
    <3>1. Apply(u, v) = v /\ Gain(u) = 0
      BY <2>4, ApplyCases DEF Gain, Keep
    <3> QED BY <2>2, <3>1 DEF Total
  <2> QED BY <2>1, <2>3, <2>4
<1> QED BY <1>1, <1>2 DEF Countable

LEMMA CountsInit == Init => CountInv
<1> SUFFICES ASSUME Init PROVE CountInv
  OBVIOUS
<1>1. ASSUME NEW k \in Shared PROVE Counts(k)
  <2>1. Now(k) = Loaded(base[k]) /\ gains[k] = 0
    BY DEF Init, Now
  <2>2. base[k] \in Countable => base[k] \in Value /\ base[k] # Absent
    BY NullAssumption DEF Countable, Value
  <2>3. base[k] \in Countable => Loaded(base[k]) = base[k]
    BY <2>2 DEF Loaded
  <2>4. base[k] \in Countable => Total(base[k]) \in Int /\ SameVariant(base[k], base[k])
    BY LenProperties DEF Countable, Total, NumberValue, ListValue, SameVariant
  <2> QED BY <2>1, <2>3, <2>4 DEF Counts
<1> QED BY <1>1 DEF Init, CountInv

(* A step that moves a variable to another place, or does nothing to it.   *)
LEMMA CountsKept ==
  ASSUME CountInv, UNCHANGED <<base, gains>>, \A k \in Shared : Now(k)' = Now(k)
  PROVE  \A k \in Shared : Counts(k)'
  BY DEF CountInv, Counts

LEMMA StatementCounts == ASSUME Growing, TypeOK, CountInv, Statement PROVE CountInv'
<1> USE DEF broker, history
<1>1. CASE RejectQueue \/ CannotConsume \/ Consume
  BY <1>1, CountsKept DEF RejectQueue, CannotConsume, Consume, Load, Now, CountInv
<1>2. CASE Receive \/ Settle \/ EndOfStream
  BY <1>2, CountsKept DEF Receive, Settle, EndOfStream, Now, CountInv
<1>3. CASE Body
  <2>1. PICK m \in message : BodyOf(m)
    BY <1>3, BodySplit
  <2>2. PICK choice \in Updates(m) : work' = choice /\ fin' = [k \in Shared |-> Apply(choice[k], snap[k])]
    BY <2>1, Zenon DEF BodyOf
  <2>3. m \in Message
    BY <2>1 DEF TypeOK
  <2>4. \A k \in Shared : choice[k] \in Growth /\ Fits(choice[k], snap[k])
    BY <2>2, <2>3, UpdatesTyped DEF Growing
  <2>5. phase = "body" /\ phase' = "merge" /\ UNCHANGED <<snap, cell, outer, base, gains>>
    BY <1>3 DEF Body
  <2>6. \A k \in Shared : Counts(k)'
    BY <2>5, CountsKept DEF Now
  <2> QED BY <2>2, <2>4, <2>5, <2>6 DEF CountInv
<1>4. CASE Merge
  <2>1. /\ phase = "merge" /\ phase' = "settle" /\ base' = base
        /\ \A k \in Shared : cell'[k] = MergeSharedWriteback(snap[k], fin[k], cell[k])
        /\ \A k \in Shared : gains'[k] = gains[k] + Gain(work[k])
    BY <1>4 DEF Merge
  <2>2. ASSUME NEW k \in Shared, base[k] \in Countable
        PROVE  SameVariant(base[k], Now(k)') /\ Total(Now(k)') = Total(base[k]) + gains'[k]
    <3>1. /\ SameVariant(base[k], cell[k]) /\ Total(cell[k]) = Total(base[k]) + gains[k]
          /\ Now(k)' = cell'[k]
      BY <2>1, <2>2 DEF CountInv, Counts, Now
    <3>2. /\ snap[k] = cell[k] /\ work[k] \in Growth /\ Fits(work[k], cell[k])
          /\ fin[k] = Apply(work[k], cell[k])
      BY <2>1 DEF CountInv
    <3>3. cell[k] \in Countable /\ SameVariant(cell[k], cell[k])
      BY <2>2, <3>1, VariantsDisjoint DEF SameVariant, Countable
    <3>4. cell'[k] = Apply(work[k], cell[k]) /\ SameVariant(cell[k], cell'[k])
      BY <2>1, <3>2, <3>3, MergeAppliesUpdate
    <3>5. Total(cell'[k]) = Total(cell[k]) + Gain(work[k])
      BY <3>2, <3>3, <3>4, TotalApply
    <3>6. Total(base[k]) \in Int
      BY <2>2, LenProperties DEF Countable, Total, NumberValue, ListValue
    <3>7. gains[k] \in Int /\ Gain(work[k]) \in Int
      BY GainIsInt DEF TypeOK
    <3> QED BY <2>1, <3>1, <3>4, <3>5, <3>6, <3>7, SameVariantTransitive
  <2> QED BY <2>1, <2>2 DEF CountInv, Counts
<1>5. CASE Publish
  <2>1. phase = "publish" /\ phase' = "returned" /\ outer' = cell /\ UNCHANGED <<base, gains>>
    BY <1>5 DEF Publish
  <2>2. \A k \in Shared : cell[k] # Absent
    BY NullAssumption DEF TypeOK
  <2>3. \A k \in Shared : Now(k)' = Now(k)
    BY <2>1, <2>2 DEF Now, Loaded
  <2> QED BY <2>1, <2>3, CountsKept DEF CountInv
<1> QED BY <1>1, <1>2, <1>3, <1>4, <1>5 DEF Statement

LEMMA OtherCounts ==
  ASSUME TypeOK, CountInv, Deliver \/ Disconnect \/ SettleInVain \/ Again \/ Crash \/ Done
  PROVE  CountInv'
<1> USE DEF broker, history, vars
<1>1. CASE Deliver \/ Disconnect \/ SettleInVain \/ Again \/ Done
  BY <1>1, CountsKept DEF Deliver, Disconnect, SettleInVain, TakenBack, Again, Done, Now, CountInv
<1>2. CASE Crash
  <2>1. phase' = "start" /\ base' = outer' /\ \A k \in Shared : gains'[k] = 0
    BY <1>2 DEF Crash
  <2>2. ASSUME NEW k \in Shared, base'[k] \in Countable
        PROVE  SameVariant(base'[k], Now(k)') /\ Total(Now(k)') = Total(base'[k]) + gains'[k]
    <3>1. base'[k] \in Value /\ base'[k] # Absent
      BY <2>2, NullAssumption DEF Countable, Value
    <3>2. Now(k)' = base'[k]
      BY <2>1, <3>1 DEF Now, Loaded
    <3>3. Total(base'[k]) \in Int /\ SameVariant(base'[k], base'[k])
      BY <2>2, LenProperties DEF Countable, Total, NumberValue, ListValue, SameVariant
    <3> QED BY <2>1, <3>2, <3>3
  <2> QED BY <2>1, <2>2 DEF CountInv, Counts
<1> QED BY <1>1, <1>2

(* With blocks that only grow them, the shared variables count every block *)
(* that ended since the process started: failed ones and repeated ones     *)
(* too, over all runs of the statement and however it ends.                *)
THEOREM CountsEveryBlock == ASSUME Growing PROVE Spec => []EveryBlockCounts
<1>1. TypeOK /\ CountInv /\ [Next]_vars => CountInv'
  <2>1. CountInv /\ UNCHANGED vars => CountInv'
    BY DEF CountInv, Counts, Now, vars, history
  <2> QED BY <2>1, StatementCounts, OtherCounts DEF Next
<1>2. CountInv => EveryBlockCounts
  BY DEF CountInv, Counts, Now, Countable, EveryBlockCounts
<1> QED BY <1>1, <1>2, CountsInit, TypeCorrect, PTL DEF Spec
==============================================================================
