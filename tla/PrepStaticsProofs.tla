-------------------------- MODULE PrepStaticsProofs --------------------------
(***************************************************************************)
(* The properties of PrepStatics hold for every set of programs, statics   *)
(* and files.  The invariant says what executing blocks in order           *)
(* establishes: a block that was passed over or executed has left all of   *)
(* its statics, and a block being executed those of the statements passed. *)
(***************************************************************************)
EXTENDS PrepStatics, TLAPS

First == IF place = "compile" THEN 1 ELSE Left

(* The statics of the blocks behind, since the first on this machine.      *)
Behind ==
  /\ block >= First
  /\ \A b \in First .. block - 1 : b <= Len(blocks) => \A n \in Sets(blocks[b]) : Has(n)

Passed ==
  block <= Len(blocks) =>
    \A i \in 1 .. pos - 1 : blocks[block][i].op = "set" => Has(blocks[block][i].name)

(* No variable of a block is left between blocks.                          *)
Scoped ==
  /\ ended = "no" /\ pos = 0 => ~local
  /\ ended = "main" => ~local /\ block > Len(blocks)

(* What a pre-execution that got through has left to the executable.       *)
Complete ==
  place = "run" /\ before = "main" /\ ended # "panicked" =>
    \A b \in 1 .. Len(blocks) : \A n \in Sets(blocks[b]) : Has(n)

NotAgain ==
  /\ place = "compile" => ~reran
  /\ place = "run" /\ before = "main" /\ SetsDirectly => pos = 0 /\ ~reran

IInv == TypeOK /\ Behind /\ Passed /\ Scoped /\ Complete /\ NotAgain /\ CapturedKept

LEMMA CurrentIsStatement ==
  ASSUME TypeOK, Executing
  PROVE  Current \in Statement /\ blocks[block] \in Seq(Statement) /\ Len(blocks[block]) \in Nat
<1>1. block \in 1 .. Len(blocks)
  BY DEF TypeOK, Executing
<1>2. blocks[block] \in Seq(Statement)
  BY <1>1 DEF TypeOK
<1>3. Len(blocks[block]) \in Nat /\ pos \in 1 .. Len(blocks[block])
  BY <1>2 DEF TypeOK, Executing
<1> QED BY <1>2, <1>3 DEF Current

(* What the statements of a block have in common: statics only join.       *)
Grows ==
  /\ UNCHANGED <<engine, place, files, blocks, captured, before>>
  /\ ended = "panicked" => ended' = "panicked"
  /\ statics' \in [Name -> Value \cup {Absent}]
  /\ \A n \in Name : Has(n) => statics'[n] = statics[n]

LEMMA SetNames ==
  ASSUME TypeOK, NEW b \in 1 .. Len(blocks)
  PROVE  Sets(blocks[b]) \subseteq Name /\ Len(blocks[b]) \in Nat
<1>1. blocks[b] \in Seq(Statement)
  BY DEF TypeOK
<1>2. ASSUME NEW i \in 1 .. Len(blocks[b]) PROVE blocks[b][i].name \in Name
  <2>1. blocks[b][i] \in Statement
    BY <1>1
  <2> QED BY <2>1 DEF Statement
<1> QED BY <1>1, <1>2 DEF Sets

LEMMA GrownKept ==
  ASSUME IInv, Grows
  PROVE  Complete' /\ CapturedKept'
<1>1. \A b \in 1 .. Len(blocks) : Sets(blocks[b]) \subseteq Name
  BY SetNames DEF IInv
<1>2. Complete'
  <2>1. ASSUME place = "run", before = "main", ended # "panicked",
               NEW b \in 1 .. Len(blocks), NEW n \in Sets(blocks[b])
        PROVE  Has(n)'
    <3>1. n \in Name /\ Has(n)
      BY <1>1, <2>1 DEF IInv, Complete
    <3> QED BY <3>1 DEF Has, Grows
  <2>2. blocks' = blocks /\ place' = place /\ before' = before /\ (ended = "panicked" => ended' = "panicked")
    BY DEF Grows
  <2> QED BY <2>1, <2>2 DEF Complete, Sets
<1>3. CapturedKept'
  <2>1. ASSUME place = "run", ended # "panicked", NEW n \in Name, captured[n] # Absent
        PROVE  Has(n)' /\ (captured[n].kind \in Lossless /\ Alone(n) => statics'[n] = captured[n])
    BY <2>1 DEF IInv, CapturedKept, Grows, Has
  <2>2. \A n \in Name : Alone(n)' <=> Alone(n)
    BY DEF Grows, Alone, Key
  <2>3. Lossless' = Lossless
    BY DEF Grows, Lossless
  <2> QED BY <2>1, <2>2, <2>3 DEF CapturedKept, Grows
<1> QED BY <1>2, <1>3

(* The blocks behind keep their statics as long as no block is added.      *)
LEMMA GrownBehind ==
  ASSUME IInv, Grows, block' = block
  PROVE  Behind'
<1>1. \A b \in 1 .. Len(blocks) : Sets(blocks[b]) \subseteq Name
  BY SetNames DEF IInv
<1>2. First \in Nat /\ First >= 1 /\ First' = First
  BY DEF IInv, TypeOK, First, Left, Grows
<1>3. block \in Nat /\ block >= First
  BY DEF IInv, TypeOK, Behind
<1>4. ASSUME NEW b \in First .. block - 1, b <= Len(blocks), NEW n \in Sets(blocks[b])
      PROVE  Has(n)'
  <2>1. b \in 1 .. Len(blocks)
    BY <1>2, <1>3, <1>4 DEF IInv, TypeOK
  <2>2. n \in Name /\ Has(n)
    BY <1>1, <1>4, <2>1 DEF IInv, Behind
  <2> QED BY <2>2 DEF Has, Grows
<1> QED BY <1>2, <1>3, <1>4 DEF Behind, Grows, Sets
-----------------------------------------------------------------------------
(* An executable of which a block was executed is not one whose            *)
(* pre-execution got through and whose blocks all set a static.            *)
LEMMA NoneLeft ==
  ASSUME IInv, place = "run", before = "main", ended = "no", SetsDirectly, block <= Len(blocks)
  PROVE  Preset(blocks[block])
<1>1. block \in 2 .. Len(blocks)
  BY DEF IInv, TypeOK, Behind, First, Left
<1>2. Sets(blocks[block]) # {}
  BY <1>1 DEF SetsDirectly
<1>3. block \in 1 .. Len(blocks)
  BY <1>1 DEF IInv, TypeOK
<1>4. \A n \in Sets(blocks[block]) : Has(n)
  BY <1>3 DEF IInv, Complete
<1> QED BY <1>2, <1>4 DEF Preset

LEMMA SkipKeeps ==
  ASSUME IInv, SkipBlock
  PROVE  IInv'
<1> USE DEF IInv
<1>1. Grows
  BY DEF SkipBlock, Kept, Grows, TypeOK
<1>2. Complete' /\ CapturedKept'
  BY <1>1, GrownKept
<1>3. TypeOK'
  <2>1. block \in Nat /\ Len(blocks) \in Nat /\ block + 1 \in Nat \ {0}
    BY DEF TypeOK
  <2>2. pos' \in 0 .. IF block' <= Len(blocks') THEN Len(blocks'[block']) + 1 ELSE 0
    <3>1. CASE block + 1 <= Len(blocks)
      <4>1. Len(blocks[block + 1]) \in Nat
        BY <3>1, <2>1, SetNames
      <4> QED BY <2>1, <3>1, <4>1 DEF SkipBlock, Kept
    <3>2. CASE ~(block + 1 <= Len(blocks))
      BY <2>1, <3>2 DEF SkipBlock, Kept
    <3> QED BY <3>1, <3>2
  <2> QED BY <2>1, <2>2 DEF TypeOK, SkipBlock, Kept
<1>4. Behind'
  <2>1. First' = First /\ block' = block + 1 /\ block \in Nat /\ block >= First
    BY DEF SkipBlock, Kept, First, Left, Behind, TypeOK
  <2>2. \A n \in Sets(blocks[block]) : Has(n)
    BY DEF SkipBlock, Preset
  <2>3. First \in Nat
    BY DEF First, Left, TypeOK
  <2>4. ASSUME NEW b \in First .. block, b <= Len(blocks), NEW n \in Sets(blocks[b])
        PROVE  Has(n)
    BY <2>1, <2>2, <2>3, <2>4 DEF Behind
  <2>5. blocks' = blocks /\ statics' = statics
    BY DEF SkipBlock, Kept
  <2> QED BY <2>1, <2>3, <2>4, <2>5 DEF Behind, Has, Sets
<1>5. Passed' /\ Scoped'
  BY DEF SkipBlock, Kept, Passed, Scoped
<1>6. NotAgain'
  BY DEF SkipBlock, Kept, NotAgain, SetsDirectly
<1> QED BY <1>2, <1>3, <1>4, <1>5, <1>6

LEMMA EnterKeeps ==
  ASSUME IInv, EnterBlock
  PROVE  IInv'
<1> USE DEF IInv
<1>1. Grows
  BY DEF EnterBlock, Kept, Grows, TypeOK
<1>2. Complete' /\ CapturedKept'
  BY <1>1, GrownKept
<1>3. TypeOK'
  <2>1. block \in 1 .. Len(blocks)
    BY DEF TypeOK, EnterBlock
  <2>2. Len(blocks[block]) \in Nat
    BY <2>1, SetNames
  <2> QED BY <2>1, <2>2 DEF TypeOK, EnterBlock, Kept
<1>4. Behind'
  BY <1>1, GrownBehind DEF EnterBlock
<1>5. Passed' /\ Scoped'
  BY DEF EnterBlock, Kept, Passed, Scoped
<1>6. NotAgain'
  <2>1. ~(place = "run" /\ before = "main" /\ SetsDirectly)
    BY NoneLeft DEF EnterBlock
  <2> QED BY <2>1 DEF EnterBlock, Kept, NotAgain, SetsDirectly
<1> QED BY <1>2, <1>3, <1>4, <1>5, <1>6

(* A statement of a block, executed to its end.                            *)
LEMMA StatementKeeps ==
  ASSUME IInv, Executing, Grows, local' \in BOOLEAN, Went,
         Current.op = "set" => statics'[Current.name] # Absent
  PROVE  IInv'
<1> USE DEF IInv
<1>1. Complete' /\ CapturedKept'
  BY GrownKept
<1>2. Current \in Statement /\ Len(blocks[block]) \in Nat /\ pos \in 1 .. Len(blocks[block])
  BY CurrentIsStatement DEF Executing, TypeOK
<1>3. TypeOK'
  BY <1>2 DEF TypeOK, Grows, Went, Kept, Executing
<1>4. Behind'
  BY GrownBehind DEF Went
<1>5. Passed'
  <2>1. ASSUME NEW i \in 1 .. pos, blocks[block][i].op = "set"
        PROVE  Has(blocks[block][i].name)'
    <3>1. CASE i = pos
      BY <2>1, <3>1 DEF Current, Went, Kept, Has
    <3>2. CASE i # pos
      <4>1. i \in 1 .. pos - 1 /\ i \in 1 .. Len(blocks[block])
        BY <1>2, <3>2
      <4>2. Has(blocks[block][i].name)
        BY <2>1, <4>1 DEF Passed, Executing
      <4>3. blocks[block] \in Seq(Statement)
        BY CurrentIsStatement
      <4>4. blocks[block][i].name \in Name
        <5>1. blocks[block][i] \in Statement
          BY <4>1, <4>3
        <5> QED BY <5>1 DEF Statement
      <4> QED BY <4>2, <4>4 DEF Has, Grows, Went, Kept
    <3> QED BY <3>1, <3>2
  <2>2. pos' = pos + 1 /\ block' = block /\ blocks' = blocks
    BY DEF Went, Kept
  <2> QED BY <1>2, <2>1, <2>2 DEF Passed, Has
<1>6. Scoped'
  BY <1>2 DEF Scoped, Went, Executing
<1>7. NotAgain'
  <2>1. ~(place = "run" /\ before = "main" /\ SetsDirectly)
    BY <1>2 DEF NotAgain
  <2> QED BY <2>1 DEF Went, Kept, NotAgain, SetsDirectly
<1> QED BY <1>1, <1>3, <1>4, <1>5, <1>6, <1>7

LEMMA SetKeeps ==
  ASSUME IInv, Set
  PROVE  IInv'
<1>1. Current \in Statement /\ Current.name \in Name /\ Computed \in Value
  <2>1. Current \in Statement
    BY CurrentIsStatement DEF IInv, Set
  <2> QED BY <2>1 DEF IInv, TypeOK, Statement, Computed, Value
<1>2. statics' \in [Name -> Value \cup {Absent}]
  BY <1>1 DEF Set, IInv, TypeOK
<1>3. Grows
  BY <1>1, <1>2 DEF Set, Has, Grows, Went, Kept, IInv, TypeOK
<1>4. statics'[Current.name] # Absent
  BY <1>1, AbsentAssumption DEF Set, Has, IInv, TypeOK
<1> QED BY <1>3, <1>4, StatementKeeps DEF Set, IInv, TypeOK

LEMMA TryKeeps ==
  ASSUME IInv, Try
  PROVE  IInv'
<1> DEFINE n == IF Has(Current.name) \/ Reads THEN Current.name ELSE Current.other
           v == [Computed EXCEPT !.kind = IF Reads THEN @ ELSE "plain"]
<1>1. Current \in Statement
  BY CurrentIsStatement DEF IInv, Try
<1>2. n \in Name /\ v \in Value
  BY <1>1 DEF IInv, TypeOK, Statement, Computed, Value, Kind
<1>3. statics' = IF Has(n) THEN statics ELSE [statics EXCEPT ![n] = v]
  BY DEF Try
<1> HIDE DEF n, v
<1>4. statics' \in [Name -> Value \cup {Absent}]
  BY <1>2, <1>3 DEF IInv, TypeOK
<1>5. Grows
  BY <1>2, <1>3, <1>4 DEF Try, Has, Grows, Went, Kept, IInv, TypeOK
<1>6. Current.op # "set"
  BY DEF Try
<1> QED BY <1>5, <1>6, StatementKeeps DEF Try, IInv, TypeOK

LEMMA UseKeeps ==
  ASSUME IInv, Use
  PROVE  IInv'
<1>1. Grows
  BY DEF Use, Grows, Went, Kept, IInv, TypeOK
<1> QED BY <1>1, StatementKeeps DEF Use, IInv, TypeOK

(* An error, exit or terminate: the blocks are not executed any further.   *)
LEMMA StopKeeps ==
  ASSUME IInv, Leave \/ Terminate
  PROVE  IInv'
<1> USE DEF IInv
<1>1. /\ Executing /\ ended' \in {"failed", "exited", "stopped"}
      /\ Kept /\ statics' = statics /\ block' = block /\ pos' = pos
      /\ local' \in BOOLEAN /\ reran' = (reran \/ place = "run")
  BY DEF Leave, Terminate, TypeOK
<1>2. Grows
  BY <1>1 DEF Grows, Kept, TypeOK, Executing
<1>3. Complete' /\ CapturedKept' /\ Behind'
  BY <1>1, <1>2, GrownKept, GrownBehind
<1>4. TypeOK'
  BY <1>1 DEF TypeOK, Kept, End
<1>5. Passed' /\ Scoped'
  BY <1>1 DEF Passed, Scoped, Kept, Has
<1>6. NotAgain'
  <2>1. pos # 0
    BY <1>1 DEF Executing, TypeOK
  <2>2. ~(place = "run" /\ before = "main" /\ SetsDirectly)
    BY <2>1 DEF NotAgain
  <2> QED BY <1>1, <2>2 DEF Kept, NotAgain, SetsDirectly
<1> QED BY <1>3, <1>4, <1>5, <1>6

LEMMA EndOfBlockKeeps ==
  ASSUME IInv, EndOfBlock
  PROVE  IInv'
<1> USE DEF IInv
<1>1. Grows
  BY DEF EndOfBlock, Kept, Grows, TypeOK
<1>2. Complete' /\ CapturedKept'
  BY <1>1, GrownKept
<1>3. block \in 1 .. Len(blocks) /\ block \in Nat /\ Len(blocks[block]) \in Nat /\ pos \in Nat
  <2>1. block \in 1 .. Len(blocks)
    BY DEF TypeOK, EndOfBlock
  <2>2. Len(blocks[block]) \in Nat
    BY <2>1, SetNames
  <2> QED BY <2>1, <2>2 DEF TypeOK
<1>4. TypeOK'
  <2>1. pos' \in 0 .. IF block' <= Len(blocks') THEN Len(blocks'[block']) + 1 ELSE 0
    <3>1. CASE block + 1 <= Len(blocks)
      <4>1. Len(blocks[block + 1]) \in Nat
        BY <3>1, <1>3, SetNames
      <4> QED BY <1>3, <3>1, <4>1 DEF EndOfBlock, Kept
    <3>2. CASE ~(block + 1 <= Len(blocks))
      BY <1>3, <3>2 DEF EndOfBlock, Kept
    <3> QED BY <3>1, <3>2
  <2>2. block' \in Nat \ {0}
    <3>1. block' = block + 1
      BY DEF EndOfBlock
    <3> QED BY <1>3, <3>1
  <2>3. local' \in BOOLEAN
    BY DEF EndOfBlock
  <2> QED BY <2>1, <2>2, <2>3 DEF TypeOK, EndOfBlock, Kept
<1>5. \A n \in Sets(blocks[block]) : Has(n)
  <2>1. ASSUME NEW i \in 1 .. Len(blocks[block]), blocks[block][i].op = "set"
        PROVE  Has(blocks[block][i].name)
    <3>1. i \in 1 .. pos - 1
      BY <1>3 DEF EndOfBlock
    <3> QED BY <2>1, <3>1 DEF Passed, EndOfBlock
  <2> QED BY <2>1 DEF Sets
<1>6. Behind'
  <2>1. First' = First /\ block' = block + 1 /\ block >= First /\ First \in Nat
    BY DEF EndOfBlock, Kept, First, Left, Behind, TypeOK
  <2>2. ASSUME NEW b \in First .. block, b <= Len(blocks), NEW n \in Sets(blocks[b])
        PROVE  Has(n)
    BY <1>3, <1>5, <2>1, <2>2 DEF Behind
  <2>3. blocks' = blocks /\ statics' = statics
    BY DEF EndOfBlock, Kept
  <2> QED BY <1>3, <2>1, <2>2, <2>3 DEF Behind, Has, Sets
<1>7. Passed' /\ Scoped'
  BY DEF EndOfBlock, Kept, Passed, Scoped
<1>8. NotAgain'
  <2>1. ~(place = "run" /\ before = "main" /\ SetsDirectly)
    BY <1>3 DEF NotAgain, EndOfBlock
  <2> QED BY <2>1 DEF EndOfBlock, Kept, NotAgain, SetsDirectly
<1> QED BY <1>2, <1>4, <1>6, <1>7, <1>8

LEMMA MainKeeps ==
  ASSUME IInv, Main
  PROVE  IInv'
<1> USE DEF IInv
<1>1. Grows
  BY DEF Main, Kept, Grows, TypeOK
<1>2. Complete' /\ CapturedKept' /\ Behind'
  BY <1>1, GrownKept, GrownBehind DEF Main
<1>3. TypeOK'
  BY DEF TypeOK, Main, Kept, End
<1>4. Passed' /\ Scoped' /\ NotAgain'
  <2>1. pos = 0
    BY DEF TypeOK, Main
  <2> QED BY <2>1 DEF Main, Kept, Passed, Scoped, NotAgain, SetsDirectly
<1> QED BY <1>2, <1>3, <1>4
-----------------------------------------------------------------------------
LEMMA CannotBuildKeeps ==
  ASSUME IInv, CannotBuild
  PROVE  IInv'
<1> USE DEF IInv
<1>1. TypeOK'
  BY DEF TypeOK, CannotBuild, End
<1>2. Behind'
  BY DEF CannotBuild, Executed, Behind, First, Has, Sets
<1>3. Passed' /\ Scoped' /\ Complete' /\ NotAgain' /\ CapturedKept'
  BY DEF CannotBuild, Executed, Passed, Scoped, Complete, NotAgain, CapturedKept, Has
<1> QED BY <1>1, <1>2, <1>3

LEMMA EmbeddedIs ==
  ASSUME NEW v \in Value, NEW w \in Embedded(v)
  PROVE  /\ w \in Value
         /\ v.kind \in Lossless => w = v
<1>1. PICK k \in IF engine = "binary" THEN Stored(v.kind) ELSE Written(v.kind) : w = [v EXCEPT !.kind = k]
  BY DEF Embedded
<1>2. v.kind \in Kind
  BY DEF Value
<1>3. CASE engine = "binary"
  <2>1. k \in Stored(v.kind)
    BY <1>1, <1>3
  <2>2. k \in Kind
    BY <1>2, <2>1 DEF Stored, Kind
  <2>3. v.kind \in Lossless => k = v.kind
    BY <1>3, <2>1 DEF Stored, Lossless
  <2> QED BY <1>1, <2>2, <2>3 DEF Value
<1>4. CASE engine # "binary"
  <2>1. k \in Written(v.kind)
    BY <1>1, <1>4
  <2>2. k \in Kind
    BY <1>2, <2>1 DEF Written, Kind
  <2>3. v.kind \in Lossless => k = v.kind
    BY <1>4, <2>1 DEF Written, Lossless
  <2> QED BY <1>1, <2>2, <2>3 DEF Value
<1> QED BY <1>3, <1>4

(* What the executable may find under a name: something if the name was    *)
(* set, and the value itself if no other name reads like it.               *)
LEMMA FoundIs ==
  ASSUME TypeOK, NEW n \in Name, NEW w \in Found(n)
  PROVE  /\ w \in Value \cup {Absent}
         /\ Has(n) => w # Absent
         /\ Has(n) /\ statics[n].kind \in Lossless /\ (\A m \in Name \ {n} : Has(m) => Key(m) # Key(n))
              => w = statics[n]
<1>1. CASE Sharing(n) = {}
  BY <1>1 DEF Found, Sharing
<1>2. CASE Sharing(n) # {}
  <2>1. PICK m \in Sharing(n) : w \in Embedded(statics[m])
    BY <1>2 DEF Found
  <2>2. m \in Name /\ Has(m) /\ Key(m) = Key(n)
    BY DEF Sharing
  <2>3. statics[m] \in Value
    BY <2>2 DEF TypeOK, Has
  <2>4. w \in Value /\ (statics[m].kind \in Lossless => w = statics[m])
    BY <2>1, <2>3, EmbeddedIs
  <2> QED BY <2>2, <2>4, AbsentAssumption
<1> QED BY <1>1, <1>2

(* Where execution begins in the executable.                               *)
LEMMA BuildKeeps ==
  ASSUME IInv, Build, statics' \in [Name -> Value \cup {Absent}], ended' \in {"no", "panicked"}
  PROVE  TypeOK' /\ Behind' /\ Passed' /\ Scoped' /\ NotAgain'
<1> USE DEF IInv
<1>1. block' \in Nat \ {0} /\ block' = First'
  BY DEF Build, TypeOK, First, Left
<1>2. TypeOK'
  <2>1. pos' \in 0 .. IF block' <= Len(blocks') THEN Len(blocks'[block']) + 1 ELSE 0
    <3>1. CASE block' <= Len(blocks)
      <4>1. Len(blocks[block']) \in Nat
        BY <1>1, <3>1, SetNames DEF TypeOK
      <4> QED BY <3>1, <4>1 DEF Build
    <3>2. CASE ~(block' <= Len(blocks))
      BY <3>2 DEF Build
    <3> QED BY <3>1, <3>2
  <2> QED BY <1>1, <2>1 DEF TypeOK, Build, Place, End
<1>3. Behind'
  <2> DEFINE s == First'
  <2>1. s \in Nat /\ block' = s
    BY <1>1
  <2> HIDE DEF s
  <2>2. block' >= s /\ s .. block' - 1 = {}
    BY <2>1
  <2> QED BY <2>2 DEF Behind, s
<1>4. Passed' /\ Scoped' /\ NotAgain'
  BY DEF Build, Executed, Passed, Scoped, NotAgain
<1> QED BY <1>2, <1>3, <1>4

LEMMA StartKeeps ==
  ASSUME IInv, Start
  PROVE  IInv'
<1> USE DEF IInv
<1>1. /\ Build /\ ended' = "no"
      /\ statics' \in [Name -> UNION {Found(n) : n \in Name}]
      /\ \A n \in Name : statics'[n] \in Found(n)
  BY DEF Start, Loads
<1>2. ASSUME NEW n \in Name
      PROVE  /\ statics'[n] \in Value \cup {Absent}
             /\ Has(n) => statics'[n] # Absent
             /\ Has(n) /\ statics[n].kind \in Lossless /\ (\A m \in Name \ {n} : Has(m) => Key(m) # Key(n))
                  => statics'[n] = statics[n]
  BY <1>1, FoundIs
<1>3. statics' \in [Name -> Value \cup {Absent}]
  BY <1>1, <1>2
<1>4. TypeOK' /\ Behind' /\ Passed' /\ Scoped' /\ NotAgain'
  BY <1>1, <1>3, BuildKeeps
<1>5. Complete'
  <2>1. ASSUME ended = "main", NEW b \in 1 .. Len(blocks), NEW n \in Sets(blocks[b])
        PROVE  statics'[n] # Absent
    <3>1. n \in Name
      BY SetNames
    <3>2. Has(n)
      BY <1>1, <2>1 DEF Behind, Scoped, First, TypeOK, Build, Executed
    <3> QED BY <1>2, <3>1, <3>2
  <2>2. blocks' = blocks /\ before' = ended
    BY <1>1 DEF Build
  <2> QED BY <2>1, <2>2 DEF Complete, Has, Sets
<1>6. CapturedKept'
  <2>1. captured' = statics /\ engine' = engine
    BY <1>1 DEF Build
  <2>2. Lossless' = Lossless
    BY <2>1 DEF Lossless
  <2>3. \A n \in Name : Alone(n)' <=> \A m \in Name \ {n} : Has(m) => Key(m) # Key(n)
    BY <2>1 DEF Alone, Key, Has
  <2> QED BY <1>2, <2>1, <2>2, <2>3 DEF CapturedKept, Has
<1> QED BY <1>4, <1>5, <1>6

LEMMA CannotLoadKeeps ==
  ASSUME IInv, CannotLoad
  PROVE  IInv'
<1>1. Build /\ statics' \in [Name -> Value \cup {Absent}] /\ ended' = "panicked"
  BY DEF CannotLoad, NoStatics
<1>2. Complete' /\ CapturedKept'
  BY <1>1 DEF Complete, CapturedKept
<1> QED BY <1>1, <1>2, BuildKeeps DEF IInv
-----------------------------------------------------------------------------
LEMMA Initially == Init => IInv
<1> SUFFICES ASSUME Init PROVE IInv
  OBVIOUS
<1>1. blocks \in Seq(Seq(Statement))
  BY ProgramAssumption DEF Init
<1>2. statics \in [Name -> Value \cup {Absent}] /\ captured \in [Name -> Value \cup {Absent}]
  BY DEF Init, NoStatics
<1>3. pos \in 0 .. IF block <= Len(blocks) THEN Len(blocks[block]) + 1 ELSE 0
  <2>1. CASE block <= Len(blocks)
    <3>1. blocks[block] \in Seq(Statement)
      BY <1>1, <2>1 DEF Init
    <3>2. Len(blocks[block]) \in Nat
      BY <3>1
    <3> QED BY <2>1, <3>2 DEF Init
  <2>2. CASE ~(block <= Len(blocks))
    BY <2>2 DEF Init
  <2> QED BY <2>1, <2>2
<1>4. TypeOK
  <2>1. engine \in Engine /\ place \in Place /\ files \in SUBSET File /\ block \in Nat \ {0}
    BY DEF Init, Place
  <2>2. local \in BOOLEAN /\ ended \in End /\ before \in End /\ reran \in BOOLEAN
    BY DEF Init, End
  <2> QED BY <1>1, <1>2, <1>3, <2>1, <2>2 DEF TypeOK
<1>5. Behind /\ Passed /\ Scoped /\ Complete /\ NotAgain /\ CapturedKept
  BY DEF Init, Behind, First, Passed, Scoped, Complete, NotAgain, CapturedKept
<1> QED BY <1>4, <1>5 DEF IInv

LEMMA StutterKeeps ==
  ASSUME IInv, UNCHANGED vars
  PROVE  IInv'
<1> USE DEF IInv, vars
<1>1. Grows
  BY DEF Grows, TypeOK
<1>2. Complete' /\ CapturedKept' /\ Behind'
  BY <1>1, GrownKept, GrownBehind
<1>3. TypeOK'
  BY DEF TypeOK
<1>4. Passed' /\ Scoped' /\ NotAgain'
  BY DEF Passed, Scoped, NotAgain, SetsDirectly, Has
<1> QED BY <1>2, <1>3, <1>4

LEMMA Invariance == Spec => []IInv
<1>1. IInv /\ [Next]_vars => IInv'
  <2> SUFFICES ASSUME IInv, [Next]_vars PROVE IInv'
    OBVIOUS
  <2>1. ASSUME Next PROVE IInv'
    BY <2>1, SkipKeeps, EnterKeeps, SetKeeps, TryKeeps, UseKeeps, StopKeeps, EndOfBlockKeeps,
       MainKeeps, CannotBuildKeeps, StartKeeps, CannotLoadKeeps, StutterKeeps DEF Next, Done
  <2> QED BY <2>1, StutterKeeps
<1> QED BY <1>1, Initially, PTL DEF Spec

(* The blocks, statements and statics are what they are declared to be,    *)
(* and the statement to execute is one of the block (TypeOK).              *)
THEOREM TypeCorrect == Spec => []TypeOK
BY Invariance, PTL DEF IInv

(* For every script and whatever files there are on either machine: once   *)
(* the executable has started no static captured when the script was       *)
(* compiled is missing, and one whose way into the executable is without   *)
(* loss, under a name no other reads like, is what it was, whatever that   *)
(* way makes of the others.                                                *)
THEOREM CapturedStaticsKept == Spec => []CapturedKept
BY Invariance, PTL DEF IInv

(* For every script whose later blocks set a static directly: if the       *)
(* pre-execution got through, the executable executes no prep statement.   *)
THEOREM PrepRunsOnce == Spec => []RunsOnce
<1>1. IInv => RunsOnce
  <2>1. ASSUME IInv, before = "main", SetsDirectly PROVE ~reran
    <3>1. place \in {"compile", "run"}
      BY <2>1 DEF IInv, TypeOK, Place
    <3> QED BY <2>1, <3>1 DEF IInv, NotAgain
  <2> QED BY <2>1 DEF RunsOnce
<1> QED BY <1>1, Invariance, PTL

(* For every script: where its main part starts, the statics of its prep   *)
(* blocks are there and their variables are gone.                          *)
THEOREM PreparedMain == Spec => []MainIsPrepared
<1>1. IInv => MainIsPrepared
  <2> SUFFICES ASSUME IInv, ended = "main" PROVE MainIsPrepared
    BY DEF MainIsPrepared
  <2> USE DEF IInv
  <2>1. ~local /\ block > Len(blocks) /\ block \in Nat /\ Len(blocks) \in Nat
    BY DEF Scoped, TypeOK
  <2>2. ASSUME NEW b \in 1 .. Len(blocks), place = "compile" \/ before = "main" \/ b >= Left,
               NEW n \in Sets(blocks[b])
        PROVE  Has(n)
    <3>1. place \in {"compile", "run"} /\ First \in Nat
      BY DEF TypeOK, Place, First, Left
    <3>2. CASE b >= First
      BY <2>1, <2>2, <3>1, <3>2 DEF Behind
    <3>3. CASE place = "run" /\ before = "main"
      BY <2>2, <3>3 DEF Complete
    <3>4. place = "compile" => b >= First
      BY DEF First
    <3>5. place = "run" => First = Left
      BY DEF First
    <3> QED BY <2>2, <3>1, <3>2, <3>3, <3>4, <3>5
  <2> QED BY <2>1, <2>2 DEF MainIsPrepared
<1> QED BY <1>1, Invariance, PTL
==============================================================================
