-------------------------- MODULE SharedMergeProofs --------------------------
(***************************************************************************)
(* What merge_shared_writeback guarantees for every value.                 *)
(***************************************************************************)
EXTENDS SharedMerge, SequenceTheorems, FiniteSetTheorems, TLAPS

(* Appending a tail to a snapshot and cutting the snapshot off again gives *)
(* the tail: the list and the string case of the merge.                    *)
LEMMA TailAfterPrefix ==
  ASSUME NEW S, NEW s \in Seq(S), NEW t \in Seq(S)
  PROVE  /\ SubSeq(s \o t, Len(s) + 1, Len(s \o t)) = t
         /\ IsPrefix(s, s \o t)
  BY SubSeqOfConcat1, SubSeqOfConcat2, ConcatProperties, SubSeqFull, LenProperties
     DEF IsPrefix

(* The variants are disjoint: a record has one of the four fields only.    *)
LEMMA VariantsDisjoint ==
  /\ NumberValue \cap ListValue = {} /\ NumberValue \cap StringValue = {}
  /\ ListValue \cap StringValue = {}
  /\ OtherValue \cap (NumberValue \cup ListValue \cup StringValue) = {}
  BY DEF NumberValue, ListValue, StringValue, OtherValue

LEMMA ApplyCases ==
  ASSUME NEW u, NEW v
  PROVE  /\ Apply(Keep, v) = v
         /\ u \in [add : Int] => Apply(u, v) = [num |-> v.num + u.add]
         /\ u \in [push : Seq(Element)] => Apply(u, v) = [list |-> v.list \o u.push]
         /\ u \in [concat : Seq(Piece)] => Apply(u, v) = [str |-> v.str \o u.concat]
  BY DEF Apply, Keep

(* A growing update that fits a variant is Keep or the growth of that      *)
(* variant.                                                                *)
LEMMA FittingGrowth ==
  ASSUME NEW u \in Growth, NEW v, Fits(u, v)
  PROVE  /\ v \in NumberValue => u = Keep \/ u \in [add : Int]
         /\ v \in ListValue   => u = Keep \/ u \in [push : Seq(Element)]
         /\ v \in StringValue => u = Keep \/ u \in [concat : Seq(Piece)]
<1>1. /\ u \in [add : Int] => v \in NumberValue
      /\ u \in [push : Seq(Element)] => v \in ListValue
      /\ u \in [concat : Seq(Piece)] => v \in StringValue
  BY DEF Fits
<1> QED BY <1>1, VariantsDisjoint DEF Growth

(* The merge of each variant, on a body that added n or a tail t to it.    *)
LEMMA MergeNumbers ==
  ASSUME NEW s \in Int, NEW c \in Int, NEW n \in Int
  PROVE  MergeSharedWriteback([num |-> s], [num |-> s + n], [num |-> c]) = [num |-> c + n]
<1>1. /\ [num |-> s] \in NumberValue /\ [num |-> s + n] \in NumberValue
      /\ [num |-> c] \in NumberValue
  BY DEF NumberValue
<1>2. [num |-> s] \notin ListValue /\ [num |-> s] \notin StringValue
  BY <1>1, VariantsDisjoint
<1>3. c + ((s + n) - s) = c + n
  OBVIOUS
<1> QED BY <1>1, <1>2, <1>3 DEF MergeSharedWriteback

LEMMA MergeLists ==
  ASSUME NEW s \in Seq(Element), NEW c \in Seq(Element), NEW t \in Seq(Element)
  PROVE  MergeSharedWriteback([list |-> s], [list |-> s \o t], [list |-> c])
           = [list |-> c \o t]
<1>1. /\ [list |-> s] \in ListValue /\ [list |-> s \o t] \in ListValue
      /\ [list |-> c] \in ListValue
  BY ConcatProperties DEF ListValue
<1>2. [list |-> s] \notin NumberValue /\ [list |-> s] \notin StringValue
  BY <1>1, VariantsDisjoint
<1>3. SubSeq(s \o t, Len(s) + 1, Len(s \o t)) = t /\ IsPrefix(s, s \o t)
  BY TailAfterPrefix
<1> QED BY <1>1, <1>2, <1>3 DEF MergeSharedWriteback

LEMMA MergeStrings ==
  ASSUME NEW s \in Seq(Piece), NEW c \in Seq(Piece), NEW t \in Seq(Piece)
  PROVE  MergeSharedWriteback([str |-> s], [str |-> s \o t], [str |-> c])
           = [str |-> c \o t]
<1>1. /\ [str |-> s] \in StringValue /\ [str |-> s \o t] \in StringValue
      /\ [str |-> c] \in StringValue
  BY ConcatProperties DEF StringValue
<1>2. [str |-> s] \notin NumberValue /\ [str |-> s] \notin ListValue
  BY <1>1, VariantsDisjoint
<1>3. SubSeq(s \o t, Len(s) + 1, Len(s \o t)) = t /\ IsPrefix(s, s \o t)
  BY TailAfterPrefix
<1> QED BY <1>1, <1>2, <1>3 DEF MergeSharedWriteback

(* Merging is applying: when the body grew the variable, the write-back    *)
(* has the effect of running the body's update on whatever the cell holds  *)
(* by then, however stale the snapshot it worked on has become.  This is   *)
(* what makes the unlocked body of async_browse and http_listen safe.      *)
THEOREM MergeAppliesUpdate ==
  ASSUME NEW snap, NEW cur, NEW u \in Growth, SameVariant(snap, cur), Fits(u, snap)
  PROVE  /\ MergeSharedWriteback(snap, Apply(u, snap), cur) = Apply(u, cur)
         /\ SameVariant(snap, Apply(u, cur))
<1>1. CASE snap \in NumberValue
  <2>1. cur \in NumberValue
    BY <1>1, VariantsDisjoint DEF SameVariant
  <2>2. PICK s \in Int, c \in Int : snap = [num |-> s] /\ cur = [num |-> c]
    BY <1>1, <2>1 DEF NumberValue
  <2>3. PICK n \in Int : \A w \in Int : Apply(u, [num |-> w]) = [num |-> w + n]
    <3>1. CASE u = Keep
      <4>1. \A w \in Int : Apply(u, [num |-> w]) = [num |-> w]
        BY <3>1, ApplyCases
      <4>2. \A w \in Int : w + 0 = w
        OBVIOUS
      <4>3. \A w \in Int : Apply(u, [num |-> w]) = [num |-> w + 0]
        BY <4>1, <4>2
      <4>4. 0 \in Int
        OBVIOUS
      <4> QED BY <4>3, <4>4, Zenon
    <3>2. CASE u \in [add : Int]
      <4>1. u.add \in Int /\ \A w \in Int : Apply(u, [num |-> w]) = [num |-> w + u.add]
        BY ZenonT(60), <3>2, ApplyCases
      <4> QED BY <4>1
    <3> QED BY <1>1, <3>1, <3>2, FittingGrowth
  <2>4. [num |-> c + n] \in NumberValue
    BY DEF NumberValue
  <2>5. Apply(u, snap) = [num |-> s + n] /\ Apply(u, cur) = [num |-> c + n]
    BY <2>2, <2>3
  <2>6. MergeSharedWriteback(snap, Apply(u, snap), cur) = Apply(u, cur)
    BY <2>2, <2>5, MergeNumbers
  <2> QED BY <1>1, <2>4, <2>5, <2>6 DEF SameVariant
<1>2. CASE snap \in ListValue
  <2>1. cur \in ListValue
    BY <1>2, VariantsDisjoint DEF SameVariant
  <2>2. PICK s \in Seq(Element), c \in Seq(Element) :
          snap = [list |-> s] /\ cur = [list |-> c]
    BY <1>2, <2>1 DEF ListValue
  <2>3. PICK t \in Seq(Element) :
          \A w \in Seq(Element) : Apply(u, [list |-> w]) = [list |-> w \o t]
    <3>1. CASE u = Keep
      <4>1. \A w \in Seq(Element) : w \o <<>> = w
        BY ConcatEmptySeq
      <4>2. \A w \in Seq(Element) : Apply(u, [list |-> w]) = [list |-> w]
        BY <3>1, ApplyCases
      <4>3. \A w \in Seq(Element) : Apply(u, [list |-> w]) = [list |-> w \o <<>>]
        BY <4>1, <4>2, Zenon
      <4> DEFINE t == <<>>
      <4>4. t \in Seq(Element)
        OBVIOUS
      <4>5. \A w \in Seq(Element) : Apply(u, [list |-> w]) = [list |-> w \o t]
        BY <4>3
      <4> HIDE DEF t
      <4> QED BY <4>4, <4>5, Zenon
    <3>2. CASE u \in [push : Seq(Element)]
      <4> DEFINE t == u.push
      <4>1. t \in Seq(Element)
        BY <3>2
      <4>2. \A w \in Seq(Element) : Apply(u, [list |-> w]) = [list |-> w \o t]
        BY ZenonT(60), <3>2, ApplyCases
      <4> HIDE DEF t
      <4> QED BY <4>1, <4>2, Zenon
    <3> QED BY <1>2, <3>1, <3>2, FittingGrowth
  <2>4. [list |-> c \o t] \in ListValue
    BY ConcatProperties DEF ListValue
  <2>5. Apply(u, snap) = [list |-> s \o t] /\ Apply(u, cur) = [list |-> c \o t]
    BY <2>2, <2>3
  <2>6. MergeSharedWriteback(snap, Apply(u, snap), cur) = Apply(u, cur)
    <3>1. MergeSharedWriteback([list |-> s], [list |-> s \o t], [list |-> c])
            = [list |-> c \o t]
      BY MergeLists
    <3> QED BY <2>2, <2>5, <3>1, Zenon
  <2> QED BY <1>2, <2>4, <2>5, <2>6 DEF SameVariant
<1>3. CASE snap \in StringValue
  <2>1. cur \in StringValue
    BY <1>3, VariantsDisjoint DEF SameVariant
  <2>2. PICK s \in Seq(Piece), c \in Seq(Piece) :
          snap = [str |-> s] /\ cur = [str |-> c]
    BY <1>3, <2>1 DEF StringValue
  <2>3. PICK t \in Seq(Piece) :
          \A w \in Seq(Piece) : Apply(u, [str |-> w]) = [str |-> w \o t]
    <3>1. CASE u = Keep
      <4>1. \A w \in Seq(Piece) : w \o <<>> = w
        BY ConcatEmptySeq
      <4>2. \A w \in Seq(Piece) : Apply(u, [str |-> w]) = [str |-> w]
        BY <3>1, ApplyCases
      <4>3. \A w \in Seq(Piece) : Apply(u, [str |-> w]) = [str |-> w \o <<>>]
        BY <4>1, <4>2, Zenon
      <4> DEFINE t == <<>>
      <4>4. t \in Seq(Piece)
        OBVIOUS
      <4>5. \A w \in Seq(Piece) : Apply(u, [str |-> w]) = [str |-> w \o t]
        BY <4>3
      <4> HIDE DEF t
      <4> QED BY <4>4, <4>5, Zenon
    <3>2. CASE u \in [concat : Seq(Piece)]
      <4> DEFINE t == u.concat
      <4>1. t \in Seq(Piece)
        BY <3>2
      <4>2. \A w \in Seq(Piece) : Apply(u, [str |-> w]) = [str |-> w \o t]
        BY ZenonT(60), <3>2, ApplyCases
      <4> HIDE DEF t
      <4> QED BY <4>1, <4>2, Zenon
    <3> QED BY <1>3, <3>1, <3>2, FittingGrowth
  <2>4. [str |-> c \o t] \in StringValue
    BY ConcatProperties DEF StringValue
  <2>5. Apply(u, snap) = [str |-> s \o t] /\ Apply(u, cur) = [str |-> c \o t]
    BY <2>2, <2>3
  <2>6. MergeSharedWriteback(snap, Apply(u, snap), cur) = Apply(u, cur)
    <3>1. MergeSharedWriteback([str |-> s], [str |-> s \o t], [str |-> c])
            = [str |-> c \o t]
      BY MergeStrings
    <3> QED BY <2>2, <2>5, <3>1, Zenon
  <2> QED BY <1>3, <2>4, <2>5, <2>6 DEF SameVariant
<1> QED BY <1>1, <1>2, <1>3 DEF SameVariant
-----------------------------------------------------------------------------
(* Apply and MergeSharedWriteback stay within the values.                  *)
LEMMA NullIsValue == NullValue \in Value
  BY NullAssumption DEF NullValue, Value, OtherValue

LEMMA ApplyInValue ==
  ASSUME NEW u \in Update, NEW v \in Value, Fits(u, v)
  PROVE  Apply(u, v) \in Value
<1>1. CASE u \in [add : Int]
  <2>1. v \in NumberValue
    BY <1>1 DEF Fits
  <2>2. [num |-> v.num + u.add] \in NumberValue
    BY <1>1, <2>1 DEF NumberValue
  <2>3. Apply(u, v) = [num |-> v.num + u.add]
    BY <1>1, ApplyCases
  <2>4. NumberValue \subseteq Value
    BY DEF Value
  <2> QED BY <2>2, <2>3, <2>4, Zenon
<1>2. CASE u \in [push : Seq(Element)]
  <2>1. v \in ListValue
    BY <1>2 DEF Fits
  <2>2. [list |-> v.list \o u.push] \in ListValue
    BY <1>2, <2>1, ConcatProperties DEF ListValue
  <2>3. Apply(u, v) = [list |-> v.list \o u.push]
    BY <1>2, ApplyCases
  <2>4. ListValue \subseteq Value
    BY DEF Value
  <2> QED BY <2>2, <2>3, <2>4, Zenon
<1>3. CASE u \in [concat : Seq(Piece)]
  <2>1. v \in StringValue
    BY <1>3 DEF Fits
  <2>2. [str |-> v.str \o u.concat] \in StringValue
    BY <1>3, <2>1, ConcatProperties DEF StringValue
  <2>3. Apply(u, v) = [str |-> v.str \o u.concat]
    BY <1>3, ApplyCases
  <2>4. StringValue \subseteq Value
    BY DEF Value
  <2> QED BY <2>2, <2>3, <2>4, Zenon
<1>4. CASE u = Keep
  BY <1>4, ApplyCases
<1>5. CASE u \in [assign : Value]
  <2>1. u.assign \in Value /\ u \notin [add : Int] /\ u \notin [push : Seq(Element)]
           /\ u \notin [concat : Seq(Piece)]
    BY <1>5
  <2> QED BY <1>5, <2>1 DEF Apply
<1> QED BY <1>1, <1>2, <1>3, <1>4, <1>5 DEF Update, Growth

LEMMA MergeInValue ==
  ASSUME NEW s \in Value, NEW f \in Value, NEW c \in Value
  PROVE  MergeSharedWriteback(s, f, c) \in Value
<1>1. CASE /\ s \in ListValue /\ f \in ListValue /\ c \in ListValue
           /\ IsPrefix(s.list, f.list)
  <2>1. f.list \in Seq(Element) /\ c.list \in Seq(Element) /\ Len(s.list) \in Nat
    BY <1>1, LenProperties DEF ListValue
  <2>2. SubSeq(f.list, Len(s.list) + 1, Len(f.list)) \in Seq(Element)
    BY <2>1, LenProperties, SubSeqProperties
  <2>3. [list |-> c.list \o SubSeq(f.list, Len(s.list) + 1, Len(f.list))] \in ListValue
    BY <2>1, <2>2, ConcatProperties DEF ListValue
  <2>4. s \notin NumberValue /\ s \notin StringValue
    BY <1>1, VariantsDisjoint
  <2> QED BY <1>1, <2>3, <2>4 DEF MergeSharedWriteback, Value
<1>2. CASE s \in NumberValue /\ f \in NumberValue /\ c \in NumberValue
  <2>1. [num |-> c.num + (f.num - s.num)] \in NumberValue
    BY <1>2 DEF NumberValue
  <2>2. s \notin ListValue /\ s \notin StringValue
    BY <1>2, VariantsDisjoint
  <2>3. MergeSharedWriteback(s, f, c) = [num |-> c.num + (f.num - s.num)]
    BY <1>2, <2>2 DEF MergeSharedWriteback
  <2> QED BY <2>1, <2>3 DEF Value
<1>3. CASE /\ s \in StringValue /\ f \in StringValue /\ c \in StringValue
           /\ IsPrefix(s.str, f.str)
  <2>1. f.str \in Seq(Piece) /\ c.str \in Seq(Piece) /\ Len(s.str) \in Nat
    BY <1>3, LenProperties DEF StringValue
  <2>2. SubSeq(f.str, Len(s.str) + 1, Len(f.str)) \in Seq(Piece)
    BY <2>1, LenProperties, SubSeqProperties
  <2>3. [str |-> c.str \o SubSeq(f.str, Len(s.str) + 1, Len(f.str))] \in StringValue
    BY <2>1, <2>2, ConcatProperties DEF StringValue
  <2>4. s \notin NumberValue /\ s \notin ListValue
    BY <1>3, VariantsDisjoint
  <2> QED BY <1>3, <2>3, <2>4 DEF MergeSharedWriteback, Value
<1> QED BY <1>1, <1>2, <1>3 DEF MergeSharedWriteback
-----------------------------------------------------------------------------
(* The values the merge accumulates.                                       *)
Mergeable == NumberValue \cup ListValue \cup StringValue

(* Two values of one variant, and updates on them.                         *)
LEMMA SameVariantTransitive ==
  ASSUME NEW u, NEW v, NEW w, SameVariant(u, v), SameVariant(v, w)
  PROVE  SameVariant(u, w)
  BY VariantsDisjoint DEF SameVariant

LEMMA MergeableSame ==
  /\ \A v : v \in Mergeable <=> SameVariant(v, v)
  /\ \A v, w : SameVariant(v, w) => v \in Mergeable /\ w \in Mergeable
  BY DEF SameVariant, Mergeable

(* An update that fits one value fits every other value of the variant.    *)
LEMMA FitsSameVariant ==
  ASSUME NEW u \in Growth, NEW v, NEW w, SameVariant(v, w), Fits(u, v)
  PROVE  Fits(u, w)
<1>1. Fits(Keep, w)
  BY DEF Fits, Keep
<1>2. \A x \in NumberValue : u \in [add : Int] => Fits(u, x)
  BY DEF Fits
<1>3. \A x \in ListValue : u \in [push : Seq(Element)] => Fits(u, x)
  <2>1. u \in [push : Seq(Element)] => u \notin [add : Int]
    OBVIOUS
  <2> QED BY <2>1 DEF Fits
<1>4. \A x \in StringValue : u \in [concat : Seq(Piece)] => Fits(u, x)
  <2>1. u \in [concat : Seq(Piece)] => u \notin [add : Int] /\ u \notin [push : Seq(Element)]
    OBVIOUS
  <2> QED BY <2>1 DEF Fits
<1> QED BY <1>1, <1>2, <1>3, <1>4, FittingGrowth DEF SameVariant
-----------------------------------------------------------------------------
(* A set of subsets of a finite set has a smallest one: induction over     *)
(* finite sets.                                                            *)
LEMMA SmallestSubset ==
  ASSUME NEW S, IsFiniteSet(S), NEW Bad \in SUBSET (SUBSET S), Bad # {}
  PROVE  \E T \in Bad : \A U \in SUBSET T : U # T => U \notin Bad
<1>1. IsWellFoundedOn(StrictSubsetOrdering(S), SUBSET S)
  BY FS_StrictSubsetOrderingWellFounded, FS_FiniteSubsetsOfFinite
<1>2. \E T \in Bad : \A U \in Bad : <<U, T>> \notin StrictSubsetOrdering(S)
  BY <1>1, WFMin
<1>3. PICK T \in Bad : \A U \in Bad : <<U, T>> \notin StrictSubsetOrdering(S)
  BY <1>2
<1>4. ASSUME NEW U \in SUBSET T, U # T, U \in Bad PROVE FALSE
  <2>1. <<U, T>> \in (SUBSET S) \X (SUBSET S)
    BY <1>4
  <2>2. <<U, T>> \in StrictSubsetOrdering(S)
    BY <1>4, <2>1 DEF StrictSubsetOrdering
  <2> QED BY <1>3, <1>4, <2>2
<1> QED BY <1>3, <1>4

(* The order in which a sum takes its terms.                               *)
Pick(S) == CHOOSE x \in S : TRUE

LEMMA PickIn == ASSUME NEW S, S # {} PROVE Pick(S) \in S
  BY DEF Pick

Terms(f, S) == \A x \in S : f[x] \in Int

(* h adds up f over every subset of S.                                     *)
Adds(h, f, S) ==
  h = [T \in SUBSET S |-> IF T = {} THEN 0 ELSE f[Pick(T)] + h[T \ {Pick(T)}]]

LEMMA SumUnfold ==
  ASSUME NEW f, NEW S
  PROVE  SumFunctionOnSet(f, S) = (CHOOSE h : Adds(h, f, S))[S]
  BY DEF SumFunctionOnSet, FoldFunctionOnSet, MapThenFoldSet, Adds, Pick

LEMMA AddsUnique ==
  ASSUME NEW f, NEW S, NEW R, IsFiniteSet(S), NEW h, NEW k, Adds(h, f, S), Adds(k, f, R)
  PROVE  \A T \in SUBSET S : T \in SUBSET R => h[T] = k[T]
<1> DEFINE Bad == {T \in SUBSET S : T \in SUBSET R /\ h[T] # k[T]}
<1>1. SUFFICES ASSUME Bad # {} PROVE FALSE
  OBVIOUS
<1>2. PICK T \in Bad : \A U \in SUBSET T : U # T => U \notin Bad
  <2> HIDE DEF Bad
  <2>1. Bad \in SUBSET (SUBSET S)
    BY DEF Bad
  <2> QED BY <1>1, <2>1, SmallestSubset
<1>3. /\ h[T] = IF T = {} THEN 0 ELSE f[Pick(T)] + h[T \ {Pick(T)}]
      /\ k[T] = IF T = {} THEN 0 ELSE f[Pick(T)] + k[T \ {Pick(T)}]
  BY <1>2 DEF Adds
<1>4. CASE T = {}
  BY <1>2, <1>3, <1>4
<1>5. CASE T # {}
  <2>1. T \ {Pick(T)} \in SUBSET T /\ T \ {Pick(T)} # T
    BY <1>5, PickIn
  <2>2. h[T \ {Pick(T)}] = k[T \ {Pick(T)}]
    BY <1>2, <2>1
  <2> QED BY <1>2, <1>3, <1>5, <2>2
<1> QED BY <1>4, <1>5

LEMMA SumAdds ==
  ASSUME NEW f, NEW S, IsFiniteSet(S)
  PROVE  Adds(CHOOSE h : Adds(h, f, S), f, S)
<1> DEFINE Chosen(T) == CHOOSE h : Adds(h, f, T)
           Bad == {T \in SUBSET S : ~ Adds(Chosen(T), f, T)}
<1>1. SUFFICES ASSUME Bad # {} PROVE FALSE
  <2> SUFFICES ASSUME Bad = {} PROVE Adds(Chosen(S), f, S)
    BY <1>1
  <2> QED OBVIOUS
<1>2. PICK T \in Bad : \A U \in SUBSET T : U # T => U \notin Bad
  <2> HIDE DEF Bad
  <2>1. Bad \in SUBSET (SUBSET S)
    BY DEF Bad
  <2> QED BY <1>1, <2>1, SmallestSubset
<1>3. \A U \in SUBSET T : U # T => Adds(Chosen(U), f, U)
  BY <1>2
<1> HIDE DEF Chosen
<1> DEFINE LastChoice == IF T = {} THEN 0 ELSE f[Pick(T)] + Chosen(T \ {Pick(T)})[T \ {Pick(T)}]
           g == [U \in SUBSET T |-> IF U = T THEN LastChoice ELSE Chosen(U)[U]]
<1>4. ASSUME NEW U \in SUBSET T
      PROVE  g[U] = IF U = {} THEN 0 ELSE f[Pick(U)] + g[U \ {Pick(U)}]
  <2> DEFINE R == U \ {Pick(U)}
  <2>1. U # {} => R \in SUBSET T /\ R # T /\ R \in SUBSET U /\ R # U
    BY PickIn
  <2>2. U # {} => g[R] = Chosen(R)[R]
    BY <2>1
  <2>3. CASE U = T
    BY <2>2, <2>3
  <2>4. CASE U # T
    <3>1. Chosen(U)[U] = IF U = {} THEN 0 ELSE f[Pick(U)] + Chosen(U)[R]
      BY <1>3, <2>4 DEF Adds
    <3>2. U # {} => Chosen(U)[R] = Chosen(R)[R]
      <4> SUFFICES ASSUME U # {} PROVE Chosen(U)[R] = Chosen(R)[R]
        OBVIOUS
      <4>1. IsFiniteSet(U) /\ Adds(Chosen(U), f, U) /\ Adds(Chosen(R), f, R)
        BY <1>2, <1>3, <2>1, <2>4, FS_Subset
      <4>2. R \in SUBSET U /\ R \in SUBSET R
        BY <2>1
      <4> HIDE DEF R
      <4> QED BY <4>1, <4>2, AddsUnique
    <3> QED BY <2>2, <2>4, <3>1, <3>2
  <2> QED BY <2>3, <2>4
<1>5. Adds(g, f, T)
  <2>1. g = [U \in SUBSET T |-> g[U]]
    OBVIOUS
  <2> HIDE DEF g
  <2> QED BY <1>4, <2>1 DEF Adds
<1>6. Adds(Chosen(T), f, T)
  <2> HIDE DEF g
  <2> QED BY <1>5 DEF Chosen
<1> QED BY <1>2, <1>6

(* A sum takes its terms one by one.                                       *)
LEMMA SumStep ==
  ASSUME NEW f, NEW S, IsFiniteSet(S)
  PROVE  SumFunctionOnSet(f, S)
           = IF S = {} THEN 0 ELSE f[Pick(S)] + SumFunctionOnSet(f, S \ {Pick(S)})
<1> DEFINE Chosen(T) == CHOOSE h : Adds(h, f, T)
           R == S \ {Pick(S)}
<1>1. IsFiniteSet(R) /\ R \in SUBSET S
  BY FS_Subset
<1>2. Adds(Chosen(S), f, S) /\ Adds(Chosen(R), f, R)
  <2> HIDE DEF R
  <2> QED BY <1>1, SumAdds
<1>3. SumFunctionOnSet(f, S) = Chosen(S)[S] /\ SumFunctionOnSet(f, R) = Chosen(R)[R]
  <2> HIDE DEF R
  <2> QED BY SumUnfold
<1>4. Chosen(S)[R] = Chosen(R)[R]
  <2>1. R \in SUBSET R
    OBVIOUS
  <2> HIDE DEF R, Chosen
  <2> QED BY <1>1, <1>2, <2>1, AddsUnique
<1>5. Chosen(S)[S] = IF S = {} THEN 0 ELSE f[Pick(S)] + Chosen(S)[R]
  <2> HIDE DEF Chosen
  <2> QED BY <1>2 DEF Adds
<1> HIDE DEF Chosen
<1> QED BY <1>3, <1>4, <1>5

LEMMA SumType ==
  ASSUME NEW f, NEW S, IsFiniteSet(S), Terms(f, S)
  PROVE  SumFunctionOnSet(f, S) \in Int
<1> DEFINE Bad == {T \in SUBSET S : SumFunctionOnSet(f, T) \notin Int}
<1>1. SUFFICES ASSUME Bad # {} PROVE FALSE
  OBVIOUS
<1>2. PICK T \in Bad : \A U \in SUBSET T : U # T => U \notin Bad
  <2> HIDE DEF Bad
  <2>1. Bad \in SUBSET (SUBSET S)
    BY DEF Bad
  <2> QED BY <1>1, <2>1, SmallestSubset
<1>3. IsFiniteSet(T)
  BY <1>2, FS_Subset
<1>4. T # {}
  <2>1. SumFunctionOnSet(f, T) # 0
    BY <1>2
  <2> QED BY <1>3, <2>1, SumStep
<1>5. Pick(T) \in T /\ T \ {Pick(T)} \in SUBSET T
  BY <1>4, PickIn
<1>6. SumFunctionOnSet(f, T \ {Pick(T)}) \in Int
  BY <1>2, <1>5
<1>7. SumFunctionOnSet(f, T) = f[Pick(T)] + SumFunctionOnSet(f, T \ {Pick(T)})
  BY <1>3, <1>4, SumStep
<1>8. f[Pick(T)] \in Int
  BY <1>2, <1>5 DEF Terms
<1> QED BY <1>2, <1>6, <1>7, <1>8

(* In whatever order: any term may be taken first.                         *)
LEMMA SumRemove ==
  ASSUME NEW f, NEW S, IsFiniteSet(S), Terms(f, S), NEW x \in S
  PROVE  SumFunctionOnSet(f, S) = f[x] + SumFunctionOnSet(f, S \ {x})
<1> DEFINE Sum(T) == SumFunctionOnSet(f, T)
           Bad == {T \in SUBSET S : \E y \in T : Sum(T) # f[y] + Sum(T \ {y})}
<1>1. SUFFICES ASSUME Bad # {} PROVE FALSE
  OBVIOUS
<1>2. PICK T \in Bad : \A U \in SUBSET T : U # T => U \notin Bad
  <2> HIDE DEF Bad
  <2>1. Bad \in SUBSET (SUBSET S)
    BY DEF Bad
  <2> QED BY <1>1, <2>1, SmallestSubset
<1>3. \A U \in SUBSET S : IsFiniteSet(U) /\ Sum(U) \in Int
  BY FS_Subset, SumType DEF Terms
<1>4. T \in SUBSET S /\ \A U \in SUBSET T : U # T => \A y \in U : Sum(U) = f[y] + Sum(U \ {y})
  BY <1>2
<1>5. PICK y \in T : Sum(T) # f[y] + Sum(T \ {y})
  BY <1>2
<1> HIDE DEF Bad, Sum
<1> DEFINE p == Pick(T)
           R == (T \ {p}) \ {y}
<1>6. p \in T /\ Sum(T) = f[p] + Sum(T \ {p})
  BY <1>3, <1>4, <1>5, PickIn, SumStep DEF Sum
<1> HIDE DEF p
<1>7. p # y /\ f[p] \in Int /\ f[y] \in Int /\ Sum(R) \in Int
  BY <1>3, <1>4, <1>5, <1>6 DEF Terms
<1>8. Sum(T \ {p}) = f[y] + Sum(R)
  BY <1>4, <1>5, <1>6, <1>7
<1>9. Sum(T \ {y}) = f[p] + Sum(R)
  <2>1. R = (T \ {y}) \ {p}
    OBVIOUS
  <2>2. T \ {y} \in SUBSET T /\ T \ {y} # T /\ p \in T \ {y}
    BY <1>5, <1>6, <1>7
  <2> QED BY <1>4, <2>1, <2>2
<1> QED BY <1>5, <1>6, <1>7, <1>8, <1>9

(* A sum depends on its terms only.                                        *)
LEMMA SumSame ==
  ASSUME NEW f, NEW g, NEW S, IsFiniteSet(S), \A x \in S : f[x] = g[x]
  PROVE  SumFunctionOnSet(f, S) = SumFunctionOnSet(g, S)
<1> DEFINE Bad == {T \in SUBSET S : SumFunctionOnSet(f, T) # SumFunctionOnSet(g, T)}
<1>1. SUFFICES ASSUME Bad # {} PROVE FALSE
  OBVIOUS
<1>2. PICK T \in Bad : \A U \in SUBSET T : U # T => U \notin Bad
  <2> HIDE DEF Bad
  <2>1. Bad \in SUBSET (SUBSET S)
    BY DEF Bad
  <2> QED BY <1>1, <2>1, SmallestSubset
<1>3. IsFiniteSet(T) /\ T \in SUBSET S
  BY <1>2, FS_Subset
<1>4. T # {} => Pick(T) \in T /\ T \ {Pick(T)} \in SUBSET T
  BY PickIn
<1>5. /\ SumFunctionOnSet(f, T) = IF T = {} THEN 0 ELSE f[Pick(T)] + SumFunctionOnSet(f, T \ {Pick(T)})
      /\ SumFunctionOnSet(g, T) = IF T = {} THEN 0 ELSE g[Pick(T)] + SumFunctionOnSet(g, T \ {Pick(T)})
  BY <1>3, SumStep
<1>6. T # {} => SumFunctionOnSet(f, T \ {Pick(T)}) = SumFunctionOnSet(g, T \ {Pick(T)})
  BY <1>2, <1>4
<1>7. T # {} => f[Pick(T)] = g[Pick(T)]
  BY <1>3, <1>4
<1> QED BY <1>2, <1>5, <1>6, <1>7

LEMMA SumGrows ==
  ASSUME NEW f, NEW g, NEW t, IsFiniteSet(DOMAIN f), t \notin DOMAIN f,
         DOMAIN g = DOMAIN f \cup {t},
         \A x \in DOMAIN f : f[x] = g[x], \A x \in DOMAIN g : g[x] \in Int
  PROVE  SumFunction(g) = SumFunction(f) + g[t] /\ SumFunction(f) \in Int
<1> DEFINE M == DOMAIN f
           N == M \cup {t}
<1>1. IsFiniteSet(N) /\ t \in N /\ N \ {t} = M
  BY FS_AddElement
<1>2. Terms(g, N) /\ Terms(f, M)
  BY DEF Terms
<1>3. SumFunctionOnSet(g, N) = g[t] + SumFunctionOnSet(g, M)
  <2> HIDE DEF N
  <2> QED BY <1>1, <1>2, SumRemove
<1>4. SumFunctionOnSet(g, M) = SumFunctionOnSet(f, M) /\ SumFunctionOnSet(f, M) \in Int
  BY <1>2, SumSame, SumType
<1>5. g[t] \in Int
  OBVIOUS
<1> QED BY <1>3, <1>4, <1>5 DEF SumFunction

LEMMA SumIsInt ==
  ASSUME NEW f, IsFiniteSet(DOMAIN f), \A x \in DOMAIN f : f[x] \in Int
  PROVE  SumFunction(f) \in Int
  BY SumType DEF SumFunction, Terms

LEMMA SumOfNone ==
  ASSUME NEW f, DOMAIN f = {}
  PROVE  SumFunction(f) = 0
<1>1. SumFunctionOnSet(f, {}) = 0
  BY SumStep, FS_EmptySet
<1> QED BY <1>1 DEF SumFunction

(* Appending adds up the occurrences of an element.                        *)
PositionsOf(e, s) == {i \in 1 .. Len(s) : s[i] = e}

LEMMA PositionsFinite ==
  ASSUME NEW S, NEW s \in Seq(S), NEW e
  PROVE  IsFiniteSet(PositionsOf(e, s)) /\ Cardinality(PositionsOf(e, s)) \in Nat
<1>1. IsFiniteSet(1 .. Len(s)) /\ PositionsOf(e, s) \in SUBSET (1 .. Len(s))
  BY LenProperties, FS_Interval DEF PositionsOf
<1> QED BY <1>1, FS_Subset, FS_CardinalityType

LEMMA PositionsConcat ==
  ASSUME NEW S, NEW s \in Seq(S), NEW t \in Seq(S), NEW e
  PROVE  Cardinality(PositionsOf(e, s \o t)) = Cardinality(PositionsOf(e, s)) + Cardinality(PositionsOf(e, t))
<1> DEFINE A == PositionsOf(e, s)
           B == PositionsOf(e, t)
           n == Len(s)
           C == {i \in n + 1 .. n + Len(t) : (s \o t)[i] = e}
<1>1. /\ n \in Nat /\ Len(t) \in Nat /\ Len(s \o t) = n + Len(t)
      /\ \A i \in 1 .. n : (s \o t)[i] = s[i]
      /\ \A i \in n + 1 .. n + Len(t) : (s \o t)[i] = t[i - n]
  BY ConcatProperties, LenProperties
<1>2. PositionsOf(e, s \o t) = A \cup C /\ A \cap C = {}
  BY <1>1 DEF PositionsOf
<1>3. ExistsBijection(B, C)
  <2> DEFINE f == [i \in B |-> n + i]
  <2>1. \A i \in B : i \in 1 .. Len(t) /\ t[i] = e
    BY DEF PositionsOf
  <2>2. \A i \in B : f[i] \in C
    <3> SUFFICES ASSUME NEW i \in B PROVE n + i \in C
      OBVIOUS
    <3>1. n + i \in n + 1 .. n + Len(t) /\ (n + i) - n = i
      BY <1>1, <2>1
    <3> QED BY <1>1, <2>1, <3>1
  <2>3. \A i, j \in B : f[i] = f[j] => i = j
    BY <1>1, <2>1
  <2>4. \A c \in C : \E i \in B : f[i] = c
    <3> SUFFICES ASSUME NEW c \in C PROVE c - n \in B /\ n + (c - n) = c
      OBVIOUS
    <3>1. c \in n + 1 .. n + Len(t) /\ t[c - n] = e
      BY <1>1
    <3>2. c - n \in 1 .. Len(t) /\ n + (c - n) = c
      BY <1>1, <3>1
    <3> QED BY <3>1, <3>2 DEF PositionsOf
  <2>5. f \in Bijection(B, C)
    <3> HIDE DEF B, C
    <3>1. f \in [B -> C] /\ DOMAIN f = B
      BY <2>2
    <3> HIDE DEF f
    <3> QED BY <2>3, <2>4, <3>1 DEF Bijection, Injection, Surjection, IsInjective
  <2> HIDE DEF f
  <2> QED BY <2>5 DEF ExistsBijection
<1>4. IsFiniteSet(C) /\ Cardinality(C) = Cardinality(B)
  <2>1. IsFiniteSet(B)
    BY PositionsFinite
  <2> HIDE DEF B, C
  <2> QED BY <1>3, <2>1, FS_Bijection
<1>5. IsFiniteSet(A) /\ Cardinality(A) \in Nat /\ Cardinality(B) \in Nat
  BY PositionsFinite
<1>6. Cardinality(A \cup C) = Cardinality(A) + Cardinality(C) - Cardinality(A \cap C)
  <2> HIDE DEF A, C
  <2> QED BY <1>4, <1>5, FS_Union
<1>7. Cardinality(A \cap C) = 0
  BY <1>2, FS_EmptySet
<1>8. Cardinality(A \cup C) = Cardinality(A) + Cardinality(B)
  <2> HIDE DEF A, B, C
  <2> QED BY <1>4, <1>5, <1>6, <1>7
<1> QED BY <1>2, <1>8

(* A list that begins with another one still does when it grows.           *)
LEMMA PrefixGrows ==
  ASSUME NEW S, NEW s \in Seq(S), NEW t \in Seq(S), NEW u \in Seq(S), IsPrefix(s, t)
  PROVE  IsPrefix(s, t \o u)
<1>1. Len(s) \in Nat /\ Len(t) \in Nat /\ Len(u) \in Nat /\ Len(t \o u) = Len(t) + Len(u)
  BY ConcatProperties, LenProperties
<1>2. Len(s) <= Len(t) /\ SubSeq(s, 1, Len(s)) = SubSeq(t, 1, Len(s))
  BY DEF IsPrefix
<1>3. SubSeq(t \o u, 1, Len(s)) = SubSeq(t, 1, Len(s))
  <2>1. CASE Len(s) = 0
    BY <1>1, <2>1, SubSeqEmpty
  <2>2. CASE Len(s) # 0
    <3>1. 1 \in 1 .. Len(t) /\ Len(s) \in 1 .. Len(t)
      BY <1>1, <1>2, <2>2
    <3> QED BY <3>1, SubSeqOfConcat1
  <2> QED BY <2>1, <2>2
<1> QED BY <1>1, <1>2, <1>3 DEF IsPrefix
==============================================================================
