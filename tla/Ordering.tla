------------------------------- MODULE Ordering ------------------------------
(***************************************************************************)
(* The orders lists are sorted by: list.sort_maps_by_key, as ls would sort *)
(* its table, and list.sort_version, the order of versions.  Both are      *)
(* given to Rust's sort, which promises a result, and not to panic, only   *)
(* for a total order.                                                      *)
(*                                                                         *)
(* A comparison is -1, 0 or 1.  A text is a sequence of byte codes.        *)
(***************************************************************************)
EXTENDS Integers, Sequences

Compare(i, j) == IF i < j THEN -1 ELSE IF i > j THEN 1 ELSE 0
ByteAt(s, i)  == IF i <= Len(s) THEN s[i] ELSE 0
Differ(s, t) == CHOOSE i \in 1 .. Len(s) + 1 :
                  ByteAt(s, i) /= ByteAt(t, i) /\ \A j \in 1 .. i - 1 : ByteAt(s, j) = ByteAt(t, j)
CompareText(s, t) ==
  IF s = t THEN 0
  ELSE LET i == Differ(s, t) IN Compare(ByteAt(s, i), ByteAt(t, i))
-----------------------------------------------------------------------------
(* Values a map holds under a key: a number below 100, NaN, a text, or     *)
(* null where the map has no such key, or the item is no map.              *)
Number(n) == [k |-> "number", v |-> n]
NaN       == [k |-> "nan"]
Chars(s)  == [k |-> "text", v |-> s]
Missing   == [k |-> "null"]
Numeric(v) == v.k \in {"number", "nan"}
ToText(v) ==
  CASE v.k = "number" -> IF v.v < 10 THEN <<48 + v.v>> ELSE <<48 + (v.v \div 10), 48 + (v.v % 10)>>
    [] v.k = "nan"    -> <<78, 97, 78>>
    [] v.k = "null"   -> <<110, 117, 108, 108>>
    [] OTHER          -> v.v
CompareForSort(v, w) ==
  IF Numeric(v) /\ Numeric(w)
  THEN IF NaN \in {v, w} THEN 0 ELSE Compare(v.v, w.v)
  ELSE CompareText(ToText(v), ToText(w))

(* An item is what it holds under the three keys; how says whether the     *)
(* order is reversed and which of the other keys were given.               *)
Turned(how, order) == IF how.reverse THEN 0 - order ELSE order
(* Mutant: what is equal in the keys is reversed too.                      *)
CompareAllReversed(a, b, how) ==
  LET first  == CompareForSort(a.key, b.key)
      second == CompareForSort(a.second, b.second)
  IN  Turned(how, IF first /= 0 THEN first
                  ELSE IF how.second /\ second /= 0 THEN second
                  ELSE IF how.tie THEN CompareForSort(a.tie, b.tie)
                  ELSE 0)
CompareMaps(a, b, how) ==
  LET first  == Turned(how, CompareForSort(a.key, b.key))
      second == Turned(how, CompareForSort(a.second, b.second))
  IN  IF first /= 0 THEN first
      ELSE IF how.second /\ second /= 0 THEN second
      ELSE IF how.tie THEN CompareForSort(a.tie, b.tie)
      ELSE 0

(* Of three things: how a and b, b and a, b and c, a and c compare.        *)
Total(ab, ba, bc, ac) ==
  /\ ab = 0 - ba
  /\ ab <= 0 /\ bc <= 0 => ac <= 0
  /\ ab = 0 => ac = bc

(* Numbers are compared as numbers and everything else as text: the order  *)
(* is one only among numbers, or among values none of which is a number.   *)
(* 2 < 10 < "1x" < 2 when they meet in a column, and NaN equals every      *)
(* number.                                                                 *)
Comparable(values) == (\A v \in values : v.k = "number") \/ (\A v \in values : ~Numeric(v))
SortsMaps(a, b, c, how) ==
  /\ Comparable({a.key, b.key, c.key})
  /\ how.second => Comparable({a.second, b.second, c.second})
  /\ how.tie => Comparable({a.tie, b.tie, c.tie})
  => Total(CompareMaps(a, b, how), CompareMaps(b, a, how), CompareMaps(b, c, how), CompareMaps(a, c, how))

(* The reverse order is that of the keys only: what is equal in both keeps *)
(* the ascending order of the third, as ls -r does.                        *)
ReversesKeysOnly(a, b, how) ==
  LET other == CompareMaps(a, b, [how EXCEPT !.reverse = ~how.reverse])
      same  == CompareForSort(a.key, b.key) = 0 /\ (how.second => CompareForSort(a.second, b.second) = 0)
  IN  CompareMaps(a, b, how) = IF same THEN other ELSE 0 - other
-----------------------------------------------------------------------------
(* strverscmp: digits are compared as a number unless it begins with a     *)
(* zero.  The branch of the code for numbers that do compares what its     *)
(* last line compares, so there are two cases here and not three.          *)
Digit(c)   == c \in 48 .. 57
Leading(c) == c \in 49 .. 57
RunStart(s, i) == CHOOSE d \in 1 .. i : (\A j \in d .. i - 1 : Digit(s[j])) /\ (d > 1 => ~Digit(s[d - 1]))
Digits(s, i)   == CHOOSE n \in 0 .. Len(s) : (\A j \in i .. i + n - 1 : Digit(ByteAt(s, j))) /\ ~Digit(ByteAt(s, i + n))
VersionCompare(s, t) ==
  LET i == Differ(s, t)
      d == RunStart(s, i)
  IN  IF s = t THEN 0
      ELSE IF i > Len(s) \/ i > Len(t) THEN Compare(Len(s), Len(t))
      ELSE IF Leading(s[d]) /\ Leading(t[d]) /\ Digits(s, i) /= Digits(t, i)
      THEN Compare(Digits(s, i), Digits(t, i))
      ELSE Compare(s[i], t[i])

(* The function of musl, which compares what follows leading zeros as      *)
(* unsigned bytes after '0' was subtracted.                                *)
MuslCompare(s, t) ==
  LET i == Differ(s, t)
      d == RunStart(s, i)
      si == ByteAt(s, i)
      ti == ByteAt(t, i)
  IN  IF s = t THEN 0
      ELSE IF Leading(ByteAt(s, d)) /\ Leading(ByteAt(t, d)) /\ Digits(s, i) /= Digits(t, i)
      THEN Compare(Digits(s, i), Digits(t, i))
      ELSE IF d < i /\ (\A j \in d .. i - 1 : s[j] = 48) /\ (Digit(si) \/ Digit(ti))
      THEN Compare((si - 48) % 256, (ti - 48) % 256)
      ELSE Compare(si, ti)

(* Versions are totally ordered, only a text equals itself, and the order  *)
(* is the one strverscmp of musl gives, but where of two runs of zeros one *)
(* ends, in nothing or a sign before '0', and the other has another digit: *)
(* there the code turns it round ("00" comes before "0" in GNU's order).   *)
EndsZeros(s, t) ==
  LET i == Differ(s, t)
      d == RunStart(s, i)
      next == {ByteAt(s, i), ByteAt(t, i)}
  IN  d < i /\ (\A j \in d .. i - 1 : s[j] = 48) /\ (\E c \in next : Digit(c)) /\ (\E c \in next : c < 48)
SortsVersions(s, t, u) ==
  /\ Total(VersionCompare(s, t), VersionCompare(t, s), VersionCompare(t, u), VersionCompare(s, u))
  /\ (VersionCompare(s, t) = 0) = (s = t)
  /\ s /= t => VersionCompare(s, t) = IF EndsZeros(s, t) THEN 0 - MuslCompare(s, t) ELSE MuslCompare(s, t)
==============================================================================
