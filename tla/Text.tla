--------------------------------- MODULE Text --------------------------------
(***************************************************************************)
(* The methods of strings that count: in characters, as most of them do,   *)
(* in bytes of the UTF-8 encoding, as Rust's own searches do, or from one  *)
(* to the other; and the encodings of bytes as text.                       *)
(*                                                                         *)
(* A text is a sequence of characters, a character its code, below 2048:   *)
(* one or two bytes.  Missing arguments are the defaults of the code.      *)
(***************************************************************************)
EXTENDS Integers, Sequences, FiniteSetsExt

CharBytes(c) == IF c < 128 THEN <<c>> ELSE <<192 + (c \div 64), 128 + (c % 64)>>
RECURSIVE Utf8(_)
Utf8(s)      == IF s = <<>> THEN <<>> ELSE CharBytes(s[1]) \o Utf8(Tail(s))
Starts(b)    == b < 128 \/ b >= 192
CharCount(bytes) == Quantify(DOMAIN bytes, LAMBDA i : Starts(bytes[i]))

(* Positions count from 0, as in the scripts; -1 is not found.             *)
OccursAt(s, w, i) == i + Len(w) <= Len(s) /\ SubSeq(s, i + 1, i + Len(w)) = w
Occurrences(s, w) == {i \in 0 .. Len(s) : OccursAt(s, w, i)}
Find(s, w)  == IF Occurrences(s, w) = {} THEN -1 ELSE Min(Occurrences(s, w))
RFind(s, w) == IF Occurrences(s, w) = {} THEN -1 ELSE Max(Occurrences(s, w))
From(s, i)  == SubSeq(s, i + 1, Len(s))
Least(i, j) == IF i < j THEN i ELSE j
-----------------------------------------------------------------------------
(* Searching: Rust finds bytes, the method answers characters.             *)
ByteOffset(s, n) == Len(Utf8(SubSeq(s, 1, Least(n, Len(s)))))
(* Mutant: counts from where the search began.                             *)
IndexOfRest(s, w, start) ==
  LET from  == ByteOffset(s, start)
      found == Find(From(Utf8(s), from), Utf8(w))
  IN  IF w = <<>> THEN start
      ELSE IF found = -1 THEN -1
      ELSE CharCount(SubSeq(Utf8(s), 1, found))
IndexOf(s, w, start) ==
  LET from  == ByteOffset(s, start)
      found == Find(From(Utf8(s), from), Utf8(w))
  IN  IF w = <<>> THEN start
      ELSE IF found = -1 THEN -1
      ELSE CharCount(SubSeq(Utf8(s), 1, from + found))
LastIndexOf(s, w) ==
  LET found == RFind(Utf8(s), Utf8(w))
  IN  IF w = <<>> THEN Len(s)
      ELSE IF found = -1 THEN -1
      ELSE CharCount(SubSeq(Utf8(s), 1, found))

(* Where the matches that do not overlap begin, from left to right.        *)
RECURSIVE MatchesFrom(_, _, _)
MatchesFrom(s, w, i) ==
  LET found == {j \in Occurrences(s, w) : j >= i}
  IN  IF found = {} THEN <<>>
      ELSE <<Min(found)>> \o MatchesFrom(s, w, Min(found) + (IF w = <<>> THEN 1 ELSE Len(w)))
Matches(s, w) == MatchesFrom(s, w, 0)
Between(s, w, ms) ==
  [i \in 1 .. Len(ms) + 1 |->
     SubSeq(s, IF i = 1 THEN 1 ELSE ms[i - 1] + Len(w) + 1, IF i > Len(ms) THEN Len(s) ELSE ms[i])]

Split(s, w) == Between(s, w, Matches(s, w))
RECURSIVE Join(_, _)
Join(parts, w) ==
  IF Len(parts) = 1 THEN parts[1] ELSE parts[1] \o w \o Join(Tail(parts), w)
Replace(s, old, new)      == Join(Split(s, old), new)
ReplaceFirst(s, old, new) ==
  Join(Between(s, old, SubSeq(Matches(s, old), 1, Least(1, Len(Matches(s, old))))), new)
Count(s, w) == IF w = <<>> THEN Len(s) + 1 ELSE Len(Matches(s, w))

(* Cutting.  Ends beyond the text are its end, a start behind the end is   *)
(* the end.  A piece of bytes may cut a character in two: each piece that  *)
(* is left of one becomes the replacement character.                       *)
Replacement == 65533
Clamped(s, start, end) ==
  LET e == Least(end, Len(s)) IN SubSeq(s, Least(start, e) + 1, e)
Substring(s, start, end) == Clamped(s, start, end)
RECURSIVE Lossy(_)
Lossy(bytes) ==
  IF bytes = <<>> THEN <<>>
  ELSE IF bytes[1] < 128 THEN <<bytes[1]>> \o Lossy(Tail(bytes))
  ELSE IF bytes[1] >= 192 /\ Len(bytes) > 1 /\ ~Starts(bytes[2])
  THEN <<(bytes[1] - 192) * 64 + (bytes[2] - 128)>> \o Lossy(From(bytes, 2))
  ELSE <<Replacement>> \o Lossy(Tail(bytes))
ByteSlice(s, start, end) == Lossy(Clamped(Utf8(s), start, end))
StringLen(s) == Len(Utf8(s))
CharAt(s, i) == IF i < Len(s) THEN <<s[i + 1]>> ELSE <<>>   \* or an error
PadStart(s, width, fill) ==
  [i \in 1 .. (IF width > Len(s) THEN width - Len(s) ELSE 0) |-> fill] \o s
PadEnd(s, width, fill) ==
  s \o [i \in 1 .. (IF width > Len(s) THEN width - Len(s) ELSE 0) |-> fill]

(* The methods agree with each other and with what they are named for, on  *)
(* text whose characters are not all of one byte: positions are those of   *)
(* characters, a position found is one substring finds the needle at,      *)
(* replacing is splitting and joining.                                     *)
MethodsAgree(s, w, start) ==
  LET found == IndexOf(s, w, start)
  IN  /\ w /= <<>> =>
           /\ found = Find(From(s, Least(start, Len(s))), w) +
                (IF Find(From(s, Least(start, Len(s))), w) = -1 THEN 0 ELSE Least(start, Len(s)))
           /\ LastIndexOf(s, w) = RFind(s, w)
           /\ (LastIndexOf(s, w) = -1) = (IndexOf(s, w, 0) = -1)
           /\ LastIndexOf(s, w) >= IndexOf(s, w, 0)
           /\ found /= -1 => Substring(s, found, found + Len(w)) = w
           /\ found /= -1 => ByteSlice(s, ByteOffset(s, found), ByteOffset(s, found) + StringLen(w)) = w
      /\ Len(Split(s, w)) = Count(s, w) + 1
      /\ Join(Split(s, w), w) = s
      /\ ReplaceFirst(s, w, w) = s
      /\ w /= <<>> => Count(Replace(s, w, <<>>), <<>>) = Count(s, <<>>) - Len(w) * Count(s, w)
      /\ CharAt(s, start) = Substring(s, start, start + 1)
      /\ ByteSlice(s, 0, StringLen(s)) = s
      /\ Len(PadStart(s, start, 32)) = Len(PadEnd(s, start, 32))
      /\ Substring(PadStart(s, start, 32), Len(PadStart(s, start, 32)) - Len(s), start + Len(s)) = s
-----------------------------------------------------------------------------
(* Bytes as text.  A digit is its value in either alphabet of 32, Pad the  *)
(* sign "="; both alphabets have a digit for each value.                   *)
Pad == 32
At0(bytes, i) == IF i <= Len(bytes) THEN bytes[i] ELSE 0
Given(bytes, i, digits) == IF i <= Len(bytes) THEN digits ELSE [d \in DOMAIN digits |-> Pad]
GroupDigits(g) ==
  <<g[1] \div 8, (g[1] % 8) * 4 + At0(g, 2) \div 64>>
    \o Given(g, 2, <<(At0(g, 2) % 64) \div 2, (At0(g, 2) % 2) * 16 + At0(g, 3) \div 16>>)
    \o Given(g, 3, <<(At0(g, 3) % 16) * 2 + At0(g, 4) \div 128>>)
    \o Given(g, 4, <<(At0(g, 4) % 128) \div 4, (At0(g, 4) % 4) * 8 + At0(g, 5) \div 32>>)
    \o Given(g, 5, <<At0(g, 5) % 32>>)
RECURSIVE Base32Encode(_)
Base32Encode(bytes) ==
  IF bytes = <<>> THEN <<>>
  ELSE GroupDigits(SubSeq(bytes, 1, Least(5, Len(bytes)))) \o Base32Encode(From(bytes, Least(5, Len(bytes))))

(* A byte is dropped when its digits are missing, and the text ends where  *)
(* there are not eight digits left, or the first two are none.             *)
Byte(v, ds, n) == IF \A d \in ds : v[d] < Pad THEN <<n>> ELSE <<>>
GroupBytes(v) ==
  <<v[1] * 8 + v[2] \div 4>>
    \o (IF v[3] = Pad THEN <<>> ELSE Byte(v, {2, 3, 4}, (v[2] % 4) * 64 + v[3] * 2 + v[4] \div 16))
    \o (IF v[5] = Pad THEN <<>> ELSE Byte(v, {4, 5}, (v[4] % 16) * 16 + v[5] \div 2))
    \o (IF v[6] = Pad THEN <<>> ELSE Byte(v, {5, 6, 7}, (v[5] % 2) * 128 + v[6] * 4 + v[7] \div 8))
    \o (IF v[8] = Pad THEN <<>> ELSE Byte(v, {7, 8}, (v[7] % 8) * 32 + v[8]))
RECURSIVE Base32Decode(_)
Base32Decode(digits) ==
  IF Len(digits) < 8 \/ digits[1] >= Pad \/ digits[2] >= Pad THEN <<>>
  ELSE GroupBytes(SubSeq(digits, 1, 8)) \o Base32Decode(From(digits, 8))

(* Pairs of hexadecimal digits.  The code cuts the text every two bytes: a *)
(* character of two bytes that begins on an odd one makes it panic, which  *)
(* no script can catch.                                                    *)
HexEncode(bytes) == [i \in 1 .. 2 * Len(bytes) |->
  IF i % 2 = 1 THEN bytes[(i + 1) \div 2] \div 16 ELSE bytes[i \div 2] % 16]
Plus == -1       \* "+": from_str_radix takes a sign before the digit
Other == -2
Wide  == -3      \* a character of two bytes
PairValue(x, y) == IF y < 0 THEN -1 ELSE IF x = Plus THEN y ELSE IF x < 0 THEN -1 ELSE x * 16 + y
RECURSIVE HexBytes(_)
HexBytes(text) ==
  IF text = <<>> THEN <<>>
  ELSE (IF text[1] = Wide THEN <<Wide, Other>> ELSE <<text[1]>>) \o HexBytes(Tail(text))
HexDecode(text) ==
  LET bytes    == HexBytes(text)
      value    == [p \in 1 .. Len(bytes) \div 2 |-> PairValue(bytes[2 * p - 1], bytes[2 * p])]
      cut(p)   == bytes[2 * p] = Wide
      wrong(p) == value[p] = -1
      before(p) == \A q \in 1 .. p - 1 : ~cut(q) /\ ~wrong(q)
  IN  CASE Len(bytes) % 2 = 1 -> [is |-> "error"]
        [] \E p \in DOMAIN value : cut(p) /\ before(p) -> [is |-> "panic"]
        [] \E p \in DOMAIN value : wrong(p) /\ ~cut(p) /\ before(p) -> [is |-> "error"]
        [] OTHER -> [is |-> "bytes", v |-> value]

(* What was encoded is read back, and of a text that was cut short the     *)
(* whole groups.                                                           *)
RoundTrips(bytes) ==
  LET digits == Base32Encode(bytes)
  IN  /\ Base32Decode(digits) = bytes
      /\ \A n \in 0 .. Len(digits) - 1 :
            Base32Decode(SubSeq(digits, 1, n)) = SubSeq(bytes, 1, 5 * (n \div 8))
      /\ HexDecode(HexEncode(bytes)) = [is |-> "bytes", v |-> bytes]
==============================================================================
