----------------------------- MODULE Placeholders -----------------------------
(***************************************************************************)
(* db.query and db.execute on PostgreSQL: the bind markers of a script,    *)
(* question marks, become the numbered ones of the server, but not where a *)
(* question mark is text, a comment, part of a name or an operator.        *)
(*                                                                         *)
(* A statement is a sequence of characters: "a" stands for letters, "1"    *)
(* for digits, " " and "nl" for white space.                               *)
(***************************************************************************)
EXTENDS FiniteSetsExt, Sequences, Integers, TLC

Blanks == {" ", "nl"}
SignOn(sql, i)      == IF i \in DOMAIN sql THEN sql[i] ELSE "end"
FirstOf(sql, found) == IF found = {} THEN Len(sql) + 1 ELSE Min(found)
SpellsAt(sql, i, mark) ==
  i + Len(mark) - 1 <= Len(sql) /\ SubSeq(sql, i, i + Len(mark) - 1) = mark

EndOfLine(sql, i)    == FirstOf(sql, {k \in i .. Len(sql) : sql[k] = "nl"})
EndOfComment(sql, i) ==
  LET closed == FirstOf(sql, {k \in i .. Len(sql) : sql[k] = "*" /\ SignOn(sql, k + 1) = "/"})
  IN  IF closed > Len(sql) THEN closed ELSE closed + 2
EndOfDigits(sql, i)  == FirstOf(sql, {k \in i .. Len(sql) : sql[k] /= "1"})

(* A quote that is doubled does not end the text.                          *)
InQuoted(sql, s, quote) ==
  IF s.closed \/ s.i > Len(sql) THEN s
  ELSE IF sql[s.i] /= quote THEN [i |-> s.i + 1, closed |-> FALSE]
  ELSE IF SignOn(sql, s.i + 1) = quote THEN [i |-> s.i + 2, closed |-> FALSE]
  ELSE [i |-> s.i + 1, closed |-> TRUE]
EndOfQuoted(sql, from, quote) ==
  LET after[k \in 0 .. Len(sql)] ==
        IF k = 0 THEN [i |-> from, closed |-> FALSE] ELSE InQuoted(sql, after[k - 1], quote)
  IN  after[Len(sql)].i

(* $$ .. $$ and $tag$ .. $tag$; the start itself where there is none.      *)
SkipDollarQuoted(sql, start) ==
  LET j     == FirstOf(sql, {k \in start + 1 .. Len(sql) : sql[k] = "$"})
      delim == SubSeq(sql, start, j)
      close == FirstOf(sql, {k \in j + 1 .. Len(sql) : SpellsAt(sql, k, delim)})
  IN  IF /\ j <= Len(sql) /\ SignOn(sql, start + 1) /= "1"
         /\ \A k \in start + 1 .. j - 1 : sql[k] \in {"a", "1", "_"}
         /\ close <= Len(sql)
      THEN close + Len(delim) ELSE start

(* expr ? 'key' asks for a key.  A marker before a text follows a =.       *)
FirstOn(text) == SignOn(text, FirstOf(text, {k \in DOMAIN text : text[k] \notin Blanks}))
LastOn(text)  ==
  LET found == {k \in DOMAIN text : text[k] \notin Blanks} IN IF found = {} THEN "none" ELSE text[Max(found)]
LastBefore(sql, i) == LastOn(SubSeq(sql, 1, i - 1))
(* Mutant: blanks after the sign are not skipped.                          *)
AsksForKeyHere(sql, i) == SignOn(sql, i + 1) = "'" /\ LastBefore(sql, i) /= "="
AsksForKey(sql, i)     == FirstOn(SubSeq(sql, i + 1, Len(sql))) = "'" /\ LastBefore(sql, i) /= "="

(* Up to where a statement is copied as it is from i on; i is a marker     *)
(* where this is i itself.                                                 *)
ReadUpTo(sql, i) ==
  LET two    == <<sql[i], SignOn(sql, i + 1)>>
      quoted == SkipDollarQuoted(sql, i)
  IN  CASE two = <<"-", "-">>      -> EndOfLine(sql, i + 2)
        [] two = <<"/", "*">>      -> EndOfComment(sql, i + 2)
        [] sql[i] \in {"'", "\""}  -> EndOfQuoted(sql, i + 1, sql[i])
        [] sql[i] = "$"            -> IF quoted > i THEN quoted ELSE EndOfDigits(sql, i + 1)
        [] two \in {<<"?", "|">>, <<"?", "&">>, <<"?", "?">>} -> i + 2
        [] sql[i] = "?" /\ two[2] \notin {"|", "&", "?"}      -> IF AsksForKey(sql, i) THEN i + 1 ELSE i
        [] OTHER                   -> i + 1

(* One round of the loop.                                                  *)
Bind(n) == <<"$", ToString(n)>>
Rewrite(sql, s) ==
  LET to == ReadUpTo(sql, s.i)
  IN  IF s.i > Len(sql) THEN s
      ELSE IF to = s.i THEN [i |-> s.i + 1, n |-> s.n + 1, out |-> s.out \o Bind(s.n + 1)]
      ELSE [i |-> to, n |-> s.n, out |-> s.out \o SubSeq(sql, s.i, to - 1)]
PostgresRewritePlaceholders(sql) ==
  LET after[k \in 0 .. Len(sql)] ==
        IF k = 0 THEN [i |-> 1, n |-> 0, out |-> <<>>] ELSE Rewrite(sql, after[k - 1])
  IN  after[Len(sql)].out
-----------------------------------------------------------------------------
(* Statements as they are meant: a sequence of parts, some of them         *)
(* markers.  What encloses a text is in by: quotes, or dollars with a tag. *)
Ordinary == {"a", "1", "_", " ", "nl", "=", ",", "*", "|", "&"}
SqlSign  == Ordinary \cup {"-", "/", "'", "\"", "$", "?"}
Part  == [is : {"marker", "key", "plain", "operator", "number", "quoted", "remark", "comment", "dollars"},
          by : Seq(SqlSign), body : Seq(SqlSign)]

Doubled(body, quote) ==
  LET text[k \in 0 .. Len(body)] ==
        IF k = 0 THEN <<>>
        ELSE text[k - 1] \o (IF body[k] = quote THEN <<quote, quote>> ELSE <<body[k]>>)
  IN  text[Len(body)]
Spelt(p) ==
  CASE p.is \in {"marker", "key"}     -> <<"?">>
    [] p.is \in {"plain", "operator"} -> p.body
    [] p.is = "number"                -> <<"$">> \o p.body
    [] p.is = "quoted"                -> p.by \o (Doubled(p.body, p.by[1]) \o p.by)
    [] p.is = "remark"                -> <<"-", "-">> \o p.body
    [] p.is = "comment"               -> <<"/", "*">> \o (p.body \o <<"*", "/">>)
    [] p.is = "dollars"               -> p.by \o (p.body \o p.by)
UpToPart(parts, n) ==
  LET text[k \in 0 .. Len(parts)] == IF k = 0 THEN <<>> ELSE text[k - 1] \o Spelt(parts[k])
  IN  text[n]
Statement(parts) == UpToPart(parts, Len(parts))
Beyond(parts, n) ==
  SubSeq(Statement(parts), Len(UpToPart(parts, n)) + 1, Len(Statement(parts)))

(* What may stand between the texts before and after it.  What encloses a  *)
(* text ends where it is meant to.  A comment has none in it, PostgreSQL   *)
(* would nest them.  A ? before a text is a marker behind a =, and asks    *)
(* for a key behind anything else.                                         *)
EndedBy(body, mark) ==
  \A i \in 1 .. Len(body) : ~SpellsAt(body \o SubSeq(mark, 1, Len(mark) - 1), i, mark)
Delimits(by) ==
  /\ Len(by) >= 2 /\ by[1] = "$" /\ by[Len(by)] = "$" /\ by[2] /= "1"
  /\ \A i \in 2 .. Len(by) - 1 : by[i] \in {"a", "1", "_"}
MayStand(p, before, after) ==
  LET next  == SignOn(after, 1)
      named == SignOn(before, Len(before)) \in {"a", "1", "_"}   \* a $ would be of the name
  IN  \/ p.is = "marker" /\ next \notin {"|", "&", "?"} /\ (FirstOn(after) = "'" => LastOn(before) = "=")
      \/ p.is = "key" /\ FirstOn(after) = "'" /\ LastOn(before) /= "="
      \/ /\ p.is = "plain" /\ Len(p.body) = 1
         /\ \/ p.body[1] \in Ordinary
            \/ p.body[1] = "-" /\ next /= "-"
            \/ p.body[1] = "/" /\ next /= "*"
      \/ p.is = "operator" /\ p.body \in {<<"?", "|">>, <<"?", "&">>, <<"?", "?">>}
      \/ /\ p.is = "number" /\ p.body /= <<>> /\ (\A i \in DOMAIN p.body : p.body[i] = "1")
         /\ next /= "1" /\ ~named
      \/ p.is = "quoted" /\ p.by \in {<<"'">>, <<"\"">>} /\ next /= p.by[1]
      \/ p.is = "remark" /\ (\A i \in DOMAIN p.body : p.body[i] /= "nl") /\ next \in {"nl", "end"}
      \/ /\ p.is = "comment" /\ EndedBy(p.body, <<"*", "/">>)
         /\ ~\E i \in 1 .. Len(p.body) : SpellsAt(p.body \o <<"*">>, i, <<"/", "*">>)
      \/ p.is = "dollars" /\ Delimits(p.by) /\ EndedBy(p.body, p.by) /\ ~named
WellWritten(parts) ==
  \A k \in DOMAIN parts : MayStand(parts[k], UpToPart(parts, k - 1), Beyond(parts, k))

(* The markers, and nothing else, are numbered in their order, so that     *)
(* each is bound to the argument it was written for.                       *)
WithPart(s, p) ==
  IF p.is = "marker" THEN [n |-> s.n + 1, out |-> s.out \o Bind(s.n + 1)]
  ELSE [n |-> s.n, out |-> s.out \o Spelt(p)]
Numbered(parts) ==
  LET after[k \in 0 .. Len(parts)] ==
        IF k = 0 THEN [n |-> 0, out |-> <<>>] ELSE WithPart(after[k - 1], parts[k])
  IN  after[Len(parts)].out
NumbersMarkers(parts) == PostgresRewritePlaceholders(Statement(parts)) = Numbered(parts)
==============================================================================
