--------------------------------- MODULE Args --------------------------------
(***************************************************************************)
(* args.parse and args.scan: the words of a command line into options and  *)
(* positional arguments (standard_lib/args.rs).  A word is a sequence of   *)
(* characters.  A configuration is the record the code reads from its map. *)
(***************************************************************************)
EXTENDS Integers, Sequences

Text(s)     == [is |-> "text", v |-> s]
Flag(b)     == [is |-> "flag", v |-> <<b>>]
ListOf(vs)  == [is |-> "list", v |-> vs]
Dash        == "-"
Begins(s, w) == Len(w) <= Len(s) /\ SubSeq(s, 1, Len(w)) = w
Behind(s, n) == SubSeq(s, n + 1, Len(s))
Has(s, c)    == \E i \in DOMAIN s : s[i] = c
EqualsAt(s)  == CHOOSE i \in DOMAIN s : s[i] = "=" /\ \A j \in 1 .. i - 1 : s[j] /= "="

NormaliseLong(s) == [i \in DOMAIN s |-> IF s[i] = Dash THEN "_" ELSE s[i]]
Normalised(S)    == {NormaliseLong(s) : s \in S}
ResolveAlias(cfg, key) == IF key \in DOMAIN cfg.aliases THEN cfg.aliases[key] ELSE key

(* Under an accumulating key every value goes into a list; a value that    *)
(* was there before is its first element.                                  *)
Added(opts, key, value) ==
  IF key \notin DOMAIN opts THEN ListOf(<<value>>)
  ELSE IF opts[key].is = "list" THEN ListOf(Append(opts[key].v, value))
  ELSE ListOf(<<opts[key], value>>)
With(opts, key, value) == [k \in DOMAIN opts \cup {key} |-> IF k = key THEN value ELSE opts[k]]
Store(cfg, opts, raw, value) ==
  LET key == ResolveAlias(cfg, raw)
  IN  With(opts, key, IF key \in cfg.accumulate THEN Added(opts, key, value) ELSE value)
StoreGiven(cfg, opts, raw, s) == IF s = <<>> THEN opts ELSE Store(cfg, opts, raw, Text(s))
-----------------------------------------------------------------------------
Nothing == [opts |-> <<>>, pos |-> <<>>, plus |-> <<>>, at |-> <<>>]

(* +key=value, +nokey and +key.                                            *)
PlusOption(plus, body) ==
  IF Has(body, "=")
  THEN With(plus, NormaliseLong(SubSeq(body, 1, EqualsAt(body) - 1)), Text(Behind(body, EqualsAt(body))))
  ELSE IF Begins(body, <<"n", "o">>) THEN With(plus, NormaliseLong(Behind(body, 2)), Flag(FALSE))
  ELSE With(plus, NormaliseLong(body), Flag(TRUE))

(* --name, --name=value, --name value: the options and the words used. A   *)
(* value of its own does not begin with a dash; an empty one is dropped.   *)
LongOption(cfg, opts, body, rest) ==
  LET given == Has(body, "=")
      name  == NormaliseLong(IF given THEN SubSeq(body, 1, EqualsAt(body) - 1) ELSE body)
      value == IF given THEN Behind(body, EqualsAt(body)) ELSE <<>>
      next  == rest /= <<>> /\ ~Begins(rest[1], <<Dash>>)
  IN  CASE name \in Normalised(cfg.long_optional_values) ->
             [opts |-> Store(cfg, opts, name, Text(IF given THEN value ELSE <<"always">>)), used |-> 1]
        [] name \in Normalised(cfg.long_values) /\ name \notin Normalised(cfg.long_optional_values) ->
             IF given \/ ~next THEN [opts |-> StoreGiven(cfg, opts, name, value), used |-> 1]
             ELSE [opts |-> StoreGiven(cfg, opts, name, rest[1]), used |-> 2]
        [] OTHER -> [opts |-> Store(cfg, opts, name, IF given THEN Text(value) ELSE Flag(TRUE)), used |-> 1]

(* -abc: flags up to the first letter that takes a value, which is the     *)
(* rest of the word or, whatever it is, the next one.                      *)
Flags(cfg, opts, letters) ==
  LET stored[n \in 0 .. Len(letters)] ==
        IF n = 0 THEN opts ELSE Store(cfg, stored[n - 1], <<letters[n]>>, Flag(TRUE))
  IN  stored[Len(letters)]
Taking(cfg, letters)      == {k \in DOMAIN letters : letters[k] \in cfg.short_values}
FirstTaking(cfg, letters) ==
  CHOOSE k \in Taking(cfg, letters) : \A j \in Taking(cfg, letters) : k <= j
(* Mutant: the value is read and its word not skipped.                     *)
ClusterAgain(cfg, opts, letters, rest) ==
  LET k      == FirstTaking(cfg, letters)
      before == Flags(cfg, opts, SubSeq(letters, 1, k - 1))
      inside == Behind(letters, k) /= <<>> \/ rest = <<>>
  IN  IF Taking(cfg, letters) = {} THEN [opts |-> Flags(cfg, opts, letters), used |-> 1]
      ELSE [opts |-> StoreGiven(cfg, before, <<letters[k]>>, IF inside THEN Behind(letters, k) ELSE rest[1]),
            used |-> 1]
Cluster(cfg, opts, letters, rest) ==
  LET k      == FirstTaking(cfg, letters)
      before == Flags(cfg, opts, SubSeq(letters, 1, k - 1))
      inside == Behind(letters, k) /= <<>> \/ rest = <<>>
  IN  IF Taking(cfg, letters) = {} THEN [opts |-> Flags(cfg, opts, letters), used |-> 1]
      ELSE [opts |-> StoreGiven(cfg, before, <<letters[k]>>, IF inside THEN Behind(letters, k) ELSE rest[1]),
            used |-> IF inside THEN 1 ELSE 2]

(* What a word is taken for, in the order the code asks.                   *)
Class(cfg, r, w) ==
  IF w = <<Dash, Dash>> THEN "end"
  ELSE IF w = <<Dash>> \/ (~cfg.permute /\ r.pos /= <<>>) THEN "positional"
  ELSE IF cfg.at_tokens /\ Begins(w, <<"@">>) THEN "at"
  ELSE IF cfg.plus_flags /\ Begins(w, <<"+">>) /\ Len(w) > 1 THEN "plus"
  ELSE IF Begins(w, <<Dash, Dash>>) THEN "long"
  ELSE IF Begins(w, <<Dash>>) THEN "short"
  ELSE IF cfg.permute THEN "positional" ELSE "operands"

(* One round of the loop: the next word, and what was read before.         *)
Round(words, cfg, s) ==
  LET w      == words[s.i]
      rest   == Behind(words, s.i)
      r      == s.r
      class  == Class(cfg, r, w)
      option == IF class = "long" THEN LongOption(cfg, r.opts, Behind(w, 2), rest)
                ELSE Cluster(cfg, r.opts, Tail(w), rest)
  IN  CASE class = "end"        -> [i |-> Len(words) + 1, r |-> [r EXCEPT !.pos = @ \o rest]]
        [] class = "operands"   -> [i |-> Len(words) + 1, r |-> [r EXCEPT !.pos = @ \o <<w>> \o rest]]
        [] class = "positional" -> [i |-> s.i + 1, r |-> [r EXCEPT !.pos = Append(@, w)]]
        [] class = "at"         -> [i |-> s.i + 1, r |-> [r EXCEPT !.at = Append(@, Tail(w))]]
        [] class = "plus"       -> [i |-> s.i + 1, r |-> [r EXCEPT !.plus = PlusOption(@, Tail(w))]]
        [] OTHER                -> [i |-> s.i + option.used, r |-> [r EXCEPT !.opts = option.opts]]

(* The loop: every round takes a word at least.                            *)
DoParse(words, cfg) ==
  LET after[n \in 0 .. Len(words)] ==
        IF n = 0 THEN [i |-> 1, r |-> Nothing]
        ELSE IF after[n - 1].i > Len(words) THEN after[n - 1]
        ELSE Round(words, cfg, after[n - 1])
  IN  after[Len(words)].r
-----------------------------------------------------------------------------
(* What the user of a program means by an argument, and the words it may   *)
(* be spelled with.  letters are the flags clustered before a short value. *)
Spelled(a) ==
  CASE a.k = "flags"    -> <<<<Dash>> \o a.letters>>
    [] a.k = "short"    -> IF a.glued THEN <<<<Dash>> \o a.letters \o a.name \o a.v>>
                           ELSE <<<<Dash>> \o a.letters \o a.name, a.v>>
    [] a.k = "long"     -> <<<<Dash, Dash>> \o a.name>>
    [] a.k = "value"    -> IF a.glued THEN <<<<Dash, Dash>> \o a.name \o <<"=">> \o a.v>>
                           ELSE <<<<Dash, Dash>> \o a.name, a.v>>
    [] a.k = "plus"     -> <<<<"+">> \o a.name>>
    [] a.k = "at"       -> <<<<"@">> \o a.v>>
    [] OTHER            -> <<a.v>>
Words(args) ==
  LET words[n \in 0 .. Len(args)] == IF n = 0 THEN <<>> ELSE words[n - 1] \o Spelled(args[n])
  IN  words[Len(args)]

(* What they mean one after the other.  A name is an option's, with a dash *)
(* or an underscore.                                                       *)
MayTake(cfg, name) == NormaliseLong(name) \in Normalised(cfg.long_optional_values)
Takes(cfg, name)   == NormaliseLong(name) \in Normalised(cfg.long_values) /\ ~MayTake(cfg, name)
Understood(cfg, r, a) ==
  CASE a.k = "flags" -> [r EXCEPT !.opts = Flags(cfg, r.opts, a.letters)]
    [] a.k = "short" -> [r EXCEPT !.opts = Store(cfg, Flags(cfg, r.opts, a.letters), a.name, Text(a.v))]
    [] a.k = "long"  -> [r EXCEPT !.opts = Store(cfg, r.opts, NormaliseLong(a.name),
                          IF MayTake(cfg, a.name) THEN Text(<<"always">>) ELSE Flag(TRUE))]
    [] a.k = "value" -> [r EXCEPT !.opts = Store(cfg, r.opts, NormaliseLong(a.name), Text(a.v))]
    [] a.k = "plus"  -> [r EXCEPT !.plus = PlusOption(r.plus, a.name)]
    [] a.k = "at"    -> [r EXCEPT !.at = Append(r.at, a.v)]
    [] OTHER         -> [r EXCEPT !.pos = Append(r.pos, a.v)]
Meaning(cfg, args) ==
  LET meant[n \in 0 .. Len(args)] == IF n = 0 THEN Nothing ELSE Understood(cfg, meant[n - 1], args[n])
  IN  meant[Len(args)]

(* What an argument may be in a configuration: letters are no dashes, a    *)
(* name has no sign =, a value is not empty, one in a word of its own      *)
(* behind a long name has no dash, and a positional looks like nothing     *)
(* else.                                                                   *)
Plain(cfg, w) == /\ ~Begins(w, <<Dash>>) \/ w = <<Dash>>
                 /\ ~(cfg.at_tokens /\ Begins(w, <<"@">>))
                 /\ ~(cfg.plus_flags /\ Begins(w, <<"+">>) /\ Len(w) > 1)
NoValues(cfg, letters) == \A i \in DOMAIN letters : letters[i] \notin cfg.short_values
Letters(s) == \A i \in DOMAIN s : s[i] /= Dash
MayBe(cfg, a) ==
  CASE a.k = "flags" -> a.letters /= <<>> /\ Letters(a.letters) /\ NoValues(cfg, a.letters)
    [] a.k = "short" -> /\ Letters(a.letters) /\ NoValues(cfg, a.letters)
                        /\ Len(a.name) = 1 /\ Letters(a.name) /\ a.name[1] \in cfg.short_values
                        /\ a.v /= <<>>
    [] a.k = "long"  -> a.name /= <<>> /\ ~Has(a.name, "=") /\ ~Takes(cfg, a.name)
    [] a.k = "value" -> /\ a.name /= <<>> /\ ~Has(a.name, "=") /\ a.v /= <<>>
                        /\ a.glued \/ (Takes(cfg, a.name) /\ ~Begins(a.v, <<Dash>>))
    [] a.k = "plus"  -> cfg.plus_flags /\ a.name /= <<>>
    [] a.k = "at"    -> cfg.at_tokens
    [] OTHER         -> cfg.permute /\ Plain(cfg, a.v)

(* A command line is read as it is meant, however its arguments are        *)
(* spelled, wherever they stand among the positional ones (permute), and   *)
(* whatever stands behind "--" or, without permute, behind the first       *)
(* positional: no word is lost and none is taken for another argument.     *)
ReadAsMeant(args, marked, rest, cfg) ==
  LET operands == IF cfg.permute \/ marked \/ rest = <<>> THEN TRUE
                  ELSE Plain(cfg, rest[1]) /\ rest[1] /= <<Dash>>
      line     == Words(args) \o (IF marked THEN <<<<Dash, Dash>>>> ELSE <<>>) \o rest
      meant    == Meaning(cfg, args)
  IN  (\A i \in DOMAIN args : MayBe(cfg, args[i])) /\ operands /\ (cfg.permute /\ ~marked => rest = <<>>)
      => DoParse(line, cfg) = [meant EXCEPT !.pos = @ \o rest]
==============================================================================
