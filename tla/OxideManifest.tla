----------------------------- MODULE OxideManifest ----------------------------
(***************************************************************************)
(* The manifest of a project directory that `corvo --oxide` and `corvo     *)
(* --transpile` add programs to, run after run, while its user edits it    *)
(* too (compiler/builder.rs).  A manifest is a sequence of lines, of which *)
(* the code looks at tables, targets, names and the line of corvo-lang;    *)
(* off says that a line is commented out.                                  *)
(*                                                                         *)
(* External: what cargo makes of the manifest.                             *)
(***************************************************************************)
EXTENDS Integers, Sequences, FiniteSetsExt, SequencesExt

CONSTANTS
  Programs,   \* the stems of the scripts, each the name of an executable
  Gates,      \* the features of corvo-lang
  MaxEvents   \* bound on the runs and edits

ASSUME ManifestAssumption == MaxEvents \in Nat /\ "user" \notin Programs

VARIABLES
  toml,       \* Cargo.toml, empty if there is none
  need,       \* the features of the programs in src/, and those the user asked for
  unread,     \* history: oxide met a line of corvo-lang whose features it does not read
  outcome,    \* "none", "ok" or "failed": the last run; "edited": the user came after it
  events

project == <<toml, need, unread, outcome, events>>

Line(l, of) == [l |-> l, of |-> of, features |-> {}, off |-> FALSE]
(* How the line of corvo-lang is spelled: as emitted, with more behind the *)
(* features, with more before them, or not as oxide writes it at all.      *)
Spelling == {"emitted", "extended", "keyed", "own"}
DepLine(spelling, features) == [Line("dep", spelling) EXCEPT !.features = features]
Off(lines) == [i \in DOMAIN lines |-> [lines[i] EXCEPT !.off = TRUE]]
BinEntry(p) == <<Line("bin", ""), Line("name", p)>>
PackageOf(dep) == <<Line("table", "package"), Line("name", "project"),
                    Line("table", "dependencies"), dep, Line("table", "profile")>>
-----------------------------------------------------------------------------
Headings(m) == {i \in DOMAIN m : m[i].l \in {"table", "bin", "entry"} /\ ~m[i].off}
TableAt(m, i) ==
  LET above == {h \in Headings(m) : h <= i} IN IF above = {} THEN "" ELSE m[Max(above)].of
Scanned(m, i) == ~m[i].off /\ TableAt(m, i) \in {"dependencies", "target"}
Hits(m) == {i \in DOMAIN m : Scanned(m, i) /\ m[i].l = "dep" /\ m[i].of /= "own"}

ParsedFeatures(line) == IF line.of \in {"emitted", "extended"} THEN line.features ELSE {}
Unread(m) == \E i \in DOMAIN m : Scanned(m, i) /\ m[i].l = "dep" /\ m[i].of \in {"keyed", "own"}
(* Mutant: the line gets the features of the new program.                  *)
MergedLast(m, features) ==
  IF Hits(m) = {} THEN m
  ELSE [m EXCEPT ![Max(Hits(m))] = DepLine("emitted", features)]
Merged(m, features) ==
  IF Hits(m) = {} THEN m
  ELSE [m EXCEPT ![Max(Hits(m))] = DepLine("emitted", ParsedFeatures(@) \cup features)]

(* A name is looked for in the text from [[bin]] to the next [[, comments  *)
(* and other tables included.                                              *)
HasBin(m, p) ==
  \E b, i \in DOMAIN m :
    /\ b < i /\ m[b].l = "bin" /\ m[i].l = "name" /\ m[i].of = p
    /\ \A j \in b + 1 .. i : m[j].l \notin {"bin", "entry"}
WithBin(m, p) == IF HasBin(m, p) THEN m ELSE m \o BinEntry(p)
WithPatch(m) ==
  IF \E i \in DOMAIN m : m[i].l = "table" /\ m[i].of = "patch" THEN m
  ELSE Append(m, Line("table", "patch"))
-----------------------------------------------------------------------------
ProjectInit == toml = <<>> /\ need = <<>> /\ unread = FALSE /\ outcome = "none" /\ events = 0

Event      == events < MaxEvents /\ events' = events + 1
Needs(p, features) == [q \in DOMAIN need \cup {p} |-> IF q = p THEN features ELSE need[q]]

(* --oxide, with CORVO_LANG_LOCAL_PATH or not.  More than one line of      *)
(* corvo-lang is an error before anything is written.                      *)
RunOxide(p, features, local) ==
  /\ Event /\ Cardinality(Hits(toml)) <= 1
  /\ LET m == IF toml = <<>> THEN PackageOf(DepLine("emitted", features)) \o BinEntry(p)
              ELSE WithBin(Merged(toml, features), p)
     IN  toml' = IF local THEN WithPatch(m) ELSE m
  /\ need' = Needs(p, features)
  /\ unread' = (unread \/ Unread(toml))
  /\ outcome' = "ok"
OxideFails ==
  /\ Event /\ Cardinality(Hits(toml)) > 1
  /\ outcome' = "failed" /\ UNCHANGED <<toml, need, unread>>

(* --transpile writes `corvo-lang = "*"`, which has every feature. Into a  *)
(* manifest that is there it merges none, and so has none to itself.       *)
RunTranspile(p) ==
  /\ Event
  /\ toml' = WithBin(IF toml = <<>> THEN PackageOf(DepLine("own", Gates)) ELSE toml, p)
  /\ need' = Needs(p, {})
  /\ outcome' = "ok" /\ UNCHANGED unread

(* The user adds tables and targets, comments, features, another spelling  *)
(* of a line, or drops a program.                                          *)
Edits(p) ==
  {<<Line("table", "lib"), Line("name", p)>>, <<Line("entry", "example"), Line("name", p)>>,
   Off(BinEntry(p)), Off(<<DepLine("emitted", {})>>),
   <<Line("table", "target"), DepLine("emitted", {})>>}
AddLines == \E p \in Programs : \E lines \in Edits(p) :
  /\ toml /= <<>> /\ Event
  /\ toml' = toml \o lines
  /\ outcome' = "edited" /\ UNCHANGED <<need, unread>>
AddFeature == \E g \in Gates, i \in Hits(toml), spelling \in Spelling \ {"emitted"} :
  /\ Event
  /\ toml' = [toml EXCEPT ![i] = DepLine(spelling, @.features \cup {g})]
  /\ need' = Needs("user", {g})
  /\ outcome' = "edited" /\ UNCHANGED unread
Respell == \E i \in DOMAIN toml :
  /\ Event /\ toml[i].l = "name" /\ ~toml[i].off
  /\ toml' = [toml EXCEPT ![i].l = "naming"]   \* name="..."
  /\ outcome' = "edited" /\ UNCHANGED <<need, unread>>
DropProgram == \E p \in Programs \cap DOMAIN need, i \in DOMAIN toml :
  /\ Event /\ i < Len(toml) /\ SubSeq(toml, i, i + 1) = BinEntry(p)
  /\ toml' = RemoveAt(RemoveAt(toml, i), i)
  /\ need' = [q \in DOMAIN need \ {p} |-> need[q]]
  /\ outcome' = "edited" /\ UNCHANGED unread

ProjectNext ==
  \/ \E p \in Programs, features \in SUBSET Gates, local \in BOOLEAN : RunOxide(p, features, local)
  \/ \E p \in Programs : RunTranspile(p)
  \/ OxideFails \/ AddLines \/ AddFeature \/ Respell \/ DropProgram

ProjectSpec == ProjectInit /\ [][ProjectNext]_project
-----------------------------------------------------------------------------
(* What cargo builds, and with which features.                             *)
Executables(m, p) ==
  {i \in DOMAIN m : /\ m[i].l \in {"name", "naming"} /\ m[i].of = p /\ ~m[i].off
                    /\ Headings(m) \cap 1 .. i /= {} /\ m[Max(Headings(m) \cap 1 .. i)].l = "bin"}
FeaturesOf(m) == UNION {m[i].features : i \in {j \in DOMAIN m : Scanned(m, j) /\ m[j].l = "dep"}}

(* Text that hides a program's name or spells it otherwise.                *)
Hidden(m, p) == \E i \in DOMAIN m : m[i].l = "name" /\ m[i].of = p /\ i \notin Executables(m, p)
Respelled(m, p) == \E i \in DOMAIN m : m[i].l = "naming" /\ m[i].of = p

(* After every run each program of the directory is built, once, and       *)
(* corvo-lang has the features of all of them and those the user asked     *)
(* for, as CHEATSHEET.md promises ("existing bins and merged corvo-lang    *)
(* features are preserved"), unless it has met a line it does not read.    *)
Served ==
  outcome = "ok" =>
    \A p \in DOMAIN need :
      /\ p \in Programs /\ ~Hidden(toml, p) /\ ~Respelled(toml, p) =>
           Cardinality(Executables(toml, p)) = 1
      /\ ~unread => need[p] \subseteq FeaturesOf(toml)
==============================================================================
