---------------------------- MODULE PrepStatics ------------------------------
(***************************************************************************)
(* The prep blocks of a script and the static values they set, from the    *)
(* machine it is compiled on to the one it runs on.  Compiler::pre_execute *)
(* runs the blocks and captures the statics; `corvo --compile` embeds the  *)
(* source without its first block and the statics as encrypted JSON, and   *)
(* the executable loads them and interprets what is left; `corvo           *)
(* --transpile` writes the statics as Rust literals and no block at all.   *)
(* `corvo script` runs the blocks as pre_execute does, and then the rest.  *)
(*                                                                         *)
(* A prep block is a sequence of statements [op, name, file, kind, other]: *)
(*   set        static.set(name, e), where e reads file and is of kind     *)
(*   try        try { static.set(name, e) } fallback { static.set(other) } *)
(*   use        reads file and sets a variable                             *)
(*   terminate, exit                                                       *)
(* Reading fails where the file is missing.                                *)
(***************************************************************************)
EXTENDS Integers, Sequences

CONSTANTS
  Name,      \* the statics
  File,      \* what prep blocks read
  Programs,  \* the prep blocks of each program
  Absent,    \* no static of that name
  ReadAs,    \* ReadAs[n]: the name that rustc reads where n is written
  Unreadable \* what is written there is no string of Rust

(* Values, as far as their way into an executable differs, by what they    *)
(* are or contain: numbers that take 17 digits; NaN and the infinities, and*)
(* a map that looks like the JSON they are stored as; regular expressions, *)
(* and such a map; a map with a key that is another string between Rust's  *)
(* quotes, or none; lists and maps nested more than 126 deep; procedures,  *)
(* shared values and connections; and all others.  Altered is what differs *)
(* from all that was captured.                                             *)
Kind  == {"plain", "null", "digits", "nan", "nan_map", "regex", "regex_map",
          "escaped_key", "broken_key", "deep", "live", "altered"}
Place == {"compile", "run"}

(* A value, with the place it was computed at.                             *)
Value == [kind : Kind, at : Place]

Statement == [op : {"set", "try", "use", "terminate", "exit"},
              name : Name, file : File, kind : Kind, other : Name]

ASSUME ProgramAssumption == Programs \subseteq Seq(Seq(Statement))
ASSUME AbsentAssumption == Absent \notin Value
ASSUME NamesAssumption == Unreadable \notin Name /\ ReadAs \in [Name -> Name \cup {Unreadable}]

VARIABLES
  engine,    \* what the script is compiled to
  place,     \* where blocks are being executed: on which machine
  files,     \* the files that exist there
  blocks,    \* the prep blocks of the script
  block,     \* the one that is executed
  pos,       \* its next statement; 0: exec_stmt has not decided about it
  statics,   \* RuntimeState::statics, by the names the script has for them
  local,     \* a prep variable is bound
  ended,     \* how executing the blocks ended: "no", "main" (on to the rest),
             \* "stopped" (terminate_requested), ...
  captured,  \* history: statics and ended of the pre-execution
  before,
  reran      \* history: a prep statement was executed by the executable

vars == <<engine, place, files, blocks, block, pos, statics, local, ended,
          captured, before, reran>>

Engine == {"binary", "transpiled"}
End    == {"no", "main", "stopped", "failed", "exited", "not_built", "panicked"}

TypeOK ==
  /\ engine \in Engine
  /\ place \in Place
  /\ files \in SUBSET File
  /\ blocks \in Seq(Seq(Statement))
  /\ block \in Nat \ {0}
  /\ pos \in 0 .. IF block <= Len(blocks) THEN Len(blocks[block]) + 1 ELSE 0
  /\ statics \in [Name -> Value \cup {Absent}]
  /\ local \in BOOLEAN
  /\ ended \in End
  /\ captured \in [Name -> Value \cup {Absent}]
  /\ before \in End
  /\ reran \in BOOLEAN

NoStatics == [n \in Name |-> Absent]

Init ==
  /\ engine \in Engine
  /\ place = "compile"
  /\ files \in SUBSET File
  /\ blocks \in Programs
  /\ block = 1 /\ pos = 0
  /\ statics = NoStatics
  /\ local = FALSE
  /\ ended = "no"
  /\ captured = NoStatics /\ before = "no"
  /\ reran = FALSE
-----------------------------------------------------------------------------
(* A prep block, in Evaluator::exec_stmt.                                  *)

Sets(b)   == {b[i].name : i \in {j \in 1 .. Len(b) : b[j].op = "set"}}
Has(n)    == statics[n] # Absent
Preset(b) == Sets(b) # {} /\ \A n \in Sets(b) : Has(n)

Executing == ended = "no" /\ block <= Len(blocks) /\ pos > 0 /\ pos <= Len(blocks[block])
Current   == blocks[block][pos]
Reads     == Current.file \in files

Kept == UNCHANGED <<engine, place, files, blocks, captured, before>>

(* Every static the block itself sets is there: it is not executed.        *)
(* Mutant: one of them is enough.                                          *)
SkipBlockHalfSet ==
  /\ ended = "no" /\ block <= Len(blocks) /\ pos = 0
  /\ \E n \in Sets(blocks[block]) : Has(n)
  /\ block' = block + 1
  /\ Kept /\ UNCHANGED <<pos, statics, local, ended, reran>>

SkipBlock ==
  /\ ended = "no" /\ block <= Len(blocks) /\ pos = 0
  /\ Preset(blocks[block])
  /\ block' = block + 1
  /\ Kept /\ UNCHANGED <<pos, statics, local, ended, reran>>

EnterBlock ==
  /\ ended = "no" /\ block <= Len(blocks) /\ pos = 0
  /\ ~Preset(blocks[block])
  /\ pos' = 1
  /\ Kept /\ UNCHANGED <<block, statics, local, ended, reran>>

Went == /\ pos' = pos + 1
        /\ reran' = (reran \/ place = "run")
        /\ Kept /\ UNCHANGED <<block, ended>>

Computed == [kind |-> Current.kind, at |-> place]

(* A static that is there keeps its value, and nothing is evaluated.       *)
(* Mutant: the expression is evaluated, and the value replaced.            *)
SetAgain ==
  /\ Executing /\ Current.op = "set"
  /\ IF Reads THEN statics' = [statics EXCEPT ![Current.name] = Computed]
     ELSE Has(Current.name) /\ UNCHANGED statics
  /\ Went /\ UNCHANGED local

Set ==
  /\ Executing /\ Current.op = "set"
  /\ \/ Has(Current.name) /\ UNCHANGED statics
     \/ /\ ~Has(Current.name) /\ Reads
        /\ statics' = [statics EXCEPT ![Current.name] = Computed]
  /\ Went /\ UNCHANGED local

Try ==
  /\ Executing /\ Current.op = "try"
  /\ LET n == IF Has(Current.name) \/ Reads THEN Current.name ELSE Current.other
     IN  IF Has(n) THEN UNCHANGED statics
         ELSE statics' = [statics EXCEPT ![n] = [Computed EXCEPT !.kind = IF Reads THEN @ ELSE "plain"]]
  /\ Went /\ UNCHANGED local

Use ==
  /\ Executing /\ Current.op = "use" /\ Reads
  /\ local' = TRUE
  /\ Went /\ UNCHANGED statics

(* An error, or the exit request of sys.exit, leaves the block and run.    *)
Fails == \/ Current.op = "set" /\ ~Has(Current.name) /\ ~Reads
         \/ Current.op = "use" /\ ~Reads

Leave ==
  /\ Executing
  /\ \/ Fails /\ ended' = "failed"
     \/ Current.op = "exit" /\ ended' = "exited"
  /\ reran' = (reran \/ place = "run")
  /\ Kept /\ UNCHANGED <<block, pos, statics, local>>

(* execute_block returns at once, and its caller clears the variables.     *)
Terminate ==
  /\ Executing /\ Current.op = "terminate"
  /\ local' = FALSE
  /\ ended' = "stopped"
  /\ reran' = (reran \/ place = "run")
  /\ Kept /\ UNCHANGED <<block, pos, statics>>

EndOfBlock ==
  /\ ended = "no" /\ block <= Len(blocks) /\ pos > Len(blocks[block])
  /\ local' = FALSE
  /\ block' = block + 1 /\ pos' = 0
  /\ Kept /\ UNCHANGED <<statics, ended, reran>>

(* What follows the prep blocks; pre-execution passes over it.             *)
Main ==
  /\ ended = "no" /\ block > Len(blocks)
  /\ ended' = "main"
  /\ Kept /\ UNCHANGED <<block, pos, statics, local, reran>>
-----------------------------------------------------------------------------
(* What becomes of the captured statics in the executable.                 *)

(* JSON tells the look-alikes from nothing, and serde_json may read a      *)
(* number of 17 digits as the one next to it.                              *)
Stored(kind) ==
  CASE kind = "nan_map"   -> {"nan"}
    [] kind = "regex_map" -> {"regex"}
    [] kind = "digits"    -> {"digits", "altered"}
    [] OTHER              -> {kind}

(* Strings are quoted for Rust, the keys of maps are not; and whatever has *)
(* no literal is null.                                                     *)
Written(kind) ==
  CASE kind = "escaped_key" -> {"altered"}
    [] kind = "live"        -> {"null"}
    [] OTHER                -> {kind}

Embedded(v) ==
  {[v EXCEPT !.kind = k] : k \in IF engine = "binary" THEN Stored(v.kind) ELSE Written(v.kind)}

(* The compiler panics on what is live; rustc does not know how NaN is     *)
(* written and cannot read a broken key or name, and may give up on deep   *)
(* lists.                                                                  *)
Refused    == IF engine = "binary" THEN {"live"} ELSE {"nan", "broken_key"}
MayRefuse  == IF engine = "binary" THEN {} ELSE {"deep"}

(* A name is written into the Rust program as it is, in static_set as in   *)
(* static_get: names that read alike share what was set last.              *)
Key(n)     == IF engine = "binary" THEN n ELSE ReadAs[n]
Sharing(n) == {m \in Name : Has(m) /\ Key(m) = Key(n)}
Found(n)   == IF Sharing(n) = {} THEN {Absent} ELSE UNION {Embedded(statics[m]) : m \in Sharing(n)}
Loads      == {s \in [Name -> UNION {Found(n) : n \in Name}] :
                 \A n \in Name : s[n] \in Found(n) /\ \A m \in Name : Key(m) = Key(n) => s[m] = s[n]}

(* strip_prep_block removes the first block; the transpiler writes nothing *)
(* for any.                                                                *)
(* Mutant: the first block stays.                                          *)
LeftWithFirst == IF engine = "binary" THEN 1 ELSE Len(blocks) + 1

Left == IF engine = "binary" THEN 2 ELSE Len(blocks) + 1

Executed == place = "compile" /\ ended \notin {"no", "not_built"}

CannotBuild ==
  /\ Executed
  /\ \E n \in Name : Has(n) /\ (Key(n) = Unreadable \/ statics[n].kind \in Refused \cup MayRefuse)
  /\ ended' = "not_built" /\ before' = ended
  /\ captured' = statics
  /\ UNCHANGED <<engine, place, files, blocks, block, pos, statics, local, reran>>

(* Errors of the pre-execution are no reason not to compile; the program   *)
(* starts on another machine, or later, with other files.                  *)
Build ==
  /\ Executed
  /\ \A n \in Name : Has(n) => Key(n) # Unreadable /\ statics[n].kind \notin Refused
  /\ captured' = statics /\ before' = ended
  /\ place' = "run"
  /\ files' \in SUBSET File
  /\ block' = Left /\ pos' = 0
  /\ local' = FALSE
  /\ UNCHANGED <<engine, blocks, reran>>

(* serde_json reads no deeper than its limit.                              *)
TooDeep == engine = "binary" /\ \E n \in Name : Has(n) /\ statics[n].kind = "deep"

Start ==
  /\ Build /\ ~TooDeep
  /\ statics' \in Loads
  /\ ended' = "no"

(* load_statics_from_encrypted_bytes panics before it has set any.         *)
CannotLoad ==
  /\ Build /\ TooDeep
  /\ statics' = NoStatics
  /\ ended' = "panicked"

Done ==
  /\ \/ place = "run" /\ ended # "no"
     \/ ended = "not_built"
  /\ UNCHANGED vars

Next ==
  \/ SkipBlock \/ EnterBlock \/ Set \/ Try \/ Use \/ Leave \/ Terminate \/ EndOfBlock \/ Main
  \/ CannotBuild \/ Start \/ CannotLoad \/ Done

Spec == Init /\ [][Next]_vars
-----------------------------------------------------------------------------
(* Properties.                                                             *)

(* What was computed when the script was compiled is what the executable   *)
(* sees once it has started, whatever files are there when it runs and also*)
(* if it has to execute a block again: no static is lost, and every value  *)
(* that its way into the executable is meant for is the same, under every  *)
(* name that no other one reads like (StaticSet, statics_to_json_bytes and *)
(* load_statics_from_encrypted_bytes, value_to_rust_literal).              *)
Lossless == {"plain", "null", "regex"} \cup
            IF engine = "binary" THEN {"nan", "escaped_key", "broken_key"}
            ELSE {"digits", "nan_map", "regex_map", "deep"}
Alone(n) == \A m \in Name \ {n} : captured[m] # Absent => Key(m) # Key(n)
CapturedKept ==
  place = "run" /\ ended # "panicked" =>
    \A n \in Name :
      captured[n] # Absent =>
        /\ Has(n)
        /\ captured[n].kind \in Lossless /\ Alone(n) => statics[n] = captured[n]

(* After a pre-execution without an error, exit or terminate the           *)
(* executable executes no prep statement again, if every block but the     *)
(* first sets a static itself, not only in a try (pre_execute and the      *)
(* comment on source_without_prep).                                        *)
SetsDirectly == \A b \in 2 .. Len(blocks) : Sets(blocks[b]) # {}
RunsOnce == before = "main" /\ SetsDirectly => ~reran

(* When the rest of the program starts, interpreted or compiled, every     *)
(* static that a block sets is there and no variable of a block is.  If    *)
(* the pre-execution did not get through, the statics are there only for   *)
(* the blocks an executable has kept.                                      *)
MainIsPrepared ==
  ended = "main" =>
    /\ ~local
    /\ \A b \in 1 .. Len(blocks) :
         place = "compile" \/ before = "main" \/ b >= Left => \A n \in Sets(blocks[b]) : Has(n)
==============================================================================
