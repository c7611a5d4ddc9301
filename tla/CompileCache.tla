---------------------------- MODULE CompileCache -----------------------------
(***************************************************************************)
(* The build directory that every `corvo --compile` of a user shares, and  *)
(* `corvo --clean`, which removes it.  The directory survives compilations *)
(* so that cargo's cache does; nothing locks it.  A process writes the     *)
(* manifest, perhaps appends the patch to a local corvo-lang, writes       *)
(* src/main.rs, lets cargo build, and copies the executable it finds.      *)
(*                                                                         *)
(* Writing a file is opening it, which truncates it, and then writing all  *)
(* of it.  Removing one entry of the directory is a step of its own.  A    *)
(* process may die at any point; its cargo, if it runs, goes on.           *)
(*                                                                         *)
(* External: cargo.  It reads the manifest and main.rs when it starts;     *)
(* builds of one profile wait for each other, by a lock file in target.    *)
(***************************************************************************)
CONSTANTS
  Process,  \* the invocations of corvo
  Jobs,     \* what they may be asked to do
  None      \* no process, no executable

Profile == {"debug", "release"}
Feature == {"libc", "patch"}

(* corvo --compile with --no-debug or not, with CORVO_LANG_LOCAL_PATH or   *)
(* not, in one of the build modes; and corvo --clean.                      *)
Job == [op : {"compile"}, no_debug : BOOLEAN, local : BOOLEAN, profile : Profile]
         \cup [op : {"clean"}]

ASSUME JobsAssumption == Jobs \subseteq Job

VARIABLES
  job, pc, result,
  dir,       \* the build directory exists
  src,       \* and its directory src
  manifest,  \* Cargo.toml: which dependencies and tables it has
  main,      \* src/main.rs: the process whose program it holds
  target,    \* target/<profile>/<binary>
  unlinked,  \* the processes whose open file, or cargo's lock, has been removed
  copy,      \* what append_corvo_lang_patch_to_cargo_toml has read
  seen,      \* what cargo builds
  output,    \* the executable that the user gets
  met        \* history: the processes that ran at the same time

files == <<dir, src, manifest, main, target>>
vars  == <<job, pc, result, files, unlinked, copy, seen, output, met>>

FileState == {"missing", "empty", "whole", "garbled"}
Manifest == [is : FileState, has : SUBSET Feature]
MainFile == [is : FileState, by : Process \cup {None}]
Exe      == [by : Process, has : SUBSET Feature]

ASSUME NoneAssumption == None \notin Process \cup Exe

Step == {"new", "open_manifest", "write_manifest", "read_manifest", "reopen_manifest",
         "rewrite_manifest", "make_src", "open_main", "write_main", "build", "building", "copy",
         "orphan", "remove", "ended"}

TypeOK ==
  /\ job \in [Process -> Jobs]
  /\ pc \in [Process -> Step]
  /\ result \in [Process -> {"none", "ok", "failed", "died"}]
  /\ dir \in BOOLEAN /\ src \in BOOLEAN
  /\ manifest \in Manifest /\ main \in MainFile
  /\ target \in [Profile -> Exe \cup {None}]
  /\ unlinked \subseteq Process
  /\ copy \in [Process -> Manifest]
  /\ seen \in [Process -> Exe \cup {None}] /\ output \in [Process -> Exe \cup {None}]
  /\ met \in [Process -> SUBSET Process]
  /\ \A p \in Process : result[p] = "ok" /\ job[p].op = "compile" => output[p] # None

NoManifest == [is |-> "missing", has |-> {}]
NoMain     == [is |-> "missing", by |-> None]

Init ==
  /\ job \in [Process -> Jobs]
  /\ pc = [p \in Process |-> "new"]
  /\ result = [p \in Process |-> "none"]
  /\ dir = FALSE /\ src = FALSE
  /\ manifest = NoManifest /\ main = NoMain
  /\ target = [r \in Profile |-> None]
  /\ unlinked = {}
  /\ copy = [p \in Process |-> NoManifest]
  /\ seen = [p \in Process |-> None] /\ output = [p \in Process |-> None]
  /\ met = [p \in Process |-> {}]
-----------------------------------------------------------------------------
Active == {p \in Process : pc[p] \notin {"new", "ended"}}

Goto(p, s) == pc' = [pc EXCEPT ![p] = s] /\ UNCHANGED <<job, result, met>>
Stop(p, how) == /\ pc' = [pc EXCEPT ![p] = "ended"]
                /\ result' = [result EXCEPT ![p] = how]
                /\ UNCHANGED <<job, met>>
Fail(p) == Stop(p, "failed") /\ UNCHANGED <<files, unlinked, copy, seen, output>>

Empty(f) == [f EXCEPT !.is = "empty"]
(* What a file holds after w was written to it from its beginning: another *)
(* process may have written it since it was truncated, and something       *)
(* longer.                                                                 *)
Over(f, w) == IF f.is = "empty" \/ f = w THEN {w} ELSE {w, [w EXCEPT !.is = "garbled"]}

Own(p) == (IF job[p].no_debug THEN {"libc"} ELSE {})

(* create_build_dir; or clean_cache, which looks whether there is one.     *)
Begin(p) ==
  /\ pc[p] = "new"
  /\ met' = [q \in Process |-> IF q = p THEN Active
                               ELSE IF q \in Active THEN met[q] \cup {p} ELSE met[q]]
  /\ IF job[p].op = "compile"
       THEN dir' = TRUE /\ pc' = [pc EXCEPT ![p] = "open_manifest"] /\ UNCHANGED result
       ELSE /\ UNCHANGED dir
            /\ IF dir THEN pc' = [pc EXCEPT ![p] = "remove"] /\ UNCHANGED result
               ELSE pc' = [pc EXCEPT ![p] = "ended"] /\ result' = [result EXCEPT ![p] = "ok"]
  /\ UNCHANGED <<job, src, manifest, main, target, unlinked, copy, seen, output>>

(* generate_cargo_toml.                                                    *)
(* Mutant: a manifest that is there is kept, as in a transpiled project.   *)
OpenManifestKept(p) ==
  /\ pc[p] = "open_manifest"
  /\ IF ~dir THEN Fail(p)
     ELSE IF manifest.is # "missing"
       THEN Goto(p, "make_src") /\ UNCHANGED <<files, unlinked, copy, seen, output>>
     ELSE /\ manifest' = Empty(manifest) /\ unlinked' = unlinked \ {p}
          /\ Goto(p, "write_manifest")
          /\ UNCHANGED <<dir, src, main, target, copy, seen, output>>

Open(p, to) ==
  IF ~dir THEN Fail(p)
  ELSE /\ manifest' = Empty(manifest) /\ unlinked' = unlinked \ {p}
       /\ Goto(p, to)
       /\ UNCHANGED <<dir, src, main, target, copy, seen, output>>

Write(p, w, to) ==
  /\ IF p \in unlinked THEN UNCHANGED manifest ELSE manifest' \in Over(manifest, w)
  /\ Goto(p, to)
  /\ UNCHANGED <<dir, src, main, target, unlinked, copy, seen, output>>

OpenManifest(p) == pc[p] = "open_manifest" /\ Open(p, "write_manifest")
WriteManifest(p) ==
  /\ pc[p] = "write_manifest"
  /\ Write(p, [is |-> "whole", has |-> Own(p)], IF job[p].local THEN "read_manifest" ELSE "make_src")

(* append_corvo_lang_patch_to_cargo_toml.                                  *)
ReadManifest(p) ==
  /\ pc[p] = "read_manifest"
  /\ IF manifest.is = "missing" THEN Fail(p)
     ELSE /\ copy' = [copy EXCEPT ![p] = manifest]
          /\ Goto(p, IF manifest.is # "empty" /\ "patch" \in manifest.has THEN "make_src"
                     ELSE "reopen_manifest")
          /\ UNCHANGED <<files, unlinked, seen, output>>

ReopenManifest(p) == pc[p] = "reopen_manifest" /\ Open(p, "rewrite_manifest")

RewriteManifest(p) ==
  /\ pc[p] = "rewrite_manifest"
  /\ LET c == copy[p]
     IN  Write(p, [is  |-> IF c.is = "whole" THEN "whole" ELSE "garbled",
                   has |-> c.has \cup {"patch"}], "make_src")

(* generate_main_rs, which makes the directories that are missing.         *)
MakeSrc(p) ==
  /\ pc[p] = "make_src"
  /\ dir' = TRUE /\ src' = TRUE
  /\ Goto(p, "open_main")
  /\ UNCHANGED <<manifest, main, target, unlinked, copy, seen, output>>

OpenMain(p) ==
  /\ pc[p] = "open_main"
  /\ IF ~src THEN Fail(p)
     ELSE /\ main' = Empty(main) /\ unlinked' = unlinked \ {p}
          /\ Goto(p, "write_main")
          /\ UNCHANGED <<dir, src, manifest, target, copy, seen, output>>

WriteMain(p) ==
  /\ pc[p] = "write_main"
  /\ IF p \in unlinked THEN UNCHANGED main
     ELSE main' \in Over(main, [is |-> "whole", by |-> p])
  /\ Goto(p, "build")
  /\ UNCHANGED <<dir, src, manifest, target, unlinked, copy, seen, output>>
-----------------------------------------------------------------------------
(* run_cargo_build.  A main.rs with the anti-debugging helper needs libc.  *)
Building(r) == {q \in Process : pc[q] \in {"building", "orphan"} /\ job[q].profile = r}

Buildable ==
  /\ dir /\ manifest.is = "whole" /\ main.is = "whole"
  /\ job[main.by].no_debug => "libc" \in manifest.has

BuildStart(p) ==
  /\ pc[p] = "build"
  /\ Building(job[p].profile) \subseteq unlinked
  /\ IF ~Buildable THEN Fail(p)
     ELSE /\ seen' = [seen EXCEPT ![p] = [by |-> main.by, has |-> manifest.has]]
          /\ unlinked' = unlinked \ {p}
          /\ Goto(p, "building")
          /\ UNCHANGED <<files, copy, output>>

Cleaner(q) == job[q].op = "clean"

BuildEnd(p) ==
  /\ pc[p] = "building" /\ dir
  /\ target' = [target EXCEPT ![job[p].profile] = seen[p]]
  /\ Goto(p, "copy")
  /\ UNCHANGED <<dir, src, manifest, main, unlinked, copy, seen, output>>

(* A directory that is removed meanwhile makes cargo fail, or not.         *)
BuildFails(p) ==
  /\ pc[p] = "building" /\ \E q \in met[p] : Cleaner(q)
  /\ Fail(p)

(* Mutant: it is taken from the profile that was built last.               *)
CopyAny(p) ==
  /\ pc[p] = "copy"
  /\ \E r \in Profile : target[r] # None /\ output' = [output EXCEPT ![p] = target[r]]
  /\ Stop(p, "ok")
  /\ UNCHANGED <<files, unlinked, copy, seen>>

(* The executable is looked up and copied, and no longer locked.           *)
Copy(p) ==
  /\ pc[p] = "copy"
  /\ IF target[job[p].profile] = None THEN Fail(p)
     ELSE /\ output' = [output EXCEPT ![p] = target[job[p].profile]]
          /\ Stop(p, "ok")
          /\ UNCHANGED <<files, unlinked, copy, seen>>

(* A process is killed; its cargo is not.                                  *)
Die(p) ==
  /\ p \in Active /\ pc[p] # "orphan"
  /\ pc' = [pc EXCEPT ![p] = IF @ = "building" THEN "orphan" ELSE "ended"]
  /\ result' = [result EXCEPT ![p] = "died"]
  /\ UNCHANGED <<job, files, unlinked, copy, seen, output, met>>

OrphanEnds(p) ==
  /\ pc[p] = "orphan"
  /\ pc' = [pc EXCEPT ![p] = "ended"]
  /\ \/ dir /\ target' = [target EXCEPT ![job[p].profile] = seen[p]]
     \/ UNCHANGED target
  /\ UNCHANGED <<job, result, dir, src, manifest, main, unlinked, copy, seen, output, met>>
-----------------------------------------------------------------------------
(* clean_cache: remove_dir_all, entry by entry, and the directory itself.  *)
Removing(p) == pc[p] = "remove"

RemoveManifest(p) ==
  /\ Removing(p) /\ manifest.is # "missing"
  /\ manifest' = NoManifest
  /\ unlinked' = unlinked \cup {q \in Process : pc[q] \in {"write_manifest", "rewrite_manifest"}}
  /\ UNCHANGED <<job, pc, result, dir, src, main, target, copy, seen, output, met>>

RemoveSrc(p) ==
  /\ Removing(p) /\ src
  /\ src' = FALSE /\ main' = NoMain
  /\ unlinked' = unlinked \cup {q \in Process : pc[q] = "write_main"}
  /\ UNCHANGED <<job, pc, result, dir, manifest, target, copy, seen, output, met>>

RemoveTarget(p) ==
  /\ Removing(p)
  /\ \E r \in Profile :
       /\ target[r] # None \/ ~(Building(r) \subseteq unlinked)
       /\ target' = [target EXCEPT ![r] = None]
       /\ unlinked' = unlinked \cup Building(r)
  /\ UNCHANGED <<job, pc, result, dir, src, manifest, main, copy, seen, output, met>>

RemoveDir(p) ==
  /\ Removing(p) /\ manifest.is = "missing" /\ ~src
  /\ \A r \in Profile : target[r] = None /\ Building(r) \subseteq unlinked
  /\ dir' = FALSE
  /\ Stop(p, "ok")
  /\ UNCHANGED <<src, manifest, main, target, unlinked, copy, seen, output>>

(* An entry came back after it was listed: the directory is not empty.     *)
RemoveFails(p) ==
  /\ Removing(p) /\ met[p] # {}
  /\ Fail(p)

Done == Active = {} /\ (\A p \in Process : pc[p] = "ended") /\ UNCHANGED vars

Next ==
  \/ \E p \in Process :
       \/ Begin(p) \/ OpenManifest(p) \/ WriteManifest(p)
       \/ ReadManifest(p) \/ ReopenManifest(p) \/ RewriteManifest(p)
       \/ MakeSrc(p) \/ OpenMain(p) \/ WriteMain(p)
       \/ BuildStart(p) \/ BuildEnd(p) \/ BuildFails(p) \/ Copy(p) \/ Die(p) \/ OrphanEnds(p)
       \/ RemoveManifest(p) \/ RemoveSrc(p) \/ RemoveTarget(p) \/ RemoveDir(p) \/ RemoveFails(p)
  \/ Done

Spec == Init /\ [][Next]_vars
-----------------------------------------------------------------------------
(* Properties.                                                             *)

Compiled(p) == job[p].op = "compile" /\ pc[p] = "ended" /\ result[p] # "died"

(* Whatever earlier processes left behind, having died in the middle of    *)
(* anything, with other options or another profile: a compilation that     *)
(* meets no other process succeeds, and its executable has its own program *)
(* and its own manifest (Compiler::compile, generate_cargo_toml).          *)
UndisturbedCompiles ==
  \A p \in Process :
    Compiled(p) /\ met[p] = {} =>
      /\ result[p] = "ok"
      /\ output[p] = [by |-> p, has |-> Own(p) \cup (IF job[p].local THEN {"patch"} ELSE {})]

(* Neither p nor a process that p met has met corvo --clean.               *)
Calm(p) == \A q \in {p} \cup met[p] : \A c \in met[q] : ~Cleaner(c)

(* A compilation never hands out an executable left from before it began   *)
(* (run_cargo_build, copy_binary).  Where the cache is cleaned it may,     *)
(* also after the clean: cargo's lock goes with the rest, and a build of   *)
(* before, of a program older still, ends after the one that is copied.    *)
NeverStale ==
  \A p \in Process :
    Compiled(p) /\ result[p] = "ok" /\ Calm(p) => output[p].by \in {p} \cup met[p]
==============================================================================
