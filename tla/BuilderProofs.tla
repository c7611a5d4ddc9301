---------------------------- MODULE BuilderProofs -----------------------------
(***************************************************************************)
(* The properties of CompileCache, for any number of processes and any of  *)
(* the jobs, and of OxideManifest, for any programs, features and edits.   *)
(***************************************************************************)
EXTENDS CompileCache, OxideManifest, SequenceTheorems, FiniteSetTheorems, TLAPS

Act(p) ==
  \/ Begin(p) \/ OpenManifest(p) \/ WriteManifest(p)
  \/ ReadManifest(p) \/ ReopenManifest(p) \/ RewriteManifest(p)
  \/ MakeSrc(p) \/ OpenMain(p) \/ WriteMain(p)
  \/ BuildStart(p) \/ BuildEnd(p) \/ BuildFails(p) \/ Copy(p) \/ Die(p) \/ OrphanEnds(p)
  \/ RemoveManifest(p) \/ RemoveSrc(p) \/ RemoveTarget(p) \/ RemoveDir(p) \/ RemoveFails(p)
-----------------------------------------------------------------------------
(* Types, with what they rest on: only a clean removes, a file that was    *)
(* written has a writer, a build has something to build, and who has not   *)
(* begun has met nobody.                                                   *)
OpInv   == \A p \in Active : Cleaner(p) <=> pc[p] = "remove"
MainInv == main.is \in {"whole", "garbled"} => main.by \in Process
SeenInv == \A p \in Process : pc[p] \in {"building", "orphan"} => seen[p] \in Exe
NewInv  == \A p \in Process : pc[p] = "new" => met[p] = {}
TypeInv == TypeOK /\ OpInv /\ MainInv /\ SeenInv /\ NewInv

(* What a job says.                                                        *)
LEMMA JobFields ==
  \A j \in Jobs : /\ j.op \in {"compile", "clean"}
                  /\ j.op = "compile" => /\ j.no_debug \in BOOLEAN /\ j.local \in BOOLEAN
                                         /\ j.profile \in Profile
  BY JobsAssumption DEF Job

(* The steps are the processes' and the last, empty one.                   *)
LEMMA NextActs == Next <=> (\E p \in Process : Act(p)) \/ Done
  BY DEF Next, Act

(* A write leaves what was written, or a garbled form of it.               *)
LEMMA OverIs ==
  ASSUME NEW f, NEW w, NEW g \in Over(f, w)
  PROVE  g = w \/ g = [w EXCEPT !.is = "garbled"]
  BY DEF Over

(* Truncating a file leaves whose it was.                                  *)
LEMMA EmptyIs ==
  /\ \A f \in Manifest : Empty(f) \in Manifest /\ Empty(f).is = "empty" /\ Empty(f).has = f.has
  /\ \A f \in MainFile : Empty(f) \in MainFile /\ Empty(f).is = "empty" /\ Empty(f).by = f.by
  BY DEF Empty, Manifest, MainFile, FileState

LEMMA OwnType == \A p \in Process : Own(p) \subseteq Feature
  BY DEF Own, Feature

LEMMA TypeInit == Init => TypeInv
<1> SUFFICES ASSUME Init PROVE TypeInv
  OBVIOUS
<1>1. TypeOK
  BY DEF Init, TypeOK, NoManifest, NoMain, Manifest, MainFile, FileState, Step, Profile, Exe
<1>2. OpInv /\ MainInv /\ SeenInv /\ NewInv
  BY DEF Init, OpInv, MainInv, SeenInv, NewInv, Active, NoMain
<1> QED
  BY <1>1, <1>2 DEF TypeInv

(* A process that gives up, and one that truncates the manifest.           *)
LEMMA FailTyped ==
  ASSUME TypeInv, NEW p \in Active, ~Cleaner(p), Fail(p)
  PROVE  TypeInv'
<1> USE DEF TypeInv, TypeOK, OpInv, MainInv, SeenInv, NewInv, Active, Cleaner, files, Fail, Stop, Step
<1>1. /\ pc' \in [Process -> Step] /\ result' \in [Process -> {"none", "ok", "failed", "died"}]
      /\ UNCHANGED <<job, met, dir, src, manifest, main, target, unlinked, copy, seen, output>>
  OBVIOUS
<1>2. \A q \in Process : result'[q] = "ok" => result[q] = "ok"
  OBVIOUS
<1>3. TypeOK'
  BY <1>1, <1>2
<1>4. OpInv'
  BY <1>1
<1>5. MainInv' /\ SeenInv' /\ NewInv'
  BY <1>1
<1> QED BY <1>3, <1>4, <1>5

LEMMA OpenTyped ==
  ASSUME TypeInv, NEW p \in Active, ~Cleaner(p), NEW to \in {"write_manifest", "rewrite_manifest"}, Open(p, to)
  PROVE  TypeInv'
<1>1. CASE ~dir
  BY <1>1, FailTyped DEF Open
<1>2. CASE dir
  <2> USE DEF TypeInv, TypeOK, OpInv, MainInv, SeenInv, NewInv, Active, Cleaner, files, Goto, Step
  <2>1. /\ manifest' = Empty(manifest) /\ unlinked' \subseteq Process /\ pc' = [pc EXCEPT ![p] = to]
        /\ UNCHANGED <<job, result, met, dir, src, main, target, copy, seen, output>>
    BY <1>2 DEF Open
  <2>2. manifest' \in Manifest
    BY <2>1, EmptyIs
  <2>3. pc' \in [Process -> Step]
    BY <2>1
  <2>4. TypeOK'
    BY <2>1, <2>2, <2>3
  <2>5. OpInv'
    BY <2>1
  <2>6. MainInv' /\ SeenInv' /\ NewInv'
    BY <2>1
  <2> QED BY <2>4, <2>5, <2>6
<1> QED BY <1>1, <1>2

LEMMA TypeStep == TypeInv /\ [Next]_vars => TypeInv'
<1> SUFFICES ASSUME TypeInv, Next \/ UNCHANGED vars PROVE TypeInv'
  OBVIOUS
<1> USE DEF TypeInv
<1>0. CASE UNCHANGED vars
  BY <1>0 DEF vars, files, TypeOK, OpInv, MainInv, SeenInv, NewInv, Active, Cleaner
<1>1. ASSUME NEW p \in Process, Act(p) PROVE TypeInv'
  <2> USE DEF TypeOK, OpInv, MainInv, SeenInv, NewInv, Active, Cleaner, files, Goto, Stop, Fail, Step
  <2> USE JobFields
  <2>1. CASE Begin(p)
    <3>1. met' \in [Process -> SUBSET Process]
      <4>1. \A q \in Process : (IF q = p THEN Active ELSE IF q \in Active THEN met[q] \cup {p}
                                ELSE met[q]) \in SUBSET Process
        OBVIOUS
      <4> QED
        BY <2>1, <4>1 DEF Begin
    <3>2. NewInv' /\ OpInv'
      BY <2>1 DEF Begin
    <3> QED
      <4>1. /\ pc' \in [Process -> Step] /\ dir' \in BOOLEAN
            /\ result' \in [Process -> {"none", "ok", "failed", "died"}]
        BY ZenonT(60), <2>1 DEF Begin
      <4>2. SeenInv' /\ MainInv'
        BY <2>1 DEF Begin
      <4>3. /\ UNCHANGED <<job, src, manifest, main, target, unlinked, copy, seen, output>>
            /\ \A q \in Process : result'[q] = "ok" /\ job[q].op = "compile" => result[q] = "ok"
        BY <2>1 DEF Begin
      <4> QED
        BY <3>1, <3>2, <4>1, <4>2, <4>3
  <2>2. CASE OpenManifest(p)
    <3>1. p \in Active /\ ~Cleaner(p) /\ Open(p, "write_manifest")
      BY <2>2 DEF OpenManifest
    <3> QED BY <3>1, OpenTyped
  <2>3. CASE WriteManifest(p)
    <3>1. manifest' \in Manifest
      BY <2>3, OverIs, OwnType DEF WriteManifest, Write, Manifest, FileState
    <3>2. /\ pc' = [pc EXCEPT ![p] = IF job[p].local THEN "read_manifest" ELSE "make_src"]
          /\ UNCHANGED <<job, result, met, dir, src, main, target, unlinked, copy, seen, output>>
          /\ p \in Active /\ ~Cleaner(p)
      BY <2>3 DEF WriteManifest, Write
    <3>3. pc' \in [Process -> Step]
      BY <3>2
    <3>4. TypeOK'
      BY <3>1, <3>2, <3>3
    <3>5. OpInv' /\ MainInv' /\ SeenInv' /\ NewInv'
      BY <3>2
    <3> QED BY <3>4, <3>5
  <2>4. CASE ReadManifest(p)
    <3>1. p \in Active /\ ~Cleaner(p)
      BY <2>4 DEF ReadManifest
    <3>2. CASE manifest.is = "missing"
      BY <2>4, <3>1, <3>2, FailTyped DEF ReadManifest
    <3>3. CASE manifest.is # "missing"
      <4>1. /\ copy' = [copy EXCEPT ![p] = manifest]
            /\ \E s \in {"make_src", "reopen_manifest"} : pc' = [pc EXCEPT ![p] = s]
            /\ UNCHANGED <<job, result, met, dir, src, manifest, main, target, unlinked, seen, output>>
        BY <2>4, <3>3 DEF ReadManifest
      <4>2. pc' \in [Process -> Step] /\ copy' \in [Process -> Manifest]
        BY <4>1
      <4>3. TypeOK'
        BY <4>1, <4>2
      <4>4. OpInv' /\ MainInv' /\ SeenInv' /\ NewInv'
        BY <3>1, <4>1
      <4> QED BY <4>3, <4>4
    <3> QED BY <3>2, <3>3
  <2>5. CASE ReopenManifest(p)
    <3>1. p \in Active /\ ~Cleaner(p) /\ Open(p, "rewrite_manifest")
      BY <2>5 DEF ReopenManifest
    <3> QED BY <3>1, OpenTyped
  <2>6. CASE RewriteManifest(p)
    <3> DEFINE w == [is  |-> IF copy[p].is = "whole" THEN "whole" ELSE "garbled",
                     has |-> copy[p].has \cup {"patch"}]
    <3>1. w \in Manifest /\ [w EXCEPT !.is = "garbled"] \in Manifest
      BY DEF Manifest, FileState, Feature
    <3>2. manifest' \in Manifest
      BY <2>6, <3>1, OverIs DEF RewriteManifest, Write
    <3> QED
      BY <2>6, <3>2 DEF RewriteManifest, Write
  <2>7. CASE MakeSrc(p)
    BY <2>7 DEF MakeSrc
  <2>8. CASE OpenMain(p)
    <3>1. main' = main \/ (main' \in MainFile /\ main'.is = "empty")
      BY <2>8, EmptyIs DEF OpenMain
    <3> QED
      <4>1. MainInv'
        BY <3>1
      <4>2. /\ pc' \in [Process -> Step] /\ unlinked' \subseteq Process
            /\ result' \in [Process -> {"none", "ok", "failed", "died"}]
        BY <2>8 DEF OpenMain
      <4>3. OpInv' /\ SeenInv' /\ NewInv'
        BY <2>8 DEF OpenMain
      <4>4. /\ UNCHANGED <<job, dir, src, manifest, target, copy, seen, output, met>>
            /\ \A q \in Process : result'[q] = "ok" => result[q] = "ok"
        BY <2>8 DEF OpenMain
      <4> QED
        BY <3>1, <4>1, <4>2, <4>3, <4>4
  <2>9. CASE WriteMain(p)
    <3>1. /\ pc[p] = "write_main" /\ pc' = [pc EXCEPT ![p] = "build"] /\ p \in Active /\ ~Cleaner(p)
          /\ UNCHANGED <<job, result, met, dir, src, manifest, target, unlinked, copy, seen, output>>
      BY <2>9 DEF WriteMain
    <3>2. main' \in MainFile
      BY <2>9, OverIs DEF WriteMain, MainFile, FileState
    <3>3. main' = main \/ main'.by = p
      BY <2>9, OverIs DEF WriteMain
    <3>4. MainInv' /\ SeenInv'
      BY <3>1, <3>2, <3>3
    <3>5. OpInv' /\ NewInv'
      BY <3>1
    <3>6. TypeOK'
      BY <3>1, <3>2
    <3> QED
      BY <3>4, <3>5, <3>6
  <2>10. CASE BuildStart(p)
    <3>1. Buildable => [by |-> main.by, has |-> manifest.has] \in Exe
      BY DEF Buildable, Exe, Manifest
    <3> QED
      BY SMTT(30), <2>10, <3>1 DEF BuildStart
  <2>11. CASE BuildEnd(p)
    BY <2>11 DEF BuildEnd
  <2>12. CASE BuildFails(p)
    BY <2>12 DEF BuildFails
  <2>13. CASE Copy(p)
    <3>1. job[p].profile \in Profile
      BY <2>13 DEF Copy
    <3>2. target[job[p].profile] \in Exe \cup {None}
      BY <3>1
    <3>3. p \in Active /\ ~Cleaner(p)
      BY <2>13 DEF Copy
    <3>4. CASE target[job[p].profile] = None
      BY <2>13, <3>3, <3>4, FailTyped DEF Copy
    <3>5. CASE target[job[p].profile] # None
      <4>1. /\ output' = [output EXCEPT ![p] = target[job[p].profile]]
            /\ pc' = [pc EXCEPT ![p] = "ended"] /\ result' = [result EXCEPT ![p] = "ok"]
            /\ UNCHANGED <<job, met, dir, src, manifest, main, target, unlinked, copy, seen>>
        BY <2>13, <3>5 DEF Copy
      <4>2. /\ pc' \in [Process -> Step] /\ output' \in [Process -> Exe \cup {None}]
            /\ result' \in [Process -> {"none", "ok", "failed", "died"}]
        BY <3>2, <4>1
      <4>3. \A q \in Process : result'[q] = "ok" /\ job[q].op = "compile" => output'[q] # None
        BY <3>5, <4>1
      <4>4. TypeOK'
        BY <4>1, <4>2, <4>3
      <4>5. OpInv' /\ MainInv' /\ SeenInv' /\ NewInv'
        BY <3>3, <4>1
      <4> QED BY <4>4, <4>5
    <3> QED BY <3>4, <3>5
  <2>14. CASE Die(p)
    BY <2>14 DEF Die
  <2>15. CASE OrphanEnds(p)
    BY <2>15 DEF OrphanEnds
  <2>16. CASE RemoveManifest(p)
    BY <2>16 DEF RemoveManifest, Removing, NoManifest, Manifest, FileState
  <2>17. CASE RemoveSrc(p)
    BY <2>17 DEF RemoveSrc, Removing, NoMain, MainFile, FileState
  <2>18. CASE RemoveTarget(p)
    BY <2>18 DEF RemoveTarget, Removing, Building
  <2>19. CASE RemoveDir(p)
    BY <2>19 DEF RemoveDir, Removing
  <2>20. CASE RemoveFails(p)
    BY <2>20 DEF RemoveFails, Removing
  <2> QED
    BY <1>1, <2>1, <2>2, <2>3, <2>4, <2>5, <2>6, <2>7, <2>8, <2>9, <2>10, <2>11, <2>12, <2>13,
       <2>14, <2>15, <2>16, <2>17, <2>18, <2>19, <2>20 DEF Act
<1> QED
  BY <1>0, <1>1, NextActs DEF Done

(* The type invariant, for any processes and jobs.                         *)
THEOREM TypeCorrect == Spec => []TypeOK
<1>1. Spec => []TypeInv
  BY TypeInit, TypeStep, PTL DEF Spec
<1>2. TypeInv => TypeOK
  BY DEF TypeInv
<1> QED
  BY <1>1, <1>2, PTL
-----------------------------------------------------------------------------
(* Whoever is under way has met everyone else who is; and only a clean     *)
(* that was under way took somebody's open file or lock.                   *)
MetInv  == \A p, q \in Active : p # q => q \in met[p]
LostInv == \A p \in unlinked : \E c \in met[p] : Cleaner(c)

(* A step is that of one process: others stay where they are.              *)
LEMMA OthersStay ==
  ASSUME TypeInv, NEW p \in Process, Act(p), NEW q \in Process, q # p
  PROVE  /\ pc'[q] = pc[q] /\ result'[q] = result[q] /\ copy'[q] = copy[q]
         /\ seen'[q] = seen[q] /\ output'[q] = output[q]
<1> USE DEF TypeInv, TypeOK, files, Goto, Stop, Fail
<1>1. CASE Begin(p) \/ OpenManifest(p) \/ WriteManifest(p) \/ ReadManifest(p) \/ ReopenManifest(p)
  BY <1>1 DEF Begin, OpenManifest, Open, WriteManifest, Write, ReadManifest, ReopenManifest
<1>2. CASE RewriteManifest(p) \/ MakeSrc(p) \/ OpenMain(p) \/ WriteMain(p) \/ BuildStart(p)
  BY <1>2 DEF RewriteManifest, Write, MakeSrc, OpenMain, WriteMain, BuildStart
<1>3. CASE BuildEnd(p) \/ BuildFails(p) \/ Copy(p) \/ Die(p) \/ OrphanEnds(p)
  BY <1>3 DEF BuildEnd, BuildFails, Copy, Die, OrphanEnds
<1>4. CASE RemoveManifest(p) \/ RemoveSrc(p) \/ RemoveTarget(p) \/ RemoveDir(p) \/ RemoveFails(p)
  BY <1>4 DEF RemoveManifest, RemoveSrc, RemoveTarget, RemoveDir, RemoveFails
<1> QED
  BY <1>1, <1>2, <1>3, <1>4 DEF Act

(* Jobs never change; only a process that begins meets others, and any     *)
(* other that takes a step was under way.                                  *)
LEMMA JobsStay ==
  ASSUME TypeInv, NEW p \in Process, Act(p)
  PROVE  job' = job /\ (Begin(p) \/ (p \in Active /\ met' = met))
<1> USE DEF TypeInv, TypeOK, files, Goto, Stop, Fail, Active
<1>1. CASE Begin(p) \/ OpenManifest(p) \/ WriteManifest(p) \/ ReadManifest(p) \/ ReopenManifest(p)
  BY <1>1 DEF Begin, OpenManifest, Open, WriteManifest, Write, ReadManifest, ReopenManifest
<1>2. CASE RewriteManifest(p) \/ MakeSrc(p) \/ OpenMain(p) \/ WriteMain(p) \/ BuildStart(p)
  BY <1>2 DEF RewriteManifest, Write, MakeSrc, OpenMain, WriteMain, BuildStart
<1>3. CASE BuildEnd(p) \/ BuildFails(p) \/ Copy(p) \/ Die(p) \/ OrphanEnds(p)
  BY <1>3 DEF BuildEnd, BuildFails, Copy, Die, OrphanEnds
<1>4. CASE RemoveManifest(p) \/ RemoveSrc(p) \/ RemoveTarget(p) \/ RemoveDir(p) \/ RemoveFails(p)
  BY <1>4 DEF RemoveManifest, RemoveSrc, RemoveTarget, RemoveDir, RemoveFails, Removing
<1> QED
  BY <1>1, <1>2, <1>3, <1>4 DEF Act

(* Nobody is forgotten.                                                    *)
LEMMA MetGrows ==
  ASSUME TypeInv, NEW p \in Process, Act(p)
  PROVE  \A q \in Process : met[q] \subseteq met'[q]
<1>1. CASE Begin(p)
  BY <1>1 DEF Begin, TypeInv, TypeOK, NewInv
<1>2. CASE met' = met
  BY <1>2
<1> QED
  BY <1>1, <1>2, JobsStay

LEMMA MetStep ==
  ASSUME TypeInv, MetInv, NEW p \in Process, Act(p)
  PROVE  MetInv'
<1>1. CASE Begin(p)
  <2> SUFFICES ASSUME NEW q \in Active', NEW r \in Active', q # r PROVE r \in met'[q]
    BY DEF MetInv
  <2>1. \A x \in Active' : x \in Process /\ (x = p \/ x \in Active)
    BY OthersStay DEF Active
  <2>2. \A x \in Process : met'[x] = IF x = p THEN Active
                                     ELSE IF x \in Active THEN met[x] \cup {p} ELSE met[x]
    BY <1>1 DEF Begin
  <2> QED
    BY <2>1, <2>2 DEF MetInv
<1>2. CASE p \in Active /\ met' = met
  <2>1. Active' \subseteq Active
    BY <1>2, OthersStay DEF Active
  <2> QED
    BY <1>2, <2>1 DEF MetInv
<1> QED
  BY <1>1, <1>2, JobsStay

(* Who loses something has it open, or builds, and so is under way.        *)
LEMMA LostBy ==
  ASSUME TypeInv, NEW p \in Process, Act(p), NEW q \in unlinked', q \notin unlinked
  PROVE  Cleaner(p) /\ p \in Active /\ q \in Active /\ q # p
<1> USE DEF TypeInv, TypeOK, files, Goto, Stop, Fail
<1>1. CASE Begin(p) \/ OpenManifest(p) \/ WriteManifest(p) \/ ReadManifest(p) \/ ReopenManifest(p)
  BY <1>1 DEF Begin, OpenManifest, Open, WriteManifest, Write, ReadManifest, ReopenManifest
<1>2. CASE RewriteManifest(p) \/ MakeSrc(p) \/ OpenMain(p) \/ WriteMain(p) \/ BuildStart(p)
  BY <1>2 DEF RewriteManifest, Write, MakeSrc, OpenMain, WriteMain, BuildStart
<1>3. CASE BuildEnd(p) \/ BuildFails(p) \/ Copy(p) \/ Die(p) \/ OrphanEnds(p)
  BY <1>3 DEF BuildEnd, BuildFails, Copy, Die, OrphanEnds
<1>4. CASE RemoveManifest(p) \/ RemoveSrc(p) \/ RemoveTarget(p)
  BY <1>4 DEF RemoveManifest, RemoveSrc, RemoveTarget, Removing, Building, OpInv, Active, Cleaner
<1>5. CASE RemoveDir(p) \/ RemoveFails(p)
  BY <1>5 DEF RemoveDir, RemoveFails, Removing
<1> QED
  BY <1>1, <1>2, <1>3, <1>4, <1>5 DEF Act

LEMMA LostStep ==
  ASSUME TypeInv, MetInv, LostInv, NEW p \in Process, Act(p)
  PROVE  LostInv'
<1> SUFFICES ASSUME NEW q \in unlinked' PROVE \E c \in met'[q] : Cleaner(c)'
  BY DEF LostInv
<1>1. q \in Process /\ met[q] \subseteq met'[q]
  BY MetGrows, TypeStep, NextActs DEF TypeInv, TypeOK
<1>2. \A c : Cleaner(c)' <=> Cleaner(c)
  BY JobsStay DEF Cleaner
<1>3. CASE q \in unlinked
  BY <1>1, <1>2, <1>3 DEF LostInv
<1>4. CASE q \notin unlinked
  BY <1>1, <1>2, <1>4, LostBy DEF MetInv
<1> QED
  BY <1>3, <1>4
-----------------------------------------------------------------------------
(* A compilation that is alone in the directory: what it finds is what it  *)
(* left there a step before, wherever it is.                               *)
Alone(p)   == job[p].op = "compile" /\ met[p] = {}
Patched(p) == Own(p) \cup (IF job[p].local THEN {"patch"} ELSE {})
Result(p)  == [by |-> p, has |-> Patched(p)]

Manifested(p) ==
  /\ pc[p] = "open_manifest" => dir
  /\ pc[p] = "write_manifest" => dir /\ p \notin unlinked /\ manifest.is = "empty"
  /\ pc[p] = "read_manifest" =>
       dir /\ job[p].local /\ manifest = [is |-> "whole", has |-> Own(p)]
  /\ pc[p] = "reopen_manifest" =>
       dir /\ job[p].local /\ copy[p] = [is |-> "whole", has |-> Own(p)]
  /\ pc[p] = "rewrite_manifest" =>
       /\ dir /\ job[p].local /\ p \notin unlinked /\ manifest.is = "empty"
       /\ copy[p] = [is |-> "whole", has |-> Own(p)]
  /\ pc[p] \in {"make_src", "open_main", "write_main", "build"} =>
       manifest = [is |-> "whole", has |-> Patched(p)]
MainWritten(p) ==
  /\ pc[p] \in {"open_main", "write_main", "build"} => dir /\ src
  /\ pc[p] = "write_main" => p \notin unlinked /\ main.is = "empty"
  /\ pc[p] = "build" => main = [is |-> "whole", by |-> p]
Built(p) ==
  /\ pc[p] = "building" => seen[p] = Result(p)
  /\ pc[p] = "copy" => target[job[p].profile] = Result(p)
  /\ pc[p] = "ended" /\ result[p] # "died" => result[p] = "ok" /\ output[p] = Result(p)
AloneInv == \A p \in Process : Alone(p) => Manifested(p) /\ MainWritten(p) /\ Built(p)

(* Only a dead process' build is an orphan.                                *)
OrphanInv == \A p \in Process : pc[p] = "orphan" => result[p] = "died"

LEMMA OrphanStep ==
  ASSUME TypeInv, OrphanInv, NEW p \in Process, Act(p)
  PROVE  OrphanInv'
<1> SUFFICES ASSUME pc'[p] = "orphan" PROVE result'[p] = "died"
  BY OthersStay DEF OrphanInv
<1> USE DEF TypeInv, TypeOK, files, Goto, Stop, Fail
<1>1. CASE Begin(p) \/ OpenManifest(p) \/ WriteManifest(p) \/ ReadManifest(p) \/ ReopenManifest(p)
  BY <1>1 DEF Begin, OpenManifest, Open, WriteManifest, Write, ReadManifest, ReopenManifest
<1>2. CASE RewriteManifest(p) \/ MakeSrc(p) \/ OpenMain(p) \/ WriteMain(p) \/ BuildStart(p)
  BY <1>2 DEF RewriteManifest, Write, MakeSrc, OpenMain, WriteMain, BuildStart
<1>3. CASE BuildEnd(p) \/ BuildFails(p) \/ Copy(p) \/ Die(p) \/ OrphanEnds(p)
  BY <1>3 DEF BuildEnd, BuildFails, Copy, Die, OrphanEnds
<1>4. CASE RemoveManifest(p) \/ RemoveSrc(p) \/ RemoveTarget(p) \/ RemoveDir(p) \/ RemoveFails(p)
  BY <1>4 DEF RemoveManifest, RemoveSrc, RemoveTarget, RemoveDir, RemoveFails, Removing
<1> QED
  BY <1>1, <1>2, <1>3, <1>4 DEF Act

(* A write to an empty file leaves what was written.                       *)
LEMMA OverEmpty == \A f, w : f.is = "empty" => Over(f, w) = {w}
  BY DEF Over

(* It takes no step that a clean takes.                                    *)
LEMMA AloneActs ==
  ASSUME TypeInv, NEW p \in Process, Act(p), job[p].op = "compile"
  PROVE  ~(RemoveManifest(p) \/ RemoveSrc(p) \/ RemoveTarget(p) \/ RemoveDir(p) \/ RemoveFails(p))
  BY DEF TypeInv, OpInv, Active, Cleaner, Removing,
         RemoveManifest, RemoveSrc, RemoveTarget, RemoveDir, RemoveFails

LEMMA AloneStep ==
  ASSUME TypeInv, MetInv, OrphanInv, AloneInv, NEW p \in Process, Act(p)
  PROVE  AloneInv'
<1> SUFFICES ASSUME NEW q \in Process, Alone(q)'
             PROVE  (Manifested(q) /\ MainWritten(q) /\ Built(q))'
  BY DEF AloneInv
<1>1. Alone(q) /\ job' = job
  BY MetGrows, JobsStay DEF Alone
<1>2. Manifested(q) /\ MainWritten(q) /\ Built(q)
  BY <1>1 DEF AloneInv
<1>3. CASE q # p
  <2>1. q \notin Active
    <3>1. CASE Begin(p)
      BY <1>3, <3>1 DEF Begin, Alone
    <3>2. CASE p \in Active /\ met' = met
      BY <1>3, <3>2 DEF MetInv, Alone
    <3> QED
      BY <3>1, <3>2, JobsStay
  <2>2. pc'[q] = pc[q] /\ result'[q] = result[q] /\ output'[q] = output[q]
    BY <1>3, OthersStay
  <2>3. Result(q)' = Result(q)
    BY <1>1 DEF Result, Patched, Own
  <2> QED
    BY <1>2, <2>1, <2>2, <2>3 DEF Manifested, MainWritten, Built, Active
<1>4. CASE q = p
  <2>1. /\ job[p].op = "compile" /\ met[p] = {} /\ met'[p] = {}
        /\ job[p].profile \in Profile /\ job[p].local \in BOOLEAN
    BY <1>1, <1>4, JobFields DEF Alone, TypeInv, TypeOK
  <2>2. Own(p)' = Own(p) /\ Patched(p)' = Patched(p) /\ Result(p)' = Result(p)
    BY <1>1 DEF Result, Patched, Own
  <2> USE <1>1, <1>2, <1>4, <2>1, <2>2
  <2> USE DEF TypeInv, TypeOK, files, Goto, Stop, Fail
  <2>3. CASE Begin(p)
    BY <2>3 DEF Begin, Manifested, MainWritten, Built
  <2>4. CASE OpenManifest(p)
    BY <2>4, EmptyIs DEF OpenManifest, Open, Manifested, MainWritten, Built
  <2>5. CASE WriteManifest(p)
    <3>1. manifest' = [is |-> "whole", has |-> Own(p)]
      BY <2>5, OverEmpty DEF WriteManifest, Write, Manifested
    <3>2. ~job[p].local => Patched(p) = Own(p)
      BY DEF Patched
    <3> QED
      BY <2>5, <3>1, <3>2 DEF WriteManifest, Write, Manifested, MainWritten, Built
  <2>6. CASE ReadManifest(p)
    <3>1. "patch" \notin Own(p)
      BY DEF Own
    <3> QED
      <4>1. /\ manifest = [is |-> "whole", has |-> Own(p)] /\ dir /\ job[p].local
            /\ pc[p] = "read_manifest"
        BY <2>6 DEF ReadManifest, Manifested
      <4>2. manifest.is = "whole" /\ manifest.has = Own(p)
        BY <4>1
      <4>3. /\ copy'[p] = manifest /\ pc' = [pc EXCEPT ![p] = "reopen_manifest"]
            /\ UNCHANGED <<dir, job, met>>
        BY <2>6, <3>1, <4>2 DEF ReadManifest
      <4>4. pc'[p] = "reopen_manifest"
        BY <4>3
      <4> QED
        BY <4>1, <4>3, <4>4 DEF Manifested, MainWritten, Built
  <2>7. CASE ReopenManifest(p)
    BY <2>7, EmptyIs DEF ReopenManifest, Open, Manifested, MainWritten, Built
  <2>8. CASE RewriteManifest(p)
    <3>1. manifest' = [is |-> "whole", has |-> Patched(p)]
      BY <2>8, OverEmpty DEF RewriteManifest, Write, Manifested, Patched
    <3> QED
      BY <2>8, <3>1 DEF RewriteManifest, Write, Manifested, MainWritten, Built
  <2>9. CASE MakeSrc(p)
    BY <2>9 DEF MakeSrc, Manifested, MainWritten, Built
  <2>10. CASE OpenMain(p)
    BY <2>10, EmptyIs DEF OpenMain, Manifested, MainWritten, Built
  <2>11. CASE WriteMain(p)
    <3>1. main' = [is |-> "whole", by |-> p]
      BY <2>11, OverEmpty DEF WriteMain, MainWritten
    <3> QED
      BY <2>11, <3>1 DEF WriteMain, Manifested, MainWritten, Built
  <2>12. CASE BuildStart(p)
    <3>1. Buildable
      BY <2>12 DEF BuildStart, Buildable, Manifested, MainWritten, Patched, Own
    <3> QED
      BY <2>12, <3>1 DEF BuildStart, Manifested, MainWritten, Built, Result
  <2>13. CASE BuildEnd(p)
    BY <2>13 DEF BuildEnd, Manifested, MainWritten, Built
  <2>14. CASE BuildFails(p)
    BY <2>14 DEF BuildFails
  <2>15. CASE Copy(p)
    <3>1. target[job[p].profile] = Result(p) /\ Result(p) # None
      <4>1. Result(p) \in Exe
        BY OwnType DEF Result, Exe, Patched, Feature
      <4> QED
        BY <2>15, <4>1, NoneAssumption DEF Copy, Built
    <3> QED
      BY <2>15, <3>1 DEF Copy, Manifested, MainWritten, Built
  <2>16. CASE Die(p)
    BY <2>16 DEF Die, Manifested, MainWritten, Built
  <2>17. CASE OrphanEnds(p)
    <3>1. pc'[p] = "ended" /\ result'[p] = "died"
      <4>1. pc[p] = "orphan" /\ pc' = [pc EXCEPT ![p] = "ended"] /\ result' = result
        BY <2>17 DEF OrphanEnds
      <4>2. result[p] = "died"
        BY <4>1 DEF OrphanInv
      <4> QED
        BY <4>1, <4>2
    <3> QED
      BY <3>1 DEF Manifested, MainWritten, Built
  <2> QED
    BY <2>3, <2>4, <2>5, <2>6, <2>7, <2>8, <2>9, <2>10, <2>11, <2>12, <2>13, <2>14, <2>15, <2>16,
       <2>17, AloneActs DEF Act
<1> QED
  BY <1>3, <1>4
-----------------------------------------------------------------------------
(* A calm compilation, from the moment it has written main.rs: every       *)
(* program that is there, built or found, is its own or that of a process  *)
(* it met.  It builds alone, for nobody it met has lost cargo's lock, and  *)
(* who builds while it copies began with a main.rs of these.               *)
Known(p)   == {p} \cup met[p]
Settled(p) ==
  /\ pc[p] \in {"build", "building", "copy"} => main.by \in Known(p)
  /\ pc[p] = "building" => Building(job[p].profile) = {p} /\ seen[p].by \in Known(p)
  /\ pc[p] = "copy" =>
       /\ target[job[p].profile] # None => target[job[p].profile].by \in Known(p)
       /\ \A q \in Building(job[p].profile) : seen[q].by \in Known(p)
  /\ pc[p] = "ended" /\ result[p] = "ok" => output[p].by \in Known(p)
CalmInv == \A p \in Process : job[p].op = "compile" /\ Calm(p) => Settled(p)

(* Whose program main.rs holds changes only with a write, to the writer's, *)
(* and with a clean.                                                       *)
LEMMA MainBy ==
  ASSUME TypeInv, NEW p \in Process, Act(p), ~Cleaner(p)
  PROVE  main'.by \in {p, main.by}
<1> USE DEF TypeInv, TypeOK, files, Goto, Stop, Fail
<1>1. CASE Begin(p) \/ OpenManifest(p) \/ WriteManifest(p) \/ ReadManifest(p) \/ ReopenManifest(p)
  BY <1>1 DEF Begin, OpenManifest, Open, WriteManifest, Write, ReadManifest, ReopenManifest
<1>2. CASE RewriteManifest(p) \/ MakeSrc(p) \/ BuildStart(p)
  BY <1>2 DEF RewriteManifest, Write, MakeSrc, BuildStart
<1>3. CASE OpenMain(p)
  BY <1>3, EmptyIs DEF OpenMain
<1>4. CASE WriteMain(p)
  BY <1>4, OverIs DEF WriteMain
<1>5. CASE BuildEnd(p) \/ BuildFails(p) \/ Copy(p) \/ Die(p) \/ OrphanEnds(p)
  BY <1>5 DEF BuildEnd, BuildFails, Copy, Die, OrphanEnds
<1>6. CASE RemoveManifest(p) \/ RemoveSrc(p) \/ RemoveTarget(p) \/ RemoveDir(p) \/ RemoveFails(p)
  BY <1>6 DEF OpInv, Active, Removing, Cleaner,
              RemoveManifest, RemoveSrc, RemoveTarget, RemoveDir, RemoveFails
<1> QED
  BY <1>1, <1>2, <1>3, <1>4, <1>5, <1>6 DEF Act

(* What cargo builds, and an executable, change with cargo alone.          *)
LEMMA BuiltBy ==
  ASSUME TypeInv, NEW p \in Process, Act(p), ~Cleaner(p)
  PROVE  /\ \A r \in Profile : \/ target'[r] = target[r]
                               \/ p \in Building(r) /\ target'[r] = seen[p]
         /\ \A r : \A q \in Building(r)' :
              \/ q \in Building(r) /\ seen'[q] = seen[q]
              \/ /\ q = p /\ seen'[q].by = main.by /\ BuildStart(p)
                 /\ r = job[p].profile
<1> USE DEF TypeInv, TypeOK, files, Goto, Stop, Fail, Building
<1>1. CASE Begin(p) \/ OpenManifest(p) \/ WriteManifest(p) \/ ReadManifest(p) \/ ReopenManifest(p)
  BY <1>1 DEF Begin, OpenManifest, Open, WriteManifest, Write, ReadManifest, ReopenManifest
<1>2. CASE RewriteManifest(p) \/ MakeSrc(p) \/ OpenMain(p) \/ WriteMain(p)
  BY <1>2 DEF RewriteManifest, Write, MakeSrc, OpenMain, WriteMain
<1>3. CASE BuildStart(p)
  BY <1>3 DEF BuildStart
<1>4. CASE BuildEnd(p) \/ OrphanEnds(p)
  BY <1>4 DEF BuildEnd, OrphanEnds
<1>5. CASE BuildFails(p) \/ Copy(p) \/ Die(p)
  BY <1>5 DEF BuildFails, Copy, Die
<1>6. CASE RemoveManifest(p) \/ RemoveSrc(p) \/ RemoveTarget(p) \/ RemoveDir(p) \/ RemoveFails(p)
  BY <1>6 DEF OpInv, Active, Removing, Cleaner,
              RemoveManifest, RemoveSrc, RemoveTarget, RemoveDir, RemoveFails
<1> QED
  BY <1>1, <1>2, <1>3, <1>4, <1>5, <1>6 DEF Act
(* Nobody a calm compilation met is a clean, or lost anything to one.      *)
LEMMA CalmKnows ==
  ASSUME TypeInv, MetInv, LostInv, NEW q \in Process, job[q].op = "compile", Calm(q), q \in Active
  PROVE  \A x \in Active \cup {q} : x \in Known(q) /\ ~Cleaner(x) /\ x \notin unlinked
<1>1. q \in Process /\ \A x \in Active : x \in Known(q)
  BY DEF MetInv, Known, Active
<1>2. \A x \in Known(q) : \A c \in met[x] : ~Cleaner(c)
  BY DEF Calm, Known
<1>3. \A x \in Known(q) : ~Cleaner(x)
  BY <1>2 DEF Known, Cleaner
<1> QED
  BY <1>1, <1>2, <1>3 DEF LostInv, Known

LEMMA CalmStep ==
  ASSUME TypeInv, MetInv, LostInv, OrphanInv, CalmInv, NEW p \in Process, Act(p)
  PROVE  CalmInv'
<1> SUFFICES ASSUME NEW q \in Process, job'[q].op = "compile", Calm(q)'
             PROVE  Settled(q)'
  BY DEF CalmInv
<1>1. job' = job /\ job[q].op = "compile" /\ job[q].profile \in Profile
  BY JobsStay, JobFields DEF TypeInv, TypeOK
<1>2. Calm(q) /\ Known(q) \subseteq Known(q)'
  BY <1>1, MetGrows DEF Calm, Known, Cleaner, TypeInv, TypeOK
<1>3. Settled(q)
  BY <1>1, <1>2 DEF CalmInv
<1>4. p \in Active \/ Begin(p)
  BY JobsStay
<1>5. CASE q # p
  <2>1. pc'[q] = pc[q] /\ result'[q] = result[q] /\ seen'[q] = seen[q] /\ output'[q] = output[q]
    BY <1>5, OthersStay
  <2>2. CASE q \notin Active
    BY <1>2, <1>3, <2>1, <2>2 DEF Settled, Active
  <2>3. CASE q \in Active /\ p \in Active
    <3>1. p \in Known(q) /\ ~Cleaner(p) /\ q \notin unlinked
      BY <1>1, <1>2, <2>3, CalmKnows
    <3>2. main.by \in Known(q) => main'.by \in Known(q)
      BY <3>1, MainBy
    <3>3. /\ target'[job[q].profile] = target[job[q].profile] \/
             (p \in Building(job[q].profile) /\ target'[job[q].profile] = seen[p])
          /\ \A x \in Building(job[q].profile)' :
               \/ x \in Building(job[q].profile) /\ seen'[x] = seen[x]
               \/ /\ x = p /\ seen'[x].by = main.by /\ BuildStart(p)
                  /\ job[q].profile = job[p].profile
      BY <1>1, <3>1, BuiltBy
    <3>4. pc[q] = "building" => Building(job[q].profile)' = {q}
      <4> SUFFICES ASSUME pc[q] = "building" PROVE Building(job[q].profile)' = {q}
        OBVIOUS
      <4>1. Building(job[q].profile) = {q}
        BY <1>3 DEF Settled
      <4>2. q \in Building(job[q].profile)'
        BY <1>1, <2>1 DEF Building
      <4>3. ~(BuildStart(p) /\ job[q].profile = job[p].profile)
        BY <4>1, <3>1 DEF BuildStart
      <4> QED
        BY <3>3, <4>1, <4>2, <4>3
    <3> QED
      BY <1>1, <1>2, <1>3, <2>1, <3>2, <3>3, <3>4 DEF Settled
  <2>4. CASE q \in Active /\ Begin(p)
    <3>1. /\ UNCHANGED <<main, target, seen>>
          /\ \A x \in Process : pc'[x] \in {"building", "orphan"} <=> pc[x] \in {"building", "orphan"}
      BY <2>4 DEF Begin, TypeInv, TypeOK
    <3>2. Building(job[q].profile)' = Building(job[q].profile)
      BY <1>1, <3>1 DEF Building
    <3> QED
      BY <1>1, <1>2, <1>3, <2>1, <3>1, <3>2 DEF Settled
  <2> QED
    BY <1>4, <2>2, <2>3, <2>4
<1>6. CASE q = p
  <2>1. p \in Active => \A x \in Active \cup {p} : x \in Known(p) /\ ~Cleaner(x) /\ x \notin unlinked
    BY <1>1, <1>2, <1>6, CalmKnows
  <2> USE <1>1, <1>2, <1>3, <1>6
  <2> USE DEF TypeInv, TypeOK, files, Goto, Stop, Fail
  <2>2. CASE Begin(p)
    BY <2>2 DEF Begin, Settled
  <2>3. CASE OpenManifest(p) \/ WriteManifest(p) \/ ReadManifest(p) \/ ReopenManifest(p)
    BY <2>3 DEF OpenManifest, Open, WriteManifest, Write, ReadManifest, ReopenManifest, Settled
  <2>4. CASE RewriteManifest(p) \/ MakeSrc(p) \/ OpenMain(p)
    BY <2>4 DEF RewriteManifest, Write, MakeSrc, OpenMain, Settled
  <2>5. CASE WriteMain(p)
    <3>1. pc'[p] = "build" /\ p \notin unlinked
      BY <2>1, <2>5 DEF WriteMain, Active
    <3>2. main'.by = p
      BY <2>5, <3>1, OverIs DEF WriteMain
    <3> QED
      BY <3>1, <3>2 DEF Settled, Known
  <2>6. CASE BuildStart(p)
    <3>1. p \in Active /\ pc[p] = "build"
      BY <2>6 DEF BuildStart, Active
    <3>2. Building(job[p].profile) = {}
      BY <2>1, <2>6, <3>1 DEF BuildStart, Building, Active
    <3>3. CASE Buildable
      <4>1. /\ pc' = [pc EXCEPT ![p] = "building"]
            /\ seen' = [seen EXCEPT ![p] = [by |-> main.by, has |-> manifest.has]]
        BY <2>6, <3>3 DEF BuildStart
      <4>2. main.by \in Known(p)
        BY <3>1 DEF Settled
      <4>3. pc'[p] = "building" /\ seen'[p].by \in Known(p)' /\ main'.by \in Known(p)'
        BY <2>6, <3>3, <4>1, <4>2 DEF BuildStart
      <4>4. Building(job[p].profile)' = {p}
        <5>1. \A x \in Process : x # p => pc'[x] = pc[x]
          BY <4>1
        <5>2. \A x \in Process : x \notin Building(job[p].profile)
          BY <3>2
        <5> QED
          BY <4>3, <5>1, <5>2 DEF Building
      <4> QED
        BY <4>3, <4>4 DEF Settled
    <3>4. CASE ~Buildable
      BY <2>6, <3>4 DEF BuildStart, Settled
    <3> QED
      BY <3>3, <3>4
  <2>7. CASE BuildEnd(p)
    <3>1. /\ pc[p] = "building" /\ pc' = [pc EXCEPT ![p] = "copy"] /\ main' = main
          /\ target'[job[p].profile] = seen[p]
      BY <2>7 DEF BuildEnd
    <3>2. Building(job[p].profile)' = {}
      BY <3>1 DEF Building, Settled
    <3> QED
      BY <3>1, <3>2 DEF Settled
  <2>8. CASE BuildFails(p) \/ Die(p) \/ OrphanEnds(p)
    <3>1. pc'[p] \in {"ended", "orphan"} /\ (pc'[p] = "ended" => result'[p] # "ok")
      <4>1. CASE BuildFails(p)
        BY <4>1 DEF BuildFails
      <4>2. CASE Die(p)
        BY <4>2 DEF Die
      <4>3. CASE OrphanEnds(p)
        BY <4>3 DEF OrphanEnds, OrphanInv
      <4> QED
        BY <2>8, <4>1, <4>2, <4>3
    <3> QED
      BY <3>1 DEF Settled
  <2>9. CASE Copy(p)
    BY <2>9 DEF Copy, Settled
  <2> QED
    BY <2>2, <2>3, <2>4, <2>5, <2>6, <2>7, <2>8, <2>9, AloneActs DEF Act
<1> QED
  BY <1>5, <1>6
-----------------------------------------------------------------------------
IInv == TypeInv /\ MetInv /\ LostInv /\ OrphanInv /\ AloneInv /\ CalmInv

LEMMA Inductive == Spec => []IInv
<1>1. Init => IInv
  <2> SUFFICES ASSUME Init PROVE IInv
    OBVIOUS
  <2>1. /\ \A p \in Process : pc[p] = "new" /\ p \notin unlinked
        /\ Active = {} /\ unlinked = {}
    BY DEF Init, Active
  <2> QED
    BY <2>1, TypeInit DEF IInv, MetInv, LostInv, OrphanInv, AloneInv, Manifested, MainWritten,
                          Built, CalmInv, Settled
<1>2. IInv /\ [Next]_vars => IInv'
  <2> SUFFICES ASSUME IInv, [Next]_vars PROVE IInv'
    OBVIOUS
  <2>1. TypeInv'
    BY TypeStep DEF IInv
  <2>2. ASSUME NEW p \in Process, Act(p) PROVE IInv'
    BY <2>1, <2>2, MetStep, LostStep, OrphanStep, AloneStep, CalmStep DEF IInv
  <2>3. CASE UNCHANGED vars
    BY <2>1, <2>3 DEF IInv, vars, files, MetInv, LostInv, OrphanInv, AloneInv, CalmInv, Active,
         Cleaner, Alone, Manifested, MainWritten, Built, Result, Patched, Own, Settled, Known, Calm,
         Building
  <2> QED
    BY <2>2, <2>3, NextActs DEF Done
<1> QED
  BY <1>1, <1>2, PTL DEF Spec

(* Whatever earlier processes left behind: a compilation that meets no     *)
(* other succeeds, with its own program and its own manifest.              *)
THEOREM AloneSucceeds == Spec => []UndisturbedCompiles
<1>1. IInv => UndisturbedCompiles
  BY DEF IInv, AloneInv, UndisturbedCompiles, Compiled, Alone, Built, Result, Patched
<1> QED
  BY <1>1, Inductive, PTL

(* However compilations overlap, and wherever they die: one that met no    *)
(* clean, not even through another, hands out its own program or that of   *)
(* a process that it met.                                                  *)
THEOREM NothingStale == Spec => []NeverStale
<1>1. IInv => NeverStale
  BY DEF IInv, CalmInv, NeverStale, Compiled, Settled, Known
<1> QED
  BY <1>1, Inductive, PTL
-----------------------------------------------------------------------------
(* Manifests.                                                              *)
Kinds   == {"table", "bin", "entry", "name", "naming", "dep"}
Words   == Programs \cup Spelling \cup
             {"", "package", "dependencies", "profile", "project", "lib", "example", "target", "patch"}
LineSet == [l : Kinds, of : Words, features : SUBSET Gates, off : BOOLEAN]

Heading(x) == x.l \in {"table", "bin", "entry"} /\ ~x.off
Naming(x)  == x.l \in {"name", "naming"} /\ ~x.off

(* The lines the code and the user write.                                  *)
LEMMA LineFields ==
  ASSUME NEW l, NEW of
  PROVE  Line(l, of) = [l |-> l, of |-> of, features |-> {}, off |-> FALSE]
  BY DEF Line

LEMMA DepLineIs ==
  ASSUME NEW s \in Spelling, NEW f \in SUBSET Gates
  PROVE  /\ DepLine(s, f) \in LineSet
         /\ DepLine(s, f).l = "dep" /\ DepLine(s, f).of = s
         /\ DepLine(s, f).features = f /\ DepLine(s, f).off = FALSE
<1>1. Line("dep", s) \in LineSet
  BY LineFields DEF LineSet, Kinds, Words
<1>2. Line("dep", s).l = "dep" /\ Line("dep", s).of = s /\ Line("dep", s).off = FALSE
  BY LineFields
<1> QED
  BY <1>1, <1>2 DEF DepLine, LineSet

LEMMA PairSeq ==
  ASSUME NEW S, NEW x \in S, NEW y \in S
  PROVE  <<x, y>> \in Seq(S)
  OBVIOUS

LEMMA LineTypes ==
  /\ \A l \in Kinds, of \in Words : Line(l, of) \in LineSet
  /\ \A s \in Spelling, f \in SUBSET Gates : DepLine(s, f) \in LineSet
  /\ \A p \in Programs : BinEntry(p) \in Seq(LineSet)
  /\ \A d \in LineSet : PackageOf(d) \in Seq(LineSet)
<1>1. \A l \in Kinds, of \in Words : Line(l, of) \in LineSet
  BY LineFields DEF LineSet
<1>2. \A s \in Spelling, f \in SUBSET Gates : DepLine(s, f) \in LineSet
  BY DepLineIs
<1>3. ASSUME NEW p \in Programs PROVE BinEntry(p) \in Seq(LineSet)
  <2>1. Line("bin", "") \in LineSet /\ Line("name", p) \in LineSet
    BY <1>1 DEF Kinds, Words
  <2> QED
    BY <2>1, PairSeq DEF BinEntry
<1>4. ASSUME NEW d \in LineSet PROVE PackageOf(d) \in Seq(LineSet)
  <2>1. /\ Line("table", "package") \in LineSet /\ Line("name", "project") \in LineSet
        /\ Line("table", "dependencies") \in LineSet /\ Line("table", "profile") \in LineSet
    BY <1>1 DEF Kinds, Words
  <2> QED
    BY <2>1 DEF PackageOf
<1> QED
  BY <1>1, <1>2, <1>3, <1>4

(* A nonempty set of places has a last one, which Max picks.               *)
LEMMA MaxIs ==
  ASSUME NEW n \in Nat, NEW S \in SUBSET (1 .. n), S # {}
  PROVE  Max(S) \in S /\ \A y \in S : y <= Max(S)
<1> DEFINE T == {n - x : x \in S}
<1>1. T \subseteq Nat /\ T # {}
  <2>1. PICK x : x \in S
    OBVIOUS
  <2>2. n - x \in T
    BY <2>1
  <2> QED
    BY <2>2
<1>2. \E x \in T : \A y \in T : ~(<<y, x>> \in OpToRel(<, Nat))
  <2> HIDE DEF T
  <2> QED
    BY <1>1, NatLessThanWellFounded, WFMin
<1>3. PICK x \in T : \A y \in T : ~(y < x)
  BY <1>1, <1>2 DEF OpToRel
<1>4. PICK z \in S : x = n - z
  BY <1>3
<1>5. \A y \in S : z >= y
  BY <1>3, <1>4
<1>6. \E m \in S : \A y \in S : m >= y
  BY <1>5
<1>7. Max(S) \in S /\ \A y \in S : Max(S) >= y
  BY <1>6 DEF Max
<1> QED
  BY <1>7

(* The heading a line stands under.                                        *)
Under(m, i, h) ==
  h \in Headings(m) /\ h <= i /\ \A x \in Headings(m) : x <= i => x <= h

Above(m, i) == {h \in Headings(m) : h <= i}

LEMMA UnderIsMax ==
  ASSUME NEW m \in Seq(LineSet), NEW i \in DOMAIN m
  PROVE  \A h : Under(m, i, h) <=> Above(m, i) # {} /\ h = Max(Above(m, i))
<1>1. Above(m, i) \in SUBSET (1 .. Len(m)) /\ Len(m) \in Nat /\ DOMAIN m = 1 .. Len(m)
  BY LenProperties DEF Above, Headings
<1>2. Above(m, i) # {} => /\ Max(Above(m, i)) \in Above(m, i)
                          /\ \A y \in Above(m, i) : y <= Max(Above(m, i))
  BY <1>1, MaxIs
<1>3. Above(m, i) # {} => Under(m, i, Max(Above(m, i)))
  BY <1>1, <1>2 DEF Under, Above
<1>4. ASSUME NEW h, Under(m, i, h) PROVE Above(m, i) # {} /\ h = Max(Above(m, i))
  <2>1. h \in Above(m, i)
    BY <1>4 DEF Under, Above
  <2>2. Max(Above(m, i)) \in Headings(m) /\ Max(Above(m, i)) <= i
    BY <1>2, <2>1 DEF Above
  <2>3. Max(Above(m, i)) <= h /\ h <= Max(Above(m, i))
    BY <1>2, <1>4, <2>1, <2>2 DEF Under
  <2>4. h \in Int /\ Max(Above(m, i)) \in Int
    BY <1>1, <1>2, <2>1
  <2> QED
    BY <2>1, <2>3, <2>4
<1> QED
  BY <1>3, <1>4

LEMMA UnderIs ==
  ASSUME NEW m \in Seq(LineSet), NEW i \in DOMAIN m
  PROVE  /\ \A h : Under(m, i, h) => TableAt(m, i) = m[h].of
         /\ TableAt(m, i) # "" => \E h : Under(m, i, h)
<1>1. TableAt(m, i) = IF Above(m, i) = {} THEN "" ELSE m[Max(Above(m, i))].of
  BY DEF TableAt, Above
<1> QED
  BY <1>1, UnderIsMax

LEMMA ScannedIs ==
  ASSUME NEW m \in Seq(LineSet), NEW i \in DOMAIN m
  PROVE  Scanned(m, i) <=> /\ ~m[i].off
                           /\ \E h : Under(m, i, h) /\ m[h].of \in {"dependencies", "target"}
  BY UnderIs DEF Scanned

(* A program's executables.                                                *)
LEMMA ExecutablesAre ==
  ASSUME NEW m \in Seq(LineSet), NEW p
  PROVE  Executables(m, p) = {i \in DOMAIN m : /\ Naming(m[i]) /\ m[i].of = p
                                               /\ \E h : Under(m, i, h) /\ m[h].l = "bin"}
<1>1. Len(m) \in Nat /\ DOMAIN m = 1 .. Len(m)
  BY LenProperties
<1>2. ASSUME NEW i \in DOMAIN m
      PROVE  (Headings(m) \cap 1 .. i # {} /\ m[Max(Headings(m) \cap 1 .. i)].l = "bin")
               <=> \E h : Under(m, i, h) /\ m[h].l = "bin"
  <2>1. Headings(m) \cap 1 .. i = Above(m, i)
    BY <1>1 DEF Headings, Above
  <2> QED
    BY <2>1, UnderIsMax
<1> QED
  BY <1>2 DEF Executables, Naming
-----------------------------------------------------------------------------
(* What the code and the user keep to: a name stands right below the       *)
(* heading of its table or target, and a manifest begins with the package  *)
(* and corvo-lang's line.                                                  *)
Paired(m) == \A i \in DOMAIN m : Naming(m[i]) => i > 1 /\ Heading(m[i - 1])
Framed(m) == /\ Len(m) >= 4
             /\ m[1] = Line("table", "package") /\ m[2].l \in {"name", "naming"}
             /\ m[3] = Line("table", "dependencies") /\ m[4].l = "dep" /\ ~m[4].off
             /\ m[4].of \in Spelling

(* A program whose name is written as the code writes it, and nowhere else,*)
(* is there at most once, and at least once if it was added.               *)
NameLines(m, p) == {i \in DOMAIN m : m[i].l = "name" /\ m[i].of = p}
Shown(m, p) == /\ \A i \in NameLines(m, p) : i > 1 /\ ~m[i].off /\ m[i - 1].l = "bin"
               /\ ~Respelled(m, p)
Once(m, added) ==
  \A p \in Programs :
    Shown(m, p) => /\ \A i, j \in NameLines(m, p) : i = j
                   /\ p \in added => NameLines(m, p) # {}

LEMMA UnderName ==
  ASSUME NEW m \in Seq(LineSet), Paired(m), NEW i \in DOMAIN m, Naming(m[i])
  PROVE  \A h : Under(m, i, h) <=> h = i - 1
<1>1. Len(m) \in Nat /\ DOMAIN m = 1 .. Len(m)
  BY LenProperties
<1>2. i - 1 \in Headings(m) /\ i \notin Headings(m)
  BY <1>1 DEF Paired, Headings, Heading, Naming
<1>3. Under(m, i, i - 1)
  BY <1>1, <1>2 DEF Under, Headings
<1> QED
  BY <1>3, UnderIsMax

(* Such a program's names are its executables.                             *)
LEMMA ShownIs ==
  ASSUME NEW m \in Seq(LineSet), Paired(m), NEW p
  PROVE  ~Hidden(m, p) /\ ~Respelled(m, p) =>
           Shown(m, p) /\ Executables(m, p) = NameLines(m, p)
<1> SUFFICES ASSUME ~Hidden(m, p), ~Respelled(m, p)
             PROVE  Shown(m, p) /\ Executables(m, p) = NameLines(m, p)
  OBVIOUS
<1>1. NameLines(m, p) \subseteq Executables(m, p)
  BY DEF Hidden, NameLines
<1>2. ASSUME NEW i \in Executables(m, p)
      PROVE  i \in DOMAIN m /\ Naming(m[i]) /\ m[i].of = p /\ m[i - 1].l = "bin" /\ i > 1
  <2>1. i \in DOMAIN m /\ Naming(m[i]) /\ m[i].of = p
    BY ExecutablesAre
  <2>2. PICK h : Under(m, i, h) /\ m[h].l = "bin"
    BY ExecutablesAre
  <2> QED
    BY <2>1, <2>2, UnderName DEF Paired
<1>3. Executables(m, p) \subseteq NameLines(m, p)
  BY <1>2 DEF Respelled, NameLines, Naming
<1> QED
  BY <1>1, <1>2, <1>3 DEF Shown, Naming

(* Such a name is found where it is looked for.                            *)
LEMMA HasBinIs ==
  ASSUME NEW m \in Seq(LineSet), NEW p
  PROVE  /\ HasBin(m, p) => NameLines(m, p) # {}
         /\ Shown(m, p) /\ NameLines(m, p) # {} => HasBin(m, p)
<1>1. HasBin(m, p) => NameLines(m, p) # {}
  BY DEF HasBin, NameLines
<1>2. ASSUME Shown(m, p), NEW i \in NameLines(m, p) PROVE HasBin(m, p)
  <2>1. Len(m) \in Nat /\ DOMAIN m = 1 .. Len(m)
    BY LenProperties
  <2>2. i - 1 \in DOMAIN m /\ i \in DOMAIN m /\ i - 1 < i
    BY <1>2, <2>1 DEF Shown, NameLines
  <2>3. m[i - 1].l = "bin" /\ m[i].l = "name" /\ m[i].of = p
    BY <1>2 DEF Shown, NameLines
  <2>4. \A j \in (i - 1) + 1 .. i : j = i
    BY <2>1, <2>2
  <2> QED
    BY <2>2, <2>3, <2>4 DEF HasBin
<1> QED
  BY <1>1, <1>2

(* The features of corvo-lang, one by one.                                 *)
LEMMA FeaturesAre ==
  ASSUME NEW m
  PROVE  FeaturesOf(m) = {g \in UNION {m[i].features : i \in DOMAIN m} :
            \E i \in DOMAIN m : Scanned(m, i) /\ m[i].l = "dep" /\ g \in m[i].features}
  BY DEF FeaturesOf
-----------------------------------------------------------------------------
(* Appending.                                                              *)
LEMMA Appended ==
  ASSUME NEW m \in Seq(LineSet), NEW x \in Seq(LineSet)
  PROVE  /\ m \o x \in Seq(LineSet) /\ Len(m \o x) = Len(m) + Len(x)
         /\ DOMAIN m = 1 .. Len(m) /\ DOMAIN x = 1 .. Len(x) /\ DOMAIN (m \o x) = 1 .. Len(m) + Len(x)
         /\ Len(m) \in Nat /\ Len(x) \in Nat
         /\ \A i \in DOMAIN m : (m \o x)[i] = m[i]
         /\ \A i \in DOMAIN x : (m \o x)[Len(m) + i] = x[i]
         /\ \A i \in DOMAIN (m \o x) : i \in DOMAIN m \/ (i - Len(m) \in DOMAIN x /\ (m \o x)[i] = x[i - Len(m)])
<1>1. /\ m \o x \in Seq(LineSet) /\ Len(m \o x) = Len(m) + Len(x)
      /\ \A i \in 1 .. Len(m) + Len(x) : (m \o x)[i] = IF i <= Len(m) THEN m[i] ELSE x[i - Len(m)]
  BY ConcatProperties
<1>2. /\ DOMAIN m = 1 .. Len(m) /\ DOMAIN x = 1 .. Len(x) /\ DOMAIN (m \o x) = 1 .. Len(m) + Len(x)
      /\ Len(m) \in Nat /\ Len(x) \in Nat
  BY <1>1, LenProperties
<1> QED
  BY <1>1, <1>2

LEMMA AppendKeeps ==
  ASSUME NEW m \in Seq(LineSet), NEW x \in Seq(LineSet)
  PROVE  /\ FeaturesOf(m) \subseteq FeaturesOf(m \o x)
         /\ Framed(m) => Framed(m \o x)
         /\ Paired(m) /\ Paired(x) => Paired(m \o x)
         /\ \A p : Shown(m \o x, p) => Shown(m, p)
         /\ \A p : NameLines(m, p) \subseteq NameLines(m \o x, p)
<1> DEFINE n == m \o x
<1>1. /\ n \in Seq(LineSet) /\ Len(n) = Len(m) + Len(x)
      /\ DOMAIN m = 1 .. Len(m) /\ DOMAIN x = 1 .. Len(x) /\ DOMAIN n = 1 .. Len(m) + Len(x)
      /\ Len(m) \in Nat /\ Len(x) \in Nat
      /\ \A i \in DOMAIN m : i \in DOMAIN n /\ n[i] = m[i]
      /\ \A i \in DOMAIN x : n[Len(m) + i] = x[i]
      /\ \A i \in DOMAIN n : i \in DOMAIN m \/ (i - Len(m) \in DOMAIN x /\ n[i] = x[i - Len(m)])
  BY Appended
<1> HIDE DEF n
<1>2. \A i \in DOMAIN m : i \in Headings(n) <=> i \in Headings(m)
  BY <1>1 DEF Headings
<1>3. \A i \in DOMAIN m : \A h : Under(n, i, h) <=> Under(m, i, h)
  <2> TAKE i \in DOMAIN m
  <2>1. \A h \in Headings(n) : h <= i => h \in Headings(m)
    BY <1>1, <1>2 DEF Headings
  <2>2. Headings(m) \subseteq Headings(n)
    BY <1>2 DEF Headings
  <2> QED
    BY <2>1, <2>2 DEF Under
<1>4. \A i \in DOMAIN m : Scanned(m, i) => Scanned(n, i)
  <2> TAKE i \in DOMAIN m
  <2>1. i \in DOMAIN n /\ n[i] = m[i] /\ \A h : Under(m, i, h) => Under(n, i, h) /\ n[h] = m[h]
    BY <1>1, <1>3 DEF Under, Headings
  <2> QED
    <3>1. Scanned(m, i) => ~m[i].off /\ \E h : Under(m, i, h) /\ m[h].of \in {"dependencies", "target"}
      BY ScannedIs
    <3>2. ~n[i].off /\ (\E h : Under(n, i, h) /\ n[h].of \in {"dependencies", "target"}) => Scanned(n, i)
      BY <1>1, <2>1, ScannedIs
    <3> QED
      BY <2>1, <3>1, <3>2
<1>5. FeaturesOf(m) \subseteq FeaturesOf(n)
  <2> SUFFICES ASSUME NEW g \in FeaturesOf(m) PROVE g \in FeaturesOf(n)
    OBVIOUS
  <2>1. PICK i \in DOMAIN m : Scanned(m, i) /\ m[i].l = "dep" /\ g \in m[i].features
    BY FeaturesAre
  <2>2. i \in DOMAIN n /\ Scanned(n, i) /\ n[i].l = "dep" /\ g \in n[i].features
    BY <1>1, <1>4, <2>1
  <2> QED
    BY <2>2, FeaturesAre
<1>6. Framed(m) => Framed(n)
  <2> SUFFICES ASSUME Framed(m) PROVE Framed(n)
    OBVIOUS
  <2>1. Len(n) >= 4 /\ 1 \in DOMAIN m /\ 2 \in DOMAIN m /\ 3 \in DOMAIN m /\ 4 \in DOMAIN m
    BY <1>1 DEF Framed
  <2>2. n[1] = m[1] /\ n[2] = m[2] /\ n[3] = m[3] /\ n[4] = m[4]
    BY <1>1, <2>1
  <2> QED
    BY <2>1, <2>2 DEF Framed
<1>7. Paired(m) /\ Paired(x) => Paired(n)
  <2> SUFFICES ASSUME Paired(m), Paired(x), NEW i \in DOMAIN n, Naming(n[i])
               PROVE  i > 1 /\ Heading(n[i - 1])
    BY DEF Paired
  <2>1. CASE i \in DOMAIN m
    <3>1. i > 1 /\ Heading(m[i - 1]) /\ n[i - 1] = m[i - 1]
      BY <1>1, <2>1 DEF Paired
    <3> QED
      BY <3>1
  <2>2. CASE i \notin DOMAIN m
    <3> DEFINE k == i - Len(m)
    <3>1. k \in DOMAIN x /\ n[i] = x[k] /\ i = Len(m) + k
      BY <1>1, <2>2
    <3>2. k > 1 /\ Heading(x[k - 1])
      BY <3>1 DEF Paired
    <3>3. k - 1 \in DOMAIN x /\ n[Len(m) + (k - 1)] = x[k - 1] /\ Len(m) + (k - 1) = i - 1
      BY <1>1, <3>1, <3>2
    <3> QED
      BY <1>1, <3>1, <3>2, <3>3
  <2> QED
    BY <2>1, <2>2
<1>8. \A p : NameLines(m, p) \subseteq NameLines(n, p)
  BY <1>1 DEF NameLines
<1>9. \A p : Shown(n, p) => Shown(m, p)
  <2> SUFFICES ASSUME NEW p, Shown(n, p) PROVE Shown(m, p)
    OBVIOUS
  <2>1. ~Respelled(m, p)
    BY <1>1 DEF Shown, Respelled
  <2>2. ASSUME NEW i \in NameLines(m, p) PROVE i > 1 /\ ~m[i].off /\ m[i - 1].l = "bin"
    <3>1. i \in DOMAIN m /\ i > 1 /\ ~n[i].off /\ n[i - 1].l = "bin"
      BY <1>8 DEF Shown, NameLines
    <3>2. i - 1 \in DOMAIN m
      BY <1>1, <3>1
    <3> QED
      BY <1>1, <3>1, <3>2
  <2> QED
    BY <2>1, <2>2 DEF Shown
<1> QED
  BY <1>5, <1>6, <1>7, <1>8, <1>9 DEF n

(* What is appended names no program that stays shown: nothing changes for *)
(* those.                                                                  *)
LEMMA AppendOnce ==
  ASSUME NEW m \in Seq(LineSet), NEW x \in Seq(LineSet), NEW added, Once(m, added),
         \A p \in Programs : Shown(m \o x, p) => NameLines(x, p) = {}
  PROVE  Once(m \o x, added)
<1> DEFINE n == m \o x
<1>1. ASSUME NEW p \in Programs, Shown(n, p) PROVE Shown(m, p) /\ NameLines(n, p) = NameLines(m, p)
  <2>1. Shown(m, p) /\ NameLines(m, p) \subseteq NameLines(n, p) /\ NameLines(x, p) = {}
    BY <1>1, AppendKeeps
  <2>2. ASSUME NEW i \in NameLines(n, p) PROVE i \in NameLines(m, p)
    <3>1. i \in DOMAIN n /\ n[i].l = "name" /\ n[i].of = p
      BY DEF NameLines
    <3>2. i \in DOMAIN m \/ (i - Len(m) \in DOMAIN x /\ n[i] = x[i - Len(m)])
      BY <3>1, Appended
    <3>3. i \in DOMAIN m /\ n[i] = m[i]
      BY <2>1, <3>1, <3>2, Appended DEF NameLines
    <3> QED
      BY <3>1, <3>3 DEF NameLines
  <2> QED
    BY <2>1, <2>2
<1> QED
  BY <1>1 DEF Once

LEMMA TwoLines ==
  ASSUME NEW y \in LineSet, NEW z \in LineSet, ~Naming(y), Naming(z) => Heading(y)
  PROVE  /\ <<y, z>> \in Seq(LineSet) /\ Len(<<y, z>>) = 2
         /\ <<y, z>>[1] = y /\ <<y, z>>[2] = z
         /\ \A i \in DOMAIN <<y, z>> : i = 1 \/ i = 2
         /\ Paired(<<y, z>>)
<1>1. \A x : x = <<y, z>> => /\ x \in Seq(LineSet) /\ Len(x) = 2 /\ x[1] = y /\ x[2] = z
  BY PairSeq
<1>2. ASSUME NEW x \in Seq(LineSet), Len(x) = 2, x[1] = y, x[2] = z
      PROVE  Paired(x) /\ \A i \in DOMAIN x : i = 1 \/ i = 2
  <2>1. DOMAIN x = 1 .. 2
    BY <1>2, LenProperties
  <2>2. \A i \in DOMAIN x : i = 1 \/ i = 2
    BY <2>1
  <2> QED
    BY <1>2, <2>2 DEF Paired
<1> QED
  BY <1>1, <1>2

LEMMA BinEntryIs ==
  ASSUME NEW p \in Programs
  PROVE  /\ BinEntry(p) \in Seq(LineSet) /\ Len(BinEntry(p)) = 2
         /\ BinEntry(p)[1].l = "bin" /\ ~BinEntry(p)[1].off
         /\ BinEntry(p)[1].of \notin {"dependencies", "target"}
         /\ BinEntry(p)[2].l = "name" /\ BinEntry(p)[2].of = p /\ ~BinEntry(p)[2].off
         /\ Paired(BinEntry(p))
<1>1. /\ Line("bin", "").l = "bin" /\ ~Line("bin", "").off
      /\ Line("bin", "").of \notin {"dependencies", "target"}
      /\ Line("name", p).l = "name" /\ Line("name", p).of = p /\ ~Line("name", p).off
      /\ Line("bin", "") \in LineSet /\ Line("name", p) \in LineSet
  BY LineFields, LineTypes DEF Kinds, Words
<1>2. ~Naming(Line("bin", "")) /\ Heading(Line("bin", ""))
  BY <1>1 DEF Naming, Heading
<1> QED
  BY <1>1, <1>2, TwoLines DEF BinEntry

(* A program that is added is there, once; the others are where they were. *)
LEMMA AddBin ==
  ASSUME NEW m \in Seq(LineSet), Paired(m), NEW added, Once(m, added), NEW p \in Programs
  PROVE  /\ WithBin(m, p) \in Seq(LineSet) /\ Paired(WithBin(m, p))
         /\ Framed(m) => Framed(WithBin(m, p))
         /\ FeaturesOf(m) \subseteq FeaturesOf(WithBin(m, p))
         /\ Once(WithBin(m, p), added \cup {p})
<1>1. CASE HasBin(m, p)
  BY <1>1, HasBinIs DEF WithBin, Once
<1>2. CASE ~HasBin(m, p)
  <2> DEFINE x == BinEntry(p)
             n == m \o x
  <2>1. /\ x \in Seq(LineSet) /\ Len(x) = 2 /\ Paired(x)
        /\ x[1].l = "bin" /\ x[2].l = "name" /\ x[2].of = p
    BY BinEntryIs
  <2> HIDE DEF x
  <2>2. /\ n \in Seq(LineSet) /\ Paired(n) /\ (Framed(m) => Framed(n))
        /\ FeaturesOf(m) \subseteq FeaturesOf(n)
        /\ \A q : Shown(n, q) => Shown(m, q)
        /\ \A q : NameLines(m, q) \subseteq NameLines(n, q)
    BY <2>1, Appended, AppendKeeps
  <2>3. /\ Len(m) \in Nat /\ DOMAIN m = 1 .. Len(m) /\ DOMAIN n = 1 .. Len(m) + 2 /\ DOMAIN x = 1 .. 2
        /\ \A i \in DOMAIN m : n[i] = m[i]
        /\ n[Len(m) + 1] = x[1] /\ n[Len(m) + 2] = x[2]
    <3>1. DOMAIN x = 1 .. 2 /\ 1 \in DOMAIN x /\ 2 \in DOMAIN x
      BY <2>1, LenProperties
    <3>2. /\ Len(m) \in Nat /\ DOMAIN m = 1 .. Len(m) /\ DOMAIN n = 1 .. Len(m) + Len(x)
          /\ \A i \in DOMAIN m : n[i] = m[i]
          /\ \A i \in DOMAIN x : n[Len(m) + i] = x[i]
      BY <2>1, Appended
    <3> HIDE DEF n
    <3> QED
      BY <2>1, <3>1, <3>2
  <2>4. ASSUME NEW q
        PROVE  NameLines(n, q) = NameLines(m, q) \cup (IF q = p THEN {Len(m) + 2} ELSE {})
    <3>1. \A i \in DOMAIN n : i \in DOMAIN m \/ i = Len(m) + 1 \/ i = Len(m) + 2
      BY <2>3
    <3> QED
      BY <2>1, <2>2, <2>3, <3>1 DEF NameLines
  <2> HIDE DEF n
  <2>5. ASSUME NEW q \in Programs, Shown(n, q)
        PROVE  /\ \A i, j \in NameLines(n, q) : i = j
               /\ q \in added \cup {p} => NameLines(n, q) # {}
    <3>1. CASE q = p
      <4>1. NameLines(m, p) = {}
        BY <1>2, <2>2, <2>5, <3>1, HasBinIs
      <4> QED
        BY <2>4, <3>1, <4>1
    <3>2. CASE q # p
      BY <2>2, <2>4, <2>5, <3>2 DEF Once
    <3> QED
      BY <3>1, <3>2
  <2>6. WithBin(m, p) = n
    BY <1>2 DEF WithBin, n, x
  <2> QED
    BY <2>2, <2>5, <2>6 DEF Once
<1> QED
  BY <1>1, <1>2

(* One line that is no name.                                               *)
LEMMA NoName ==
  ASSUME NEW y \in LineSet, y.l \notin {"name", "naming"}
  PROVE  <<y>> \in Seq(LineSet) /\ Paired(<<y>>) /\ \A p : NameLines(<<y>>, p) = {}
<1>1. <<y>> \in Seq(LineSet) /\ Len(<<y>>) = 1 /\ <<y>>[1] = y
  OBVIOUS
<1>2. \A i \in DOMAIN <<y>> : <<y>>[i] = y
  <2>1. DOMAIN <<y>> = 1 .. 1
    BY <1>1, LenProperties
  <2> QED
    BY <1>1, <2>1
<1> QED
  BY <1>1, <1>2 DEF Paired, Naming, NameLines

LEMMA AddPatch ==
  ASSUME NEW m \in Seq(LineSet), Paired(m), NEW added, Once(m, added)
  PROVE  /\ WithPatch(m) \in Seq(LineSet) /\ Paired(WithPatch(m))
         /\ Framed(m) => Framed(WithPatch(m))
         /\ FeaturesOf(m) \subseteq FeaturesOf(WithPatch(m))
         /\ Once(WithPatch(m), added)
<1> DEFINE x == <<Line("table", "patch")>>
<1>1. x \in Seq(LineSet) /\ Paired(x) /\ \A p : NameLines(x, p) = {}
  <2>1. Line("table", "patch") \in LineSet /\ Line("table", "patch").l = "table"
    BY LineTypes, LineFields DEF Kinds, Words
  <2> QED
    BY <2>1, NoName
<1>2. WithPatch(m) = m \/ WithPatch(m) = m \o x
  <2>1. Append(m, Line("table", "patch")) = m \o x
    <3>1. Line("table", "patch") \in LineSet
      BY LineTypes DEF Kinds, Words
    <3> QED
      BY <3>1, AppendIsConcat
  <2> QED
    BY <2>1 DEF WithPatch
<1> HIDE DEF x
<1>3. /\ m \o x \in Seq(LineSet) /\ Paired(m \o x) /\ (Framed(m) => Framed(m \o x))
      /\ FeaturesOf(m) \subseteq FeaturesOf(m \o x)
  BY <1>1, Appended, AppendKeeps
<1>4. Once(m \o x, added)
  BY <1>1, AppendOnce
<1> QED
  BY <1>2, <1>3, <1>4

(* Two lines that name no program with a target of its own.                *)
LEMMA TwoNoName ==
  ASSUME NEW m \in Seq(LineSet), NEW y \in LineSet, NEW z \in LineSet, ~Naming(y), y.l # "name",
         Naming(z) => Heading(y), z.off \/ y.l # "bin" \/ z.l # "name"
  PROVE  /\ <<y, z>> \in Seq(LineSet) /\ Paired(<<y, z>>)
         /\ \A p : Shown(m \o <<y, z>>, p) => NameLines(<<y, z>>, p) = {}
<1> DEFINE x == <<y, z>>
<1>1. /\ x \in Seq(LineSet) /\ Len(x) = 2 /\ x[1] = y /\ x[2] = z /\ Paired(x)
      /\ \A i \in DOMAIN x : i = 1 \/ i = 2
  BY TwoLines
<1> HIDE DEF x
<1>2. ASSUME NEW p, Shown(m \o x, p), NEW i \in NameLines(x, p) PROVE FALSE
  <2>1. i = 2 /\ i \in DOMAIN x /\ z.l = "name" /\ z.of = p
    BY <1>1, <1>2 DEF NameLines
  <2>2. 1 \in DOMAIN x /\ 2 \in DOMAIN x /\ Len(m) \in Nat
    BY <1>1, Appended
  <2>3. /\ (m \o x)[Len(m) + 1] = y /\ (m \o x)[Len(m) + 2] = z
        /\ Len(m) + 2 \in DOMAIN (m \o x) /\ (Len(m) + 2) - 1 = Len(m) + 1
    BY <1>1, <2>2, Appended
  <2>4. Len(m) + 2 \in NameLines(m \o x, p)
    BY <2>1, <2>3 DEF NameLines
  <2>5. ~z.off /\ y.l = "bin"
    BY <1>2, <2>3, <2>4 DEF Shown
  <2> QED
    BY <2>1, <2>5
<1>3. x \in Seq(LineSet) /\ Paired(x) /\ \A p : Shown(m \o x, p) => NameLines(x, p) = {}
  BY <1>1, <1>2
<1> QED
  BY <1>3 DEF x

(* Commenting out.                                                         *)
LEMMA OffIs ==
  ASSUME NEW m \in Seq(LineSet)
  PROVE  /\ Off(m) \in Seq(LineSet) /\ Len(Off(m)) = Len(m)
         /\ \A i \in 1 .. Len(m) : /\ Off(m)[i] \in LineSet /\ Off(m)[i].off
                                   /\ Off(m)[i].l = m[i].l /\ Off(m)[i].of = m[i].of
<1>1. Len(m) \in Nat /\ DOMAIN m = 1 .. Len(m) /\ \A i \in 1 .. Len(m) : m[i] \in LineSet
  BY LenProperties, ElementOfSeq
<1>2. \A i \in 1 .. Len(m) : /\ Off(m)[i] = [m[i] EXCEPT !.off = TRUE]
                             /\ Off(m)[i] \in LineSet /\ Off(m)[i].off
                             /\ Off(m)[i].l = m[i].l /\ Off(m)[i].of = m[i].of
  BY <1>1 DEF Off, LineSet
<1>3. Off(m) \in [1 .. Len(m) -> LineSet]
  BY <1>1, <1>2 DEF Off
<1> QED
  BY <1>1, <1>2, <1>3

(* What the user adds.                                                     *)
LEMMA EditsAre ==
  ASSUME NEW m \in Seq(LineSet), NEW p \in Programs, NEW x \in Edits(p)
  PROVE  /\ x \in Seq(LineSet) /\ Paired(x)
         /\ \A q : Shown(m \o x, q) => NameLines(x, q) = {}
<1>1. \A l \in {"table", "bin", "entry", "name"}, of \in {"", "lib", "example", "target", p} :
        /\ Line(l, of) \in LineSet /\ Line(l, of).l = l /\ Line(l, of).of = of
        /\ ~Line(l, of).off
  BY LineFields, LineTypes DEF Kinds, Words
<1>2. DepLine("emitted", {}) \in LineSet /\ DepLine("emitted", {}).l = "dep"
  BY DepLineIs DEF Spelling
<1>3. CASE x = <<Line("table", "lib"), Line("name", p)>>
  <2>1. /\ Line("table", "lib") \in LineSet /\ Line("table", "lib").l = "table"
        /\ ~Line("table", "lib").off /\ Line("name", p) \in LineSet
    BY <1>1
  <2> QED
    BY <1>3, <2>1, TwoNoName DEF Naming, Heading
<1>4. CASE x = <<Line("entry", "example"), Line("name", p)>>
  <2>1. /\ Line("entry", "example") \in LineSet /\ Line("entry", "example").l = "entry"
        /\ ~Line("entry", "example").off /\ Line("name", p) \in LineSet
    BY <1>1
  <2> QED
    BY <1>4, <2>1, TwoNoName DEF Naming, Heading
<1>5. CASE x = Off(BinEntry(p))
  <2>1. /\ x \in Seq(LineSet) /\ Len(x) = 2
        /\ x[1] \in LineSet /\ x[1].off /\ x[1].l = "bin" /\ x[2] \in LineSet /\ x[2].off
    BY <1>5, BinEntryIs, OffIs
  <2>2. x = <<x[1], x[2]>>
    BY <2>1
  <2> QED
    BY <2>1, <2>2, TwoNoName DEF Naming
<1>6. CASE x = Off(<<DepLine("emitted", {})>>)
  <2> DEFINE w == <<DepLine("emitted", {})>>
  <2>1. w \in Seq(LineSet) /\ Len(w) = 1 /\ w[1].l = "dep" /\ x = Off(w)
    BY <1>2, <1>6
  <2> HIDE DEF w
  <2>2. x \in Seq(LineSet) /\ Len(x) = 1 /\ x[1] \in LineSet /\ x[1].l = "dep"
    BY <2>1, OffIs
  <2>3. x = <<x[1]>>
    BY <2>2
  <2>4. x \in Seq(LineSet) /\ Paired(x) /\ \A q : NameLines(x, q) = {}
    BY <2>2, <2>3, NoName
  <2> QED
    BY <2>4
<1>7. CASE x = <<Line("table", "target"), DepLine("emitted", {})>>
  <2>1. Line("table", "target") \in LineSet /\ Line("table", "target").l = "table"
    BY <1>1
  <2> QED
    BY <1>2, <1>7, <2>1, TwoNoName DEF Naming, Heading
<1> QED
  BY <1>3, <1>4, <1>5, <1>6, <1>7 DEF Edits

(* A new manifest names no program, unless it is called like the project.  *)
LEMMA PackageIs ==
  ASSUME NEW d \in LineSet, d.l = "dep", ~d.off, d.of \in Spelling
  PROVE  /\ PackageOf(d) \in Seq(LineSet) /\ Paired(PackageOf(d)) /\ Framed(PackageOf(d))
         /\ Once(PackageOf(d), {}) /\ \A p : ~HasBin(PackageOf(d), p)
         /\ d.features \subseteq FeaturesOf(PackageOf(d))
<1> DEFINE m == PackageOf(d)
<1>1. /\ Line("table", "package").l = "table" /\ ~Line("table", "package").off
      /\ Line("name", "project").l = "name"
      /\ Line("table", "dependencies").l = "table" /\ ~Line("table", "dependencies").off
      /\ Line("table", "dependencies").of = "dependencies"
      /\ Line("table", "profile").l = "table"
  BY LineFields
<1>2. /\ m \in Seq(LineSet) /\ Len(m) = 5
      /\ m[1] = Line("table", "package") /\ m[2] = Line("name", "project")
      /\ m[3] = Line("table", "dependencies") /\ m[4] = d /\ m[5] = Line("table", "profile")
  BY LineTypes DEF PackageOf
<1> HIDE DEF m
<1>3. DOMAIN m = 1 .. 5 /\ \A i \in DOMAIN m : i = 1 \/ i = 2 \/ i = 3 \/ i = 4 \/ i = 5
  <2>1. DOMAIN m = 1 .. 5
    BY <1>2, LenProperties
  <2>2. \A i \in 1 .. 5 : i = 1 \/ i = 2 \/ i = 3 \/ i = 4 \/ i = 5
    OBVIOUS
  <2> QED
    BY <2>1, <2>2
<1>4. Paired(m)
  BY <1>1, <1>2, <1>3 DEF Paired, Naming, Heading
<1>5. Framed(m)
  BY <1>1, <1>2 DEF Framed
<1>6. Once(m, {})
  BY <1>1, <1>2, <1>3 DEF Once, NameLines
<1>7. d.features \subseteq FeaturesOf(m)
  <2>1. 3 \in Headings(m) /\ 4 \notin Headings(m) /\ 4 \in DOMAIN m
    BY <1>1, <1>2, <1>3 DEF Headings
  <2>2. Under(m, 4, 3)
    <3>1. \A h \in Headings(m) : h <= 4 => h <= 3
      BY <1>3, <2>1 DEF Headings
    <3> QED
      BY <2>1, <3>1 DEF Under
  <2>3. Scanned(m, 4)
    BY <1>1, <1>2, <2>1, <2>2, ScannedIs
  <2> QED
    BY <1>2, <2>1, <2>3, FeaturesAre
<1>8. \A p : ~HasBin(m, p)
  BY <1>1, <1>2, <1>3 DEF HasBin
<1> QED
  BY <1>2, <1>4, <1>5, <1>6, <1>7, <1>8 DEF m
-----------------------------------------------------------------------------
(* Changing a line that is no heading.                                     *)
LEMMA Changed ==
  ASSUME NEW m \in Seq(LineSet), NEW n \in Seq(LineSet), Len(n) = Len(m), NEW i \in DOMAIN m,
         \A j \in DOMAIN m : j # i => n[j] = m[j],
         ~Heading(m[i]), ~Heading(n[i]), n[i].off <=> m[i].off, Naming(n[i]) <=> Naming(m[i])
  PROVE  /\ DOMAIN n = DOMAIN m
         /\ Paired(m) => Paired(n)
         /\ \A j \in DOMAIN m : Scanned(n, j) <=> Scanned(m, j)
<1>1. DOMAIN m = 1 .. Len(m) /\ Len(m) \in Nat
  BY LenProperties
<1>2. \A j \in DOMAIN m : j # i => n[j] = m[j]
  OBVIOUS
<1>3. DOMAIN n = DOMAIN m
  BY <1>1, LenProperties
<1>4. Paired(m) => Paired(n)
  <2> SUFFICES ASSUME Paired(m), NEW j \in DOMAIN m, Naming(n[j])
               PROVE  j > 1 /\ Heading(n[j - 1])
    BY <1>3 DEF Paired
  <2>1. j > 1 /\ Heading(m[j - 1])
    BY <1>2 DEF Paired
  <2>2. j - 1 \in DOMAIN m /\ j - 1 # i
    BY <1>1, <2>1
  <2> QED
    BY <1>2, <2>1, <2>2
<1>5. Headings(n) = Headings(m)
  BY <1>2, <1>3 DEF Headings, Heading
<1>6. \A j \in DOMAIN m : Scanned(n, j) <=> Scanned(m, j)
  <2> TAKE j \in DOMAIN m
  <2>1. \A h : Under(n, j, h) <=> Under(m, j, h)
    BY <1>5 DEF Under
  <2>2. \A h : Under(m, j, h) => n[h] = m[h]
    BY <1>2 DEF Under, Headings, Heading
  <2>3. n[j].off <=> m[j].off
    BY <1>2
  <2>4. Scanned(m, j) <=> /\ ~m[j].off
                          /\ \E h : Under(m, j, h) /\ m[h].of \in {"dependencies", "target"}
    BY ScannedIs
  <2>5. Scanned(n, j) <=> /\ ~n[j].off
                          /\ \E h : Under(n, j, h) /\ n[h].of \in {"dependencies", "target"}
    BY <1>2, <1>3, ScannedIs
  <2> QED
    BY <2>1, <2>2, <2>3, <2>4, <2>5
<1> QED
  BY <1>2, <1>3, <1>4, <1>6

(* The line of corvo-lang.                                                 *)
LEMMA Redone ==
  ASSUME NEW m \in Seq(LineSet), Paired(m), NEW i \in DOMAIN m, m[i].l = "dep", ~m[i].off,
         NEW d \in LineSet, d.l = "dep", ~d.off, d.of \in Spelling, NEW n, n = [m EXCEPT ![i] = d]
  PROVE  /\ n \in Seq(LineSet) /\ Paired(n) /\ (Framed(m) => Framed(n))
         /\ \A added : Once(m, added) => Once(n, added)
         /\ m[i].features \subseteq d.features => FeaturesOf(m) \subseteq FeaturesOf(n)
         /\ Scanned(m, i) => d.features \subseteq FeaturesOf(n)
<1>1. /\ n \in Seq(LineSet) /\ Len(n) = Len(m) /\ DOMAIN n = DOMAIN m
      /\ \A j \in DOMAIN m : n[j] = IF j = i THEN d ELSE m[j]
      /\ Paired(n)
      /\ \A j \in DOMAIN m : Scanned(n, j) <=> Scanned(m, j)
  <2>1. ~Heading(m[i]) /\ ~Heading(d) /\ ~Naming(d) /\ ~Naming(m[i])
    BY DEF Heading, Naming
  <2>2. /\ n \in Seq(LineSet) /\ Len(n) = Len(m) /\ i \in 1 .. Len(m) /\ n[i] = d
        /\ \A j \in DOMAIN m : n[j] = IF j = i THEN d ELSE m[j]
    BY ExceptSeq, LenProperties
  <2>3. /\ ~Heading(n[i]) /\ (n[i].off <=> m[i].off) /\ (Naming(n[i]) <=> Naming(m[i]))
        /\ \A j \in DOMAIN m : j # i => n[j] = m[j]
    BY <2>1, <2>2
  <2>4. /\ m \in Seq(LineSet) /\ n \in Seq(LineSet) /\ Len(n) = Len(m) /\ i \in DOMAIN m
        /\ \A j \in DOMAIN m : j # i => n[j] = m[j]
        /\ ~Heading(m[i]) /\ ~Heading(n[i]) /\ (n[i].off <=> m[i].off) /\ (Naming(n[i]) <=> Naming(m[i]))
    BY <2>1, <2>2, <2>3
  <2>5. DOMAIN n = DOMAIN m /\ (Paired(m) => Paired(n)) /\ \A j \in DOMAIN m : Scanned(n, j) <=> Scanned(m, j)
    BY <2>4, Changed
  <2> QED
    BY <2>2, <2>5
<1>2. Framed(m) => Framed(n)
  <2> SUFFICES ASSUME Framed(m) PROVE Framed(n)
    OBVIOUS
  <2>1. DOMAIN m = 1 .. Len(m) /\ Len(m) \in Nat /\ Len(m) >= 4
    BY LenProperties DEF Framed
  <2>2. i # 1 /\ i # 2 /\ i # 3
    <3>1. Line("table", "package").l = "table" /\ Line("table", "dependencies").l = "table"
      BY LineFields
    <3> QED
      BY <3>1 DEF Framed
  <2>3. n[1] = m[1] /\ n[2] = m[2] /\ n[3] = m[3] /\ (n[4] = m[4] \/ n[4] = d)
    <3>1. 1 \in DOMAIN m /\ 2 \in DOMAIN m /\ 3 \in DOMAIN m /\ 4 \in DOMAIN m
      BY <2>1
    <3> QED
      BY <1>1, <2>2, <3>1
  <2> QED
    BY <1>1, <2>1, <2>3 DEF Framed
<1>3. ASSUME NEW p PROVE NameLines(n, p) = NameLines(m, p) /\ (Shown(n, p) => Shown(m, p))
  <2>1. NameLines(n, p) = NameLines(m, p) /\ (Respelled(n, p) <=> Respelled(m, p))
    BY <1>1 DEF NameLines, Respelled
  <2>2. ASSUME Shown(n, p), NEW j \in NameLines(m, p)
        PROVE  j > 1 /\ ~m[j].off /\ m[j - 1].l = "bin"
    <3>1. j \in DOMAIN m /\ j > 1 /\ ~n[j].off /\ n[j - 1].l = "bin" /\ m[j].l = "name"
      BY <2>1, <2>2 DEF Shown, NameLines
    <3>2. j - 1 \in DOMAIN m
      BY <3>1, LenProperties
    <3> QED
      BY <1>1, <3>1, <3>2
  <2> QED
    BY <2>1, <2>2 DEF Shown
<1>4. \A added : Once(m, added) => Once(n, added)
  BY <1>3 DEF Once
<1>5. ASSUME m[i].features \subseteq d.features, NEW g \in FeaturesOf(m) PROVE g \in FeaturesOf(n)
  <2>1. PICK j \in DOMAIN m : Scanned(m, j) /\ m[j].l = "dep" /\ g \in m[j].features
    BY FeaturesAre
  <2>2. Scanned(n, j) /\ n[j].l = "dep" /\ g \in n[j].features /\ j \in DOMAIN n
    BY <1>1, <1>5, <2>1
  <2> QED
    BY <2>2, FeaturesAre
<1>6. ASSUME Scanned(m, i), NEW g \in d.features PROVE g \in FeaturesOf(n)
  <2>1. Scanned(n, i) /\ n[i] = d /\ i \in DOMAIN n
    BY <1>1, <1>6
  <2> QED
    BY <2>1, FeaturesAre
<1> QED
  BY <1>1, <1>2, <1>4, <1>5, <1>6

(* A name spelled otherwise.                                               *)
(* n is m with the name at i spelled otherwise.                            *)
RenamedAt(m, n, i) ==
  i \in DOMAIN m /\ m[i].l = "name" /\ ~m[i].off /\ n = [m EXCEPT ![i].l = "naming"]

LEMMA Renamed ==
  ASSUME NEW m \in Seq(LineSet), Paired(m), NEW i, NEW n, RenamedAt(m, n, i)
  PROVE  /\ n \in Seq(LineSet) /\ Paired(n) /\ (Framed(m) => Framed(n))
         /\ \A added : Once(m, added) => Once(n, added)
         /\ FeaturesOf(m) \subseteq FeaturesOf(n)
<1> DEFINE z == [m[i] EXCEPT !.l = "naming"]
<1>1. i \in DOMAIN m /\ m[i].l = "name" /\ ~m[i].off
  BY DEF RenamedAt
<1>2. n = [m EXCEPT ![i] = z]
  BY DEF RenamedAt
<1>3. /\ z \in LineSet /\ z.l = "naming" /\ z.of = m[i].of /\ z.off = m[i].off
      /\ n = [m EXCEPT ![i] = z]
  <2>1. m[i] \in LineSet
    BY <1>1, ElementOfSeq, LenProperties
  <2> QED
    BY <1>2, <2>1 DEF LineSet, Kinds
<1> HIDE DEF z
<1>4. /\ n \in Seq(LineSet) /\ Len(n) = Len(m) /\ DOMAIN n = DOMAIN m
      /\ \A j \in DOMAIN m : n[j] = IF j = i THEN z ELSE m[j]
      /\ Paired(n)
      /\ \A j \in DOMAIN m : Scanned(n, j) <=> Scanned(m, j)
  <2>1. ~Heading(m[i]) /\ ~Heading(z) /\ Naming(z) /\ Naming(m[i])
    BY <1>3, <1>1 DEF Heading, Naming
  <2>2. /\ n \in Seq(LineSet) /\ Len(n) = Len(m) /\ i \in 1 .. Len(m) /\ n[i] = z
        /\ \A j \in DOMAIN m : n[j] = IF j = i THEN z ELSE m[j]
    BY <1>3, <1>1, ExceptSeq, LenProperties
  <2>3. /\ ~Heading(n[i]) /\ (n[i].off <=> m[i].off) /\ (Naming(n[i]) <=> Naming(m[i]))
        /\ \A j \in DOMAIN m : j # i => n[j] = m[j]
    BY <1>3, <2>1, <2>2
  <2>4. /\ m \in Seq(LineSet) /\ n \in Seq(LineSet) /\ Len(n) = Len(m) /\ i \in DOMAIN m
        /\ \A j \in DOMAIN m : j # i => n[j] = m[j]
        /\ ~Heading(m[i]) /\ ~Heading(n[i]) /\ (n[i].off <=> m[i].off) /\ (Naming(n[i]) <=> Naming(m[i]))
    BY <1>1, <2>1, <2>2, <2>3
  <2>5. DOMAIN n = DOMAIN m /\ (Paired(m) => Paired(n)) /\ \A j \in DOMAIN m : Scanned(n, j) <=> Scanned(m, j)
    BY <2>4, Changed
  <2> QED
    BY <2>2, <2>5
<1>5. Framed(m) => Framed(n)
  <2> SUFFICES ASSUME Framed(m) PROVE Framed(n)
    OBVIOUS
  <2>1. DOMAIN m = 1 .. Len(m) /\ Len(m) \in Nat /\ Len(m) >= 4
    BY LenProperties DEF Framed
  <2>2. i # 1 /\ i # 3 /\ i # 4
    <3>1. Line("table", "package").l = "table" /\ Line("table", "dependencies").l = "table"
      BY LineFields
    <3> QED
      BY <1>1, <3>1 DEF Framed
  <2>3. n[1] = m[1] /\ (n[2] = m[2] \/ n[2] = z) /\ n[3] = m[3] /\ n[4] = m[4]
    <3>1. 1 \in DOMAIN m /\ 2 \in DOMAIN m /\ 3 \in DOMAIN m /\ 4 \in DOMAIN m
      BY <2>1
    <3> QED
      BY <1>4, <2>2, <3>1
  <2> QED
    BY <1>3, <1>4, <2>1, <2>3 DEF Framed
<1>6. ASSUME NEW p, Shown(n, p) PROVE NameLines(n, p) = NameLines(m, p) /\ Shown(m, p)
  <2>1. p # m[i].of
    BY <1>3, <1>4, <1>6 DEF Shown, Respelled
  <2>2. NameLines(n, p) = NameLines(m, p)
    BY <1>3, <1>4, <2>1 DEF NameLines
  <2>3. ~Respelled(m, p)
    BY <1>3, <1>4, <1>6, <2>1 DEF Shown, Respelled
  <2>4. ASSUME NEW j \in NameLines(m, p) PROVE j > 1 /\ ~m[j].off /\ m[j - 1].l = "bin"
    <3>1. j \in DOMAIN m /\ j > 1 /\ ~n[j].off /\ n[j - 1].l = "bin" /\ j # i
      BY <1>6, <2>1, <2>2 DEF Shown, NameLines
    <3>2. j - 1 \in DOMAIN m
      BY <3>1, LenProperties
    <3> QED
      BY <1>3, <1>4, <3>1, <3>2
  <2> QED
    BY <2>2, <2>3, <2>4 DEF Shown
<1>7. \A added : Once(m, added) => Once(n, added)
  BY <1>6 DEF Once
<1>8. ASSUME NEW g \in FeaturesOf(m) PROVE g \in FeaturesOf(n)
  <2>1. PICK j \in DOMAIN m : Scanned(m, j) /\ m[j].l = "dep" /\ g \in m[j].features
    BY FeaturesAre
  <2>2. Scanned(n, j) /\ n[j].l = "dep" /\ g \in n[j].features /\ j \in DOMAIN n
    BY <1>4, <1>1, <2>1
  <2> QED
    BY <2>2, FeaturesAre
<1> QED
  BY <1>4, <1>5, <1>7, <1>8
-----------------------------------------------------------------------------
(* Dropping a program.                                                     *)
LEMMA RemovedOne ==
  ASSUME NEW m \in Seq(LineSet), NEW i \in 1 .. Len(m)
  PROVE  /\ RemoveAt(m, i) \in Seq(LineSet) /\ Len(RemoveAt(m, i)) = Len(m) - 1
         /\ \A j \in 1 .. Len(m) - 1 : RemoveAt(m, i)[j] = IF j < i THEN m[j] ELSE m[j + 1]
<1> DEFINE s == SubSeq(m, 1, i - 1)
           t == SubSeq(m, i + 1, Len(m))
<1>1. Len(m) \in Nat /\ \A j \in 1 .. Len(m) : m[j] \in LineSet
  BY LenProperties, ElementOfSeq
<1>2. s \in Seq(LineSet) /\ Len(s) = i - 1 /\ \A j \in 1 .. i - 1 : s[j] = m[j]
  <2>1. /\ 1 \in Int /\ i - 1 \in Int /\ \A j \in 1 .. i - 1 : m[j] \in LineSet
    BY <1>1
  <2>2. /\ s \in Seq(LineSet) /\ Len(s) = (IF 1 <= i - 1 THEN (i - 1) - 1 + 1 ELSE 0)
        /\ \A j \in 1 .. (i - 1) - 1 + 1 : s[j] = m[1 + j - 1]
    BY <2>1, SubSeqProperties
  <2> QED
    BY <1>1, <2>2
<1>3. t \in Seq(LineSet) /\ Len(t) = Len(m) - i /\ \A j \in 1 .. Len(m) - i : t[j] = m[i + j]
  <2>1. /\ i + 1 \in Int /\ Len(m) \in Int /\ \A j \in i + 1 .. Len(m) : m[j] \in LineSet
    BY <1>1
  <2>2. /\ t \in Seq(LineSet) /\ Len(t) = (IF i + 1 <= Len(m) THEN Len(m) - (i + 1) + 1 ELSE 0)
        /\ \A j \in 1 .. Len(m) - (i + 1) + 1 : t[j] = m[(i + 1) + j - 1]
    BY <2>1, SubSeqProperties
  <2> QED
    BY <1>1, <2>2
<1> HIDE DEF s, t
<1>4. /\ s \o t \in Seq(LineSet) /\ Len(s \o t) = Len(s) + Len(t)
      /\ \A j \in 1 .. Len(s) + Len(t) : (s \o t)[j] = IF j <= Len(s) THEN s[j] ELSE t[j - Len(s)]
  BY <1>2, <1>3, ConcatProperties
<1>5. ASSUME NEW j \in 1 .. Len(m) - 1 PROVE (s \o t)[j] = IF j < i THEN m[j] ELSE m[j + 1]
  <2>1. CASE j < i
    BY <1>1, <1>2, <1>3, <1>4, <2>1
  <2>2. CASE ~(j < i)
    <3>1. (s \o t)[j] = t[j - (i - 1)] /\ j - (i - 1) \in 1 .. Len(m) - i
      BY <1>1, <1>2, <1>3, <1>4, <2>2
    <3>2. t[j - (i - 1)] = m[i + (j - (i - 1))] /\ i + (j - (i - 1)) = j + 1
      BY <1>1, <1>3, <3>1
    <3> QED
      BY <2>2, <3>1, <3>2
  <2> QED
    BY <2>1, <2>2
<1>6. RemoveAt(m, i) = s \o t
  BY DEF RemoveAt, s, t
<1>7. Len(s) + Len(t) = Len(m) - 1
  BY <1>1, <1>2, <1>3
<1> QED
  BY <1>4, <1>5, <1>6, <1>7

(* Where the lines were that are left, and where they are then.            *)
Before(i, j) == IF j < i THEN j ELSE j + 2
After(i, k)  == IF k < i THEN k ELSE k - 2

LEMMA Places ==
  ASSUME NEW n \in Nat, NEW i \in 1 .. n - 1
  PROVE  /\ \A j \in 1 .. n - 2 : /\ Before(i, j) \in (1 .. n) \ {i, i + 1}
                                  /\ After(i, Before(i, j)) = j
         /\ \A k \in (1 .. n) \ {i, i + 1} : /\ After(i, k) \in 1 .. n - 2
                                           /\ Before(i, After(i, k)) = k
         /\ \A j, k \in 1 .. n - 2 : j <= k <=> Before(i, j) <= Before(i, k)
         /\ \A j \in 1 .. n - 2 : j # i /\ Before(i, j) > 1 =>
              j - 1 \in 1 .. n - 2 /\ j > 1 /\ Before(i, j - 1) = Before(i, j) - 1
         /\ Before(i, i) = i + 2
  BY DEF Before, After

LEMMA Removed ==
  ASSUME NEW m \in Seq(LineSet), NEW i \in 1 .. Len(m) - 1, NEW n, n = RemoveAt(RemoveAt(m, i), i)
  PROVE  /\ n \in Seq(LineSet) /\ Len(n) = Len(m) - 2
         /\ DOMAIN n = 1 .. Len(m) - 2 /\ DOMAIN m = 1 .. Len(m) /\ Len(m) \in Nat
         /\ \A j \in DOMAIN n : n[j] = m[Before(i, j)]
<1> DEFINE k == RemoveAt(m, i)
<1>1. Len(m) \in Nat /\ DOMAIN m = 1 .. Len(m) /\ i \in 1 .. Len(m)
  <2>1. Len(m) \in Nat /\ DOMAIN m = 1 .. Len(m)
    BY LenProperties
  <2> QED
    BY <2>1
<1>2. /\ k \in Seq(LineSet) /\ Len(k) = Len(m) - 1
      /\ \A j \in 1 .. Len(m) - 1 : k[j] = IF j < i THEN m[j] ELSE m[j + 1]
  BY <1>1, RemovedOne
<1>3. n = RemoveAt(k, i)
  OBVIOUS
<1> HIDE DEF k
<1>4. i \in 1 .. Len(k) /\ Len(k) - 1 = Len(m) - 2
  BY <1>1, <1>2
<1>5. /\ n \in Seq(LineSet) /\ Len(n) = Len(k) - 1
      /\ \A j \in 1 .. Len(k) - 1 : n[j] = IF j < i THEN k[j] ELSE k[j + 1]
  BY <1>2, <1>3, <1>4, RemovedOne
<1>6. DOMAIN n = 1 .. Len(m) - 2
  BY <1>4, <1>5, LenProperties
<1>7. ASSUME NEW j \in 1 .. Len(m) - 2 PROVE n[j] = m[Before(i, j)]
  <2>1. /\ j \in 1 .. Len(m) - 1 /\ j + 1 \in 1 .. Len(m) - 1 /\ (j + 1) + 1 = j + 2
        /\ (~(j < i) => ~(j + 1 < i))
    BY <1>1
  <2>2. CASE j < i
    <3>1. n[j] = k[j] /\ k[j] = m[j]
      BY <1>2, <1>4, <1>5, <2>1, <2>2
    <3> QED
      BY <2>2, <3>1 DEF Before
  <2>3. CASE ~(j < i)
    <3>1. n[j] = k[j + 1] /\ k[j + 1] = m[(j + 1) + 1]
      BY <1>2, <1>4, <1>5, <2>1, <2>3
    <3> QED
      BY <2>1, <2>3, <3>1 DEF Before
  <2> QED
    BY <2>2, <2>3
<1> QED
  BY <1>1, <1>4, <1>5, <1>6, <1>7

(* n is m without the program p that stands at i.                          *)
Without(m, n, i, p) ==
  /\ i \in 1 .. Len(m) - 1
  /\ m[i].l = "bin" /\ m[i].of \notin {"dependencies", "target"} /\ ~m[i].off
  /\ m[i + 1].l = "name" /\ m[i + 1].of = p /\ ~m[i + 1].off
  /\ n \in Seq(LineSet) /\ Len(n) = Len(m) - 2
  /\ \A j \in DOMAIN n : n[j] = m[Before(i, j)]

LEMMA Dropped ==
  ASSUME NEW m \in Seq(LineSet), Paired(m), Framed(m), NEW added, Once(m, added),
         NEW p \in Programs, NEW i, NEW n, Without(m, n, i, p)
  PROVE  /\ Paired(n) /\ Framed(n)
         /\ Once(n, added \ {p})
         /\ FeaturesOf(m) \subseteq FeaturesOf(n)
<1>1. n \in Seq(LineSet) /\ Len(n) = Len(m) - 2 /\ Len(m) \in Nat /\ i \in 1 .. Len(m) - 1
  BY LenProperties DEF Without
<1>2. DOMAIN n = 1 .. Len(m) - 2 /\ DOMAIN m = 1 .. Len(m)
  BY <1>1, LenProperties
<1>3. \A j \in DOMAIN n : n[j] = m[Before(i, j)]
  BY DEF Without
<1>4. /\ \A j \in 1 .. Len(m) - 2 : /\ Before(i, j) \in (1 .. Len(m)) \ {i, i + 1}
                                    /\ After(i, Before(i, j)) = j
      /\ \A k \in (1 .. Len(m)) \ {i, i + 1} : /\ After(i, k) \in 1 .. Len(m) - 2
                                               /\ Before(i, After(i, k)) = k
      /\ \A j, k \in 1 .. Len(m) - 2 : j <= k <=> Before(i, j) <= Before(i, k)
      /\ \A j \in 1 .. Len(m) - 2 : j # i /\ Before(i, j) > 1 =>
           j - 1 \in 1 .. Len(m) - 2 /\ j > 1 /\ Before(i, j - 1) = Before(i, j) - 1
      /\ Before(i, i) = i + 2
  <2> HIDE DEF Before, After
  <2> QED
    BY <1>1, Places
<1>5. /\ \A j \in DOMAIN n : Before(i, j) \in DOMAIN m \ {i, i + 1} /\ After(i, Before(i, j)) = j
      /\ \A j, k \in DOMAIN n : j <= k <=> Before(i, j) <= Before(i, k)
  BY <1>2, <1>4
<1>6. \A k \in DOMAIN m \ {i, i + 1} : After(i, k) \in DOMAIN n /\ Before(i, After(i, k)) = k
  BY <1>2, <1>4
<1>7. \A j \in DOMAIN n : j # i /\ Before(i, j) > 1 =>
        j - 1 \in DOMAIN n /\ j > 1 /\ Before(i, j - 1) = Before(i, j) - 1
  BY <1>2, <1>4
<1>8. /\ m[i].l = "bin" /\ m[i].of \notin {"dependencies", "target"} /\ ~m[i].off
      /\ m[i + 1].l = "name" /\ m[i + 1].of = p /\ ~m[i + 1].off
  BY DEF Without
<1>9. i \in DOMAIN m /\ i + 1 \in DOMAIN m /\ (i + 1) - 1 = i /\ (i + 2) - 1 = i + 1 /\ i + 1 > 1
  BY <1>1, <1>2
<1>10. \A k \in DOMAIN m \ {i, i + 1} : n[After(i, k)] = m[k]
  BY <1>3, <1>6
(* What stands below a line is a name only if the line is left too.        *)
<1>11. ASSUME NEW j \in DOMAIN n, Naming(n[j])
       PROVE  /\ j # i /\ j > 1 /\ j - 1 \in DOMAIN n
              /\ Heading(n[j - 1]) /\ n[j - 1] = m[Before(i, j) - 1]
  <2>1. Before(i, j) \in DOMAIN m /\ Naming(m[Before(i, j)])
    BY <1>3, <1>5, <1>11
  <2>2. Before(i, j) > 1 /\ Heading(m[Before(i, j) - 1])
    BY <2>1 DEF Paired
  <2>3. j # i
    <3> SUFFICES ASSUME j = i PROVE FALSE
      OBVIOUS
    <3>1. Before(i, i) = i + 2
      BY <1>4
    <3>2. Heading(m[i + 1])
      BY <1>9, <2>2, <3>1
    <3> QED
      BY <1>8, <3>2 DEF Heading
  <2>4. j > 1 /\ j - 1 \in DOMAIN n /\ Before(i, j - 1) = Before(i, j) - 1
    BY <1>7, <2>2, <2>3
  <2> QED
    BY <1>3, <2>2, <2>3, <2>4
<1>12. Paired(n)
  BY <1>11 DEF Paired
<1>13. Framed(n)
  <2>1. Line("table", "package").l = "table" /\ Line("table", "dependencies").l = "table"
    BY LineFields
  <2>2. Len(m) >= 4 /\ m[1].l = "table" /\ m[3].l = "table" /\ m[4].l = "dep"
    BY <2>1 DEF Framed
  <2>3. i # 1 /\ i # 2 /\ i # 3 /\ i # 4
    <3>1. i + 1 # 3 /\ i # 1 /\ i # 3 /\ i # 4
      BY <1>8, <2>2
    <3>2. i \in Int
      BY <1>1
    <3> QED
      BY <3>1, <3>2
  <2>4. i >= 5
    BY <1>1, <2>3
  <2>5. 1 \in DOMAIN n /\ 2 \in DOMAIN n /\ 3 \in DOMAIN n /\ 4 \in DOMAIN n /\ Len(n) >= 4
    BY <1>1, <1>2, <2>4
  <2>6. Before(i, 1) = 1 /\ Before(i, 2) = 2 /\ Before(i, 3) = 3 /\ Before(i, 4) = 4
    BY <1>1, <2>4 DEF Before
  <2>7. n[1] = m[1] /\ n[2] = m[2] /\ n[3] = m[3] /\ n[4] = m[4]
    BY <1>3, <2>5, <2>6
  <2> QED
    BY <2>5, <2>7 DEF Framed
<1>14. ASSUME NEW q, Shown(n, q) PROVE Shown(m, q)
  <2>1. ~Respelled(m, q)
    <3> SUFFICES ASSUME NEW k \in DOMAIN m, m[k].l = "naming", m[k].of = q PROVE FALSE
      BY DEF Respelled
    <3>1. k \in DOMAIN m \ {i, i + 1}
      BY <1>8
    <3> QED
      BY <1>6, <1>10, <1>14, <3>1 DEF Shown, Respelled
  <2>2. ASSUME NEW k \in NameLines(m, q) PROVE k > 1 /\ ~m[k].off /\ m[k - 1].l = "bin"
    <3>1. k \in DOMAIN m /\ m[k].l = "name" /\ m[k].of = q /\ k # i
      BY <1>8 DEF NameLines
    <3>2. CASE k = i + 1
      BY <1>8, <1>9, <3>2
    <3>3. CASE k # i + 1
      <4> DEFINE a == After(i, k)
      <4>1. a \in DOMAIN n /\ Before(i, a) = k /\ n[a] = m[k]
        BY <1>6, <1>10, <3>1, <3>3
      <4> HIDE DEF a
      <4>2. a \in NameLines(n, q)
        BY <3>1, <4>1 DEF NameLines
      <4>3. ~n[a].off /\ n[a - 1].l = "bin"
        BY <1>14, <4>2 DEF Shown
      <4>4. Naming(n[a])
        BY <3>1, <4>1, <4>3 DEF Naming
      <4>5. n[a - 1] = m[k - 1]
        BY <1>11, <4>1, <4>4
      <4>6. k > 1
        BY <3>1, <4>1, <4>4 DEF Paired
      <4> QED
        BY <4>1, <4>3, <4>5, <4>6
    <3> QED
      BY <3>2, <3>3
  <2> QED
    BY <2>1, <2>2 DEF Shown
<1>15. Once(n, added \ {p})
  <2> SUFFICES ASSUME NEW q \in Programs, Shown(n, q)
               PROVE  /\ \A j, k \in NameLines(n, q) : j = k
                      /\ q \in added \ {p} => NameLines(n, q) # {}
    BY DEF Once
  <2>1. Shown(m, q)
    BY <1>14
  <2>2. ASSUME NEW j \in NameLines(n, q) PROVE j \in DOMAIN n /\ Before(i, j) \in NameLines(m, q)
    BY <1>3, <1>5 DEF NameLines
  <2>3. ASSUME NEW j \in NameLines(n, q), NEW k \in NameLines(n, q) PROVE j = k
    <3>1. Before(i, j) = Before(i, k)
      BY <2>1, <2>2 DEF Once
    <3> QED
      BY <1>5, <2>2, <3>1
  <2>4. ASSUME q \in added, q # p PROVE NameLines(n, q) # {}
    <3>1. PICK k : k \in NameLines(m, q)
      BY <2>1, <2>4 DEF Once
    <3>2. k \in DOMAIN m \ {i, i + 1} /\ m[k].l = "name" /\ m[k].of = q
      BY <1>8, <2>4, <3>1 DEF NameLines
    <3>3. After(i, k) \in DOMAIN n /\ n[After(i, k)] = m[k]
      BY <1>6, <1>10, <3>2
    <3> QED
      BY <3>2, <3>3 DEF NameLines
  <2> QED
    BY <2>3, <2>4
<1>16. ASSUME NEW g \in FeaturesOf(m) PROVE g \in FeaturesOf(n)
  <2>1. PICK k \in DOMAIN m : Scanned(m, k) /\ m[k].l = "dep" /\ g \in m[k].features
    BY FeaturesAre
  <2>2. PICK h : Under(m, k, h) /\ m[h].of \in {"dependencies", "target"}
    BY <2>1, ScannedIs
  <2>3. ~m[k].off
    BY <2>1, ScannedIs
  <2>4. k \in DOMAIN m \ {i, i + 1} /\ h \in DOMAIN m \ {i, i + 1} /\ h <= k /\ Heading(m[h])
    BY <1>8, <2>1, <2>2 DEF Under, Headings, Heading
  <2> DEFINE a == After(i, k)
             b == After(i, h)
  <2>5. a \in DOMAIN n /\ Before(i, a) = k /\ n[a] = m[k]
    BY <1>6, <1>10, <2>4
  <2>6. b \in DOMAIN n /\ Before(i, b) = h /\ n[b] = m[h]
    BY <1>6, <1>10, <2>4
  <2> HIDE DEF a, b
  <2>7. b <= a
    BY <1>5, <2>4, <2>5, <2>6
  <2>8. b \in Headings(n)
    BY <2>4, <2>6 DEF Headings, Heading
  <2>9. ASSUME NEW x \in Headings(n), x <= a PROVE x <= b
    <3>1. x \in DOMAIN n /\ Before(i, x) \in Headings(m)
      BY <1>3, <1>5 DEF Headings
    <3>2. Before(i, x) <= k
      BY <1>5, <2>5, <2>9, <3>1
    <3>3. Before(i, x) <= h
      BY <2>2, <3>1, <3>2 DEF Under
    <3> QED
      BY <1>5, <2>6, <3>1, <3>3
  <2>10. Under(n, a, b)
    BY <2>7, <2>8, <2>9 DEF Under
  <2>11. Scanned(n, a)
    BY <1>1, <2>2, <2>3, <2>5, <2>6, <2>10, ScannedIs
  <2> QED
    BY <2>1, <2>5, <2>11, FeaturesAre
<1> QED
  BY <1>1, <1>12, <1>13, <1>15, <1>16
-----------------------------------------------------------------------------
(* Merging the features of a program.                                      *)
LEMMA FirstDep ==
  ASSUME NEW m \in Seq(LineSet), Framed(m)
  PROVE  4 \in DOMAIN m /\ Scanned(m, 4)
<1>1. Len(m) \in Nat /\ DOMAIN m = 1 .. Len(m) /\ 3 \in DOMAIN m /\ 4 \in DOMAIN m
  BY LenProperties DEF Framed
<1>2. /\ Line("table", "dependencies").l = "table" /\ Line("table", "dependencies").of = "dependencies"
      /\ Line("table", "dependencies").off = FALSE
  BY LineFields
<1>3. 3 \in Headings(m) /\ 4 \notin Headings(m) /\ m[3].of = "dependencies" /\ ~m[4].off
  BY <1>1, <1>2 DEF Headings, Framed
<1>4. Under(m, 4, 3)
  BY <1>1, <1>3 DEF Under, Headings
<1> QED
  BY <1>1, <1>3, <1>4, ScannedIs

LEMMA PairSize ==
  ASSUME NEW i, NEW j, i # j
  PROVE  Cardinality({i, j}) = 2
<1>1. IsFiniteSet({i}) /\ Cardinality({i}) = 1 /\ j \notin {i}
  BY FS_Singleton
<1> DEFINE S == {i}
<1> HIDE DEF S
<1>2. IsFiniteSet(S) /\ j \notin S /\ Cardinality(S) = 1
  BY <1>1 DEF S
<1>3. Cardinality(S \cup {j}) = Cardinality(S) + 1
  BY <1>2, FS_AddElement
<1>4. S \cup {j} = {i, j}
  BY DEF S
<1> QED
  BY <1>2, <1>3, <1>4

LEMMA MergedIs ==
  ASSUME NEW m \in Seq(LineSet), Paired(m), Framed(m), NEW added, Once(m, added),
         NEW f \in SUBSET Gates, Cardinality(Hits(m)) <= 1
  PROVE  /\ Merged(m, f) \in Seq(LineSet) /\ Paired(Merged(m, f)) /\ Framed(Merged(m, f))
         /\ Once(Merged(m, f), added)
         /\ ~Unread(m) => /\ FeaturesOf(m) \subseteq FeaturesOf(Merged(m, f))
                          /\ f \subseteq FeaturesOf(Merged(m, f))
<1>1. Len(m) \in Nat /\ DOMAIN m = 1 .. Len(m) /\ \A i \in DOMAIN m : m[i] \in LineSet
  BY LenProperties, ElementOfSeq
<1>2. Hits(m) \in SUBSET (1 .. Len(m))
  BY <1>1 DEF Hits
<1>3. 4 \in DOMAIN m /\ Scanned(m, 4) /\ m[4].l = "dep" /\ m[4].of \in Spelling
  BY FirstDep DEF Framed
<1>4. ~Unread(m) => 4 \in Hits(m) /\ m[4].of \in {"emitted", "extended"}
  BY <1>3 DEF Unread, Hits, Spelling
<1>5. \A i \in Hits(m) : 4 \in Hits(m) => i = 4
  <2>1. IsFiniteSet(Hits(m))
    <3>1. IsFiniteSet(1 .. Len(m))
      BY <1>1, FS_Interval
    <3> QED
      BY <1>2, <3>1, FS_Subset
  <2>2. ASSUME NEW i \in Hits(m), 4 \in Hits(m), i # 4 PROVE FALSE
    <3>1. {i, 4} \subseteq Hits(m)
      BY <2>2
    <3>2. Cardinality({i, 4}) = 2
      BY <2>2, PairSize
    <3>3. Cardinality({i, 4}) <= Cardinality(Hits(m))
      BY <2>1, <3>1, FS_Subset
    <3>4. Cardinality(Hits(m)) \in Nat
      BY <2>1, FS_CardinalityType
    <3> QED
      BY <3>2, <3>3, <3>4
  <2> QED
    BY <2>2
<1>6. CASE Hits(m) = {}
  BY <1>4, <1>6 DEF Merged
<1>7. CASE Hits(m) # {}
  <2> DEFINE k == Max(Hits(m))
             g == ParsedFeatures(m[k]) \cup f
             d == DepLine("emitted", g)
  <2>1. k \in Hits(m)
    BY <1>1, <1>2, <1>7, MaxIs
  <2>2. Merged(m, f) = [m EXCEPT ![k] = d]
    BY <1>1, <1>7, <2>1 DEF Merged
  <2> HIDE DEF k
  <2>3. /\ k \in DOMAIN m /\ Scanned(m, k) /\ m[k].l = "dep" /\ ~m[k].off /\ m[k] \in LineSet
    BY <1>1, <2>1 DEF Hits, Scanned
  <2>4. ParsedFeatures(m[k]) \in SUBSET Gates
    BY <2>3 DEF ParsedFeatures, LineSet
  <2>5. g \in SUBSET Gates /\ ParsedFeatures(m[k]) \subseteq g /\ f \subseteq g
    BY <2>4
  <2> HIDE DEF g
  <2>6. /\ d \in LineSet /\ d.l = "dep" /\ d.of \in Spelling /\ d.features = g /\ d.off = FALSE
    <3>1. \A w \in Spelling : /\ DepLine(w, g) \in LineSet /\ DepLine(w, g).l = "dep" /\ DepLine(w, g).of = w
                               /\ DepLine(w, g).features = g /\ DepLine(w, g).off = FALSE
      BY <2>5, DepLineIs
    <3>2. "emitted" \in Spelling
      BY DEF Spelling
    <3> QED
      BY <3>1, <3>2
  <2> HIDE DEF d
  <2>7. ~Unread(m) => m[k].features \subseteq d.features
    BY <1>4, <1>5, <2>1, <2>5, <2>6 DEF ParsedFeatures
  <2>8. f \subseteq d.features
    BY <2>5, <2>6
  <2> QED
    BY <2>2, <2>3, <2>6, <2>7, <2>8, Redone
<1> QED
  BY <1>6, <1>7
-----------------------------------------------------------------------------
(* The inductive invariant.                                                *)
Shape == toml \in Seq(LineSet) /\ Paired(toml) /\ (toml # <<>> => Framed(toml))
Listed == (toml = <<>> => DOMAIN need = {}) /\ Once(toml, DOMAIN need)
Featured == ~unread => \A p \in DOMAIN need : need[p] \subseteq FeaturesOf(toml)
ProjectInv == Shape /\ Listed /\ Featured

LEMMA ProjectStarts == ProjectInit => ProjectInv
<1> SUFFICES ASSUME ProjectInit PROVE ProjectInv
  OBVIOUS
<1>1. toml = <<>> /\ need = <<>>
  BY DEF ProjectInit
<1>2. toml \in Seq(LineSet) /\ DOMAIN toml = {} /\ DOMAIN need = {}
  BY <1>1
<1> QED
  BY <1>1, <1>2 DEF ProjectInv, Shape, Listed, Featured, Paired, Once, NameLines

LEMMA NeedsAre ==
  ASSUME NEW p, NEW f
  PROVE  /\ DOMAIN Needs(p, f) = DOMAIN need \cup {p}
         /\ \A q \in DOMAIN need \cup {p} : Needs(p, f)[q] = IF q = p THEN f ELSE need[q]
  BY DEF Needs

(* A step that adds a program, or asks for a feature.                      *)
LEMMA StepAdds ==
  ASSUME NEW p, NEW f, need' = Needs(p, f), unread => unread',
         toml' \in Seq(LineSet), Paired(toml'), Framed(toml'),
         Once(toml', DOMAIN need \cup {p}),
         Featured, ~unread' => FeaturesOf(toml) \subseteq FeaturesOf(toml') /\ f \subseteq FeaturesOf(toml')
  PROVE  ProjectInv'
<1>1. toml' # <<>>
  BY LenProperties DEF Framed
<1>2. Shape' /\ Listed'
  BY <1>1, NeedsAre DEF Shape, Listed
<1>3. Featured'
  <2> SUFFICES ASSUME ~unread', NEW q \in DOMAIN need' PROVE need'[q] \subseteq FeaturesOf(toml')
    BY DEF Featured
  <2>1. q \in DOMAIN need \cup {p} /\ need'[q] = IF q = p THEN f ELSE need[q]
    <3>1. DOMAIN need' = DOMAIN need \cup {p}
      BY NeedsAre
    <3> QED
      BY <3>1 DEF Needs
  <2>2. q # p => need[q] \subseteq FeaturesOf(toml)
    BY <2>1 DEF Featured
  <2> QED
    BY <2>1, <2>2
<1> QED
  BY <1>2, <1>3 DEF ProjectInv

(* A step that only edits the manifest.                                    *)
LEMMA StepEdits ==
  ASSUME UNCHANGED <<need, unread>>, toml' \in Seq(LineSet), Paired(toml'), Framed(toml'),
         Once(toml', DOMAIN need), Featured, FeaturesOf(toml) \subseteq FeaturesOf(toml')
  PROVE  ProjectInv'
<1>1. toml' # <<>>
  BY LenProperties DEF Framed
<1> QED
  BY <1>1 DEF ProjectInv, Shape, Listed, Featured

LEMMA OxideStep ==
  ASSUME ProjectInv, NEW p \in Programs, NEW f \in SUBSET Gates, NEW local \in BOOLEAN,
         RunOxide(p, f, local)
  PROVE  ProjectInv'
<1> DEFINE d == DepLine("emitted", f)
           base == IF toml = <<>> THEN PackageOf(d) ELSE Merged(toml, f)
           m == WithBin(base, p)
<1>1. d \in LineSet /\ d.l = "dep" /\ d.of \in Spelling /\ d.features = f /\ ~d.off
  <2>1. "emitted" \in Spelling
    BY DEF Spelling
  <2> QED
    BY <2>1, DepLineIs
<1>2. toml' = IF local THEN WithPatch(m) ELSE m
  <2>1. toml = <<>> => m = PackageOf(d) \o BinEntry(p)
    <3> HIDE DEF d
    <3> QED
      BY <1>1, PackageIs DEF WithBin
  <2> QED
    BY <2>1 DEF RunOxide
<1>3. need' = Needs(p, f) /\ unread' = (unread \/ Unread(toml)) /\ Cardinality(Hits(toml)) <= 1
  BY DEF RunOxide
<1> HIDE DEF d
<1>4. /\ base \in Seq(LineSet) /\ Paired(base) /\ Framed(base)
      /\ Once(base, DOMAIN need)
      /\ ~Unread(toml) => f \subseteq FeaturesOf(base)
      /\ ~Unread(toml) => FeaturesOf(toml) \subseteq FeaturesOf(base)
  <2>1. CASE toml = <<>>
    <3>1. DOMAIN need = {}
      BY <2>1 DEF ProjectInv, Listed
    <3>2. FeaturesOf(toml) = {}
      <4>1. DOMAIN toml = {}
        BY <2>1
      <4> QED
        BY <4>1 DEF FeaturesOf
    <3>3. base = PackageOf(d)
      BY <2>1
    <3> QED
      BY <1>1, <3>1, <3>2, <3>3, PackageIs
  <2>2. CASE toml # <<>>
    <3>1. toml \in Seq(LineSet) /\ Paired(toml) /\ Framed(toml) /\ Once(toml, DOMAIN need)
      BY <2>2 DEF ProjectInv, Shape, Listed
    <3>2. base = Merged(toml, f)
      BY <2>2
    <3> QED
      BY <1>3, <3>1, <3>2, MergedIs
  <2> QED
    BY <2>1, <2>2
<1> HIDE DEF base
<1>5. /\ m \in Seq(LineSet) /\ Paired(m) /\ Framed(m) /\ Once(m, DOMAIN need \cup {p})
      /\ FeaturesOf(base) \subseteq FeaturesOf(m)
  BY <1>4, AddBin
<1> HIDE DEF m
<1>6. /\ toml' \in Seq(LineSet) /\ Paired(toml') /\ Framed(toml') /\ Once(toml', DOMAIN need \cup {p})
      /\ FeaturesOf(m) \subseteq FeaturesOf(toml')
  <2>1. /\ WithPatch(m) \in Seq(LineSet) /\ Paired(WithPatch(m)) /\ Framed(WithPatch(m))
        /\ Once(WithPatch(m), DOMAIN need \cup {p})
        /\ FeaturesOf(m) \subseteq FeaturesOf(WithPatch(m))
    BY <1>5, AddPatch
  <2>2. toml' = WithPatch(m) \/ toml' = m
    BY <1>2
  <2> QED
    BY <1>5, <2>1, <2>2
<1>7. ~unread' => FeaturesOf(toml) \subseteq FeaturesOf(toml') /\ f \subseteq FeaturesOf(toml')
  BY <1>3, <1>4, <1>5, <1>6
<1>8. Featured /\ (unread => unread')
  BY <1>3 DEF ProjectInv
<1> QED
  BY <1>3, <1>6, <1>7, <1>8, StepAdds

LEMMA TranspileStep ==
  ASSUME ProjectInv, NEW p \in Programs, RunTranspile(p)
  PROVE  ProjectInv'
<1> DEFINE d == DepLine("own", Gates)
           base == IF toml = <<>> THEN PackageOf(d) ELSE toml
<1>1. d \in LineSet /\ d.l = "dep" /\ d.of \in Spelling /\ d.features = Gates /\ ~d.off
  <2>1. "own" \in Spelling /\ Gates \in SUBSET Gates
    BY DEF Spelling
  <2> QED
    BY <2>1, DepLineIs
<1>2. toml' = WithBin(base, p) /\ need' = Needs(p, {}) /\ unread' = unread
  BY DEF RunTranspile
<1> HIDE DEF d
<1>3. /\ base \in Seq(LineSet) /\ Paired(base) /\ Framed(base)
      /\ Once(base, DOMAIN need)
      /\ FeaturesOf(toml) \subseteq FeaturesOf(base)
  <2>1. CASE toml = <<>>
    <3>1. DOMAIN need = {}
      BY <2>1 DEF ProjectInv, Listed
    <3>2. FeaturesOf(toml) = {}
      <4>1. DOMAIN toml = {}
        BY <2>1
      <4> QED
        BY <4>1 DEF FeaturesOf
    <3>3. base = PackageOf(d)
      BY <2>1
    <3> QED
      BY <1>1, <3>1, <3>2, <3>3, PackageIs
  <2>2. CASE toml # <<>>
    BY <2>2 DEF ProjectInv, Shape, Listed
  <2> QED
    BY <2>1, <2>2
<1> HIDE DEF base
<1>4. /\ toml' \in Seq(LineSet) /\ Paired(toml') /\ Framed(toml') /\ Once(toml', DOMAIN need \cup {p})
      /\ FeaturesOf(base) \subseteq FeaturesOf(toml')
  BY <1>2, <1>3, AddBin
<1>5. FeaturesOf(toml) \subseteq FeaturesOf(toml') /\ {} \subseteq FeaturesOf(toml')
  BY <1>3, <1>4
<1>6. Featured /\ (unread => unread')
  BY <1>2 DEF ProjectInv
<1> QED
  BY <1>2, <1>4, <1>5, <1>6, StepAdds

(* What an edit finds.                                                     *)
LEMMA Edited ==
  ASSUME ProjectInv, toml # <<>>
  PROVE  toml \in Seq(LineSet) /\ Paired(toml) /\ Framed(toml) /\ Once(toml, DOMAIN need) /\ Featured
  BY DEF ProjectInv, Shape, Listed

LEMMA AddLinesStep ==
  ASSUME ProjectInv, AddLines
  PROVE  ProjectInv'
<1>1. PICK p \in Programs : \E x \in Edits(p) :
        toml # <<>> /\ toml' = toml \o x /\ UNCHANGED <<need, unread>>
  BY DEF AddLines
<1>2. PICK x \in Edits(p) : toml # <<>> /\ toml' = toml \o x /\ UNCHANGED <<need, unread>>
  BY <1>1
<1>3. x \in Seq(LineSet) /\ Paired(x) /\ \A q : Shown(toml \o x, q) => NameLines(x, q) = {}
  BY <1>2, Edited, EditsAre
<1>4. /\ toml' \in Seq(LineSet) /\ Paired(toml') /\ Framed(toml')
      /\ FeaturesOf(toml) \subseteq FeaturesOf(toml')
  BY <1>2, <1>3, Edited, Appended, AppendKeeps
<1>5. Once(toml', DOMAIN need)
  BY <1>2, <1>3, Edited, AppendOnce
<1> QED
  BY <1>2, <1>4, <1>5, Edited, StepEdits

LEMMA AddFeatureStep ==
  ASSUME ProjectInv, AddFeature
  PROVE  ProjectInv'
<1>1. PICK g \in Gates, i \in Hits(toml), s \in Spelling \ {"emitted"} :
        /\ toml' = [toml EXCEPT ![i] = DepLine(s, @.features \cup {g})]
        /\ need' = Needs("user", {g}) /\ unread' = unread
  BY DEF AddFeature
<1>2. i \in DOMAIN toml /\ Scanned(toml, i) /\ toml[i].l = "dep" /\ ~toml[i].off
  BY DEF Hits, Scanned
<1>3. toml # <<>>
  <2>1. DOMAIN toml # {}
    BY <1>2
  <2> QED
    BY <2>1
<1>4. toml \in Seq(LineSet) /\ Paired(toml) /\ Framed(toml) /\ Once(toml, DOMAIN need) /\ Featured
  BY <1>3, Edited
<1> DEFINE features == toml[i].features \cup {g}
           d == DepLine(s, features)
<1>5. features \in SUBSET Gates
  <2>1. toml[i] \in LineSet
    BY <1>2, <1>4, ElementOfSeq, LenProperties
  <2> QED
    BY <2>1 DEF LineSet
<1>6. toml' = [toml EXCEPT ![i] = d] /\ toml[i].features \subseteq features /\ {g} \subseteq features
  BY <1>1, <1>2
<1> HIDE DEF features
<1>7. d \in LineSet /\ d.l = "dep" /\ d.of \in Spelling /\ d.features = features /\ ~d.off
  BY <1>5, DepLineIs
<1> HIDE DEF d
<1>8. /\ toml' \in Seq(LineSet) /\ Paired(toml') /\ Framed(toml') /\ Once(toml', DOMAIN need)
      /\ FeaturesOf(toml) \subseteq FeaturesOf(toml') /\ {g} \subseteq FeaturesOf(toml')
  BY <1>2, <1>4, <1>6, <1>7, Redone
<1>9. Once(toml', DOMAIN need \cup {"user"})
  BY <1>8, ManifestAssumption DEF Once
<1> QED
  BY <1>1, <1>4, <1>8, <1>9, StepAdds

LEMMA RespellStep ==
  ASSUME ProjectInv, Respell
  PROVE  ProjectInv'
<1>1. PICK i \in DOMAIN toml :
        /\ toml[i].l = "name" /\ ~toml[i].off
        /\ toml' = [toml EXCEPT ![i].l = "naming"] /\ UNCHANGED <<need, unread>>
  BY DEF Respell
<1>2. toml # <<>>
  <2>1. DOMAIN toml # {}
    OBVIOUS
  <2> QED
    BY <2>1
<1>3. toml \in Seq(LineSet) /\ Paired(toml) /\ Framed(toml) /\ Once(toml, DOMAIN need) /\ Featured
  BY <1>2, Edited
<1> DEFINE n == [toml EXCEPT ![i].l = "naming"]
<1>4. toml' = n
  BY <1>1
<1>5. RenamedAt(toml, n, i)
  BY <1>1 DEF RenamedAt
<1> HIDE DEF n
<1>6. /\ n \in Seq(LineSet) /\ Paired(n) /\ (Framed(toml) => Framed(n))
      /\ \A added : Once(toml, added) => Once(n, added)
      /\ FeaturesOf(toml) \subseteq FeaturesOf(n)
  BY <1>3, <1>5, Renamed
<1>7. /\ toml' \in Seq(LineSet) /\ Paired(toml') /\ Framed(toml') /\ Once(toml', DOMAIN need)
      /\ FeaturesOf(toml) \subseteq FeaturesOf(toml')
  BY <1>3, <1>4, <1>6
<1> QED
  BY <1>1, <1>3, <1>7, StepEdits

LEMMA DropStep ==
  ASSUME ProjectInv, DropProgram
  PROVE  ProjectInv'
<1>1. PICK p \in Programs \cap DOMAIN need, i \in DOMAIN toml :
        /\ i < Len(toml) /\ SubSeq(toml, i, i + 1) = BinEntry(p)
        /\ toml' = RemoveAt(RemoveAt(toml, i), i)
        /\ need' = [q \in DOMAIN need \ {p} |-> need[q]] /\ unread' = unread
  BY DEF DropProgram
<1>2. toml # <<>>
  <2>1. DOMAIN toml # {}
    OBVIOUS
  <2> QED
    BY <2>1
<1>3. toml \in Seq(LineSet) /\ Paired(toml) /\ Framed(toml) /\ Once(toml, DOMAIN need) /\ Featured
  BY <1>2, Edited
<1>4. i \in 1 .. Len(toml) - 1 /\ Len(toml) \in Nat
  BY <1>1, <1>3, LenProperties
<1>5. toml[i] = BinEntry(p)[1] /\ toml[i + 1] = BinEntry(p)[2]
  <2>1. /\ i \in Int /\ i + 1 \in Int /\ \A j \in i .. i + 1 : toml[j] \in LineSet
    <3>1. \A j \in i .. i + 1 : j \in 1 .. Len(toml)
      BY <1>4
    <3> QED
      BY <1>3, <1>4, <3>1, ElementOfSeq
  <2>2. \A j \in 1 .. (i + 1) - i + 1 : SubSeq(toml, i, i + 1)[j] = toml[i + j - 1]
    BY <2>1, SubSeqProperties
  <2>3. 1 \in 1 .. (i + 1) - i + 1 /\ 2 \in 1 .. (i + 1) - i + 1 /\ i + 1 - 1 = i /\ i + 2 - 1 = i + 1
    BY <2>1
  <2> QED
    BY <1>1, <2>2, <2>3
<1>6. /\ toml[i].l = "bin" /\ toml[i].of \notin {"dependencies", "target"} /\ ~toml[i].off
      /\ toml[i + 1].l = "name" /\ toml[i + 1].of = p /\ ~toml[i + 1].off
  BY <1>5, BinEntryIs
<1> DEFINE n == RemoveAt(RemoveAt(toml, i), i)
<1>7. toml' = n
  BY <1>1
<1>8. /\ n \in Seq(LineSet) /\ Len(n) = Len(toml) - 2
      /\ \A j \in DOMAIN n : n[j] = toml[Before(i, j)]
  BY <1>3, <1>4, Removed
<1> HIDE DEF n
<1>9. Without(toml, n, i, p)
  BY <1>4, <1>6, <1>8 DEF Without
<1>10. /\ Paired(n) /\ Framed(n) /\ Once(n, DOMAIN need \ {p})
       /\ FeaturesOf(toml) \subseteq FeaturesOf(n)
  BY <1>3, <1>9, Dropped
<1>11. toml' \in Seq(LineSet)
  BY <1>7, <1>8
<1>12. /\ Paired(toml') /\ Framed(toml') /\ Once(toml', DOMAIN need \ {p})
       /\ FeaturesOf(toml) \subseteq FeaturesOf(toml')
  BY <1>7, <1>10
<1>13. toml' # <<>>
  BY <1>11, <1>12, LenProperties DEF Framed
<1>14. DOMAIN need' = DOMAIN need \ {p} /\ \A q \in DOMAIN need' : need'[q] = need[q]
  BY <1>1
<1>15. Shape' /\ Listed'
  BY <1>11, <1>12, <1>13, <1>14 DEF Shape, Listed
<1>16. Featured'
  BY <1>1, <1>3, <1>12, <1>14 DEF Featured
<1> QED
  BY <1>15, <1>16 DEF ProjectInv

LEMMA ProjectSteps == ProjectInv /\ [ProjectNext]_project => ProjectInv'
<1> SUFFICES ASSUME ProjectInv, [ProjectNext]_project PROVE ProjectInv'
  OBVIOUS
<1>1. ASSUME UNCHANGED <<toml, need, unread>> PROVE ProjectInv'
  BY <1>1 DEF ProjectInv, Shape, Listed, Featured
<1>2. CASE UNCHANGED project
  BY <1>1, <1>2 DEF project
<1>3. CASE OxideFails
  BY <1>1, <1>3 DEF OxideFails
<1>4. ASSUME ProjectNext, ~OxideFails PROVE ProjectInv'
  BY <1>4, OxideStep, TranspileStep, AddLinesStep, AddFeatureStep, RespellStep, DropStep
     DEF ProjectNext
<1> QED
  BY <1>2, <1>3, <1>4

THEOREM ProjectKept == ProjectSpec => []ProjectInv
<1> QED
  BY ProjectStarts, ProjectSteps, PTL DEF ProjectSpec

(* Every program that --oxide or --transpile added, and whose name is      *)
(* spelled and stands as they wrote it, is one executable of the project,  *)
(* and corvo-lang has the features of every program, whatever the programs,*)
(* the features, the runs and the user's edits between them.               *)
THEOREM ProgramsServed == ProjectSpec => []Served
<1>1. ProjectInv => Served
  <2> SUFFICES ASSUME ProjectInv, NEW p \in DOMAIN need
               PROVE  /\ p \in Programs /\ ~Hidden(toml, p) /\ ~Respelled(toml, p) =>
                           Cardinality(Executables(toml, p)) = 1
                      /\ ~unread => need[p] \subseteq FeaturesOf(toml)
    BY DEF Served
  <2>1. ~unread => need[p] \subseteq FeaturesOf(toml)
    BY DEF ProjectInv, Featured
  <2>2. ASSUME p \in Programs, ~Hidden(toml, p), ~Respelled(toml, p)
        PROVE  Cardinality(Executables(toml, p)) = 1
    <3>1. Shown(toml, p) /\ Executables(toml, p) = NameLines(toml, p)
      BY <2>2, ShownIs DEF ProjectInv, Shape
    <3>2. (\A i, j \in NameLines(toml, p) : i = j) /\ NameLines(toml, p) # {}
      BY <2>2, <3>1 DEF ProjectInv, Listed, Once
    <3>3. PICK i : NameLines(toml, p) = {i}
      BY <3>2
    <3> QED
      BY <3>1, <3>3, FS_Singleton
  <2> QED
    BY <2>1, <2>2
<1> QED
  BY <1>1, ProjectKept, PTL
==============================================================================
