---------------------------- MODULE AtomicUpdates ----------------------------
(***************************************************************************)
(* What a concurrent statement promises its shared variables when bodies   *)
(* only grow them: no snapshots, no merges.  Each thread decides on one    *)
(* update per shared variable, each decided update takes effect at most    *)
(* once, atomically, on whatever the variable holds at that moment, and    *)
(* the caller's variables change only after the last update.               *)
(***************************************************************************)
CONSTANTS
  Thread, Shared,  \* who updates, and which variables
  Growth,          \* the updates that grow a value
  Fits(_, _),      \* whether an update can be made to a value
  Apply(_, _),     \* what it makes of the value
  Loaded(_)        \* the starting value, from the caller's variable

VARIABLES
  stage,    \* "before", "open" (threads may update), "closed"
  outer,    \* the caller's variables
  cell,     \* the shared variables while the statement runs
  work,     \* work[t][k]: the update thread t decided to make to k
  decided,  \* the threads that have decided
  applied   \* the updates that have taken effect, as pairs <<t, k>>

vars == <<stage, outer, cell, work, decided, applied>>

Init ==
  /\ stage = "before"
  /\ decided = {}
  /\ applied = {}

Open ==
  /\ stage = "before"
  /\ stage' = "open"
  /\ cell' = [k \in Shared |-> Loaded(outer[k])]
  /\ UNCHANGED <<outer, work, decided, applied>>

Decide(t) ==
  /\ stage = "open"
  /\ t \notin decided
  /\ decided' = decided \cup {t}
  /\ work'[t] \in [Shared -> Growth]
  /\ work' = [work EXCEPT ![t] = work'[t]]
  /\ UNCHANGED <<stage, outer, cell, applied>>

TakeEffect(t, k) ==
  /\ stage = "open"
  /\ t \in decided
  /\ <<t, k>> \notin applied
  /\ Fits(work[t][k], cell[k])
  /\ cell' = [cell EXCEPT ![k] = Apply(work[t][k], @)]
  /\ applied' = applied \cup {<<t, k>>}
  /\ UNCHANGED <<stage, outer, work, decided>>

(* Every update that was decided has taken effect.  Threads that died      *)
(* before they decided contribute nothing.                                 *)
Close ==
  /\ stage = "open"
  /\ \A t \in decided, k \in Shared : <<t, k>> \in applied
  /\ stage' = "closed"
  /\ UNCHANGED <<outer, cell, work, decided, applied>>

Publish(k) ==
  /\ stage = "closed"
  /\ outer' = [outer EXCEPT ![k] = cell[k]]
  /\ UNCHANGED <<stage, cell, work, decided, applied>>

Next ==
  \/ Open \/ Close
  \/ \E t \in Thread : Decide(t)
  \/ \E t \in Thread, k \in Shared : TakeEffect(t, k)
  \/ \E k \in Shared : Publish(k)

Spec == Init /\ [][Next]_vars
==============================================================================
