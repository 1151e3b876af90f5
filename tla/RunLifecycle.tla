---------------------------- MODULE RunLifecycle ----------------------------
(***************************************************************************)
(* What the server promises about session runs, whatever its requests do   *)
(* and whenever it restarts: a session has at most one open run; a run is  *)
(* reserved once, under a fence larger than every earlier one; and it ends *)
(* once, either published with its outcome in the same step, or withdrawn  *)
(* because its prompt was never accepted.  A restart is not a step.        *)
(***************************************************************************)
EXTENDS Naturals, Sequences

CONSTANTS Sessions, RunIds

VARIABLES
  open,        \* session -> its open run
  fence,       \* run ever reserved -> its generation
  published    \* outcomes, in the order they were published

lifecycleVars == <<open, fence, published>>

Outcome == {"completed", "failed", "aborted"}

With(f, k, v) == [x \in DOMAIN f \cup {k} |-> IF x = k THEN v ELSE f[x]]
Without(f, k) == [x \in DOMAIN f \ {k} |-> f[x]]

LifecycleInit ==
  /\ open = [s \in {} |-> {}]
  /\ fence = [r \in {} |-> {}]
  /\ published = <<>>

Reserve(s, r) ==
  /\ s \notin DOMAIN open
  /\ r \notin DOMAIN fence
  /\ open' = With(open, s, r)
  /\ fence' = With(fence, r, fence'[r])
  /\ \A q \in DOMAIN fence : fence[q] < fence'[r]
  /\ UNCHANGED published

Publish(s, outcome) ==
  /\ s \in DOMAIN open
  /\ open' = Without(open, s)
  /\ published' = Append(published, [run |-> open[s], reason |-> outcome])
  /\ UNCHANGED fence

Withdraw(s) ==
  /\ s \in DOMAIN open
  /\ open' = Without(open, s)
  /\ UNCHANGED <<fence, published>>

LifecycleNext ==
  \E s \in Sessions :
    \/ \E r \in RunIds : Reserve(s, r)
    \/ \E outcome \in Outcome : Publish(s, outcome)
    \/ Withdraw(s)

LifecycleSpec == LifecycleInit /\ [][LifecycleNext]_lifecycleVars
=============================================================================
