----------------------------- MODULE PromptQueue -----------------------------
(***************************************************************************)
(* What remote control promises about a prompt sent to a busy session,     *)
(* whatever is lost, retried, stopped or restarted: it is either delivered *)
(* to the engine or withdrawn, at most one of the two and at most once,    *)
(* and the prompts of a lane (a session and a mode) are delivered in the   *)
(* order in which they were submitted.                                     *)
(***************************************************************************)
EXTENDS Naturals

CONSTANTS Prompts, Lanes

VARIABLES
  lane,        \* prompt submitted -> its lane
  place,       \* prompt submitted -> its number in the queue
  delivered,
  withdrawn

queueVars == <<lane, place, delivered, withdrawn>>

QueueInit ==
  /\ lane = [o \in {} |-> {}]
  /\ place = [o \in {} |-> {}]
  /\ delivered = {}
  /\ withdrawn = {}

Extends(f, g, o) == DOMAIN g = DOMAIN f \cup {o} /\ \A q \in DOMAIN f : g[q] = f[q]

Submit(o, l) ==
  /\ o \notin DOMAIN lane
  /\ Extends(lane, lane', o) /\ lane'[o] = l
  /\ Extends(place, place', o)
  /\ \A q \in DOMAIN lane : lane[q] = l => place[q] < place'[o]
  /\ UNCHANGED <<delivered, withdrawn>>

Deliver(o) ==
  /\ o \in DOMAIN lane \ (delivered \cup withdrawn)
  /\ \A q \in DOMAIN lane :
       lane[q] = lane[o] /\ place[q] < place[o] => q \in delivered \cup withdrawn
  /\ delivered' = delivered \cup {o}
  /\ UNCHANGED <<lane, place, withdrawn>>

(* A stop withdraws everything that waits, in one step. *)
Withdraw(set) ==
  /\ set \subseteq DOMAIN lane \ (delivered \cup withdrawn)
  /\ withdrawn' = withdrawn \cup set
  /\ UNCHANGED <<lane, place, delivered>>

QueueNext ==
  \/ \E o \in Prompts, l \in Lanes : Submit(o, l)
  \/ \E o \in Prompts : Deliver(o)
  \/ \E set \in SUBSET Prompts : Withdraw(set)

QueueSpec == QueueInit /\ [][QueueNext]_queueVars
=============================================================================
