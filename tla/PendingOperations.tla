-------------------------- MODULE PendingOperations --------------------------
(***************************************************************************)
(* The durable store of remote prompts that found their session busy       *)
(* (session-pending-operations.ts): one SQLite row per prompt and the      *)
(* acceptance gate of remote control.  Every operator is one transaction,  *)
(* total: a refusal before the first write is the disjunct Refused.        *)
(*                                                                         *)
(* command_correlation_id is UNIQUE and create answers a repeated command  *)
(* with the row it made first, so an operation is named by its command.    *)
(* Abstracted: the prompt, audits, time stamps, the generation written on  *)
(* a row (never read back) and purge (terminal rows seven days old, or     *)
(* beyond five thousand).  releaseClaim and markFailed are exported and    *)
(* called by nobody.                                                       *)
(***************************************************************************)
EXTENDS Naturals, FiniteSets

CONSTANTS
  Sessions,        \* (workspace, session) keys
  OpIds,           \* commands of remote clients that ask for a busy session
  AdmissionIds,    \* what an operation may be admitted as: a run, or itself
  NotAdmitted,     \* SQL NULL
  MaxLive,         \* SESSION_PENDING_OPERATION_MAX_LIVE
  MaxGate          \* bound: the last generation of the acceptance gate

ASSUME AdmissionAssumption == OpIds \subseteq AdmissionIds /\ NotAdmitted \notin AdmissionIds

VARIABLES
  ops,             \* session_pending_operations: operation -> row
  acceptance       \* session_pending_operation_meta

storeVars == <<ops, acceptance>>

Modes    == {"steer", "enqueue"}
Live     == {"pending", "dispatching", "admitted"}
OpState  == Live \cup {"cancelled", "completed"}
(* idle_observed_at: null, more recent than the minimum interval, older. *)
IdleMark == {"null", "recent", "aged"}

Operation  == [session : Sessions, mode : Modes, state : OpState, seq : Nat \ {0},
               admittedId : AdmissionIds \cup {NotAdmitted}, idle : IdleMark]
Acceptance == [enabled : BOOLEAN, steer : BOOLEAN, enqueue : BOOLEAN, generation : Nat]

-----------------------------------------------------------------------------
Refused == UNCHANGED storeVars

InState(s, state)  == {o \in DOMAIN ops : ops[o].session = s /\ ops[o].state = state}
OfMode(set, mode)  == {o \in set : ops[o].mode = mode}
(* Mutant: SELECT without ORDER BY queue_sequence. *)
IsAny(o, set)      == o \in set
IsFirst(o, set)    == o \in set /\ \A q \in set : ops[o].seq <= ops[q].seq
Open(mode)         == acceptance.enabled /\ acceptance[mode]
LiveOps            == {o \in DOMAIN ops : ops[o].state \in Live}

(* The operations in set go to state; a change of state forgets the idle     *)
(* mark.                                                                     *)
Moved(set, state) ==
  [o \in DOMAIN ops |->
     IF o \in set THEN [ops[o] EXCEPT !.state = state, !.idle = "null"] ELSE ops[o]]

(* The idle marks of the admitted operations in set are taken back. *)
Unmarked(set) ==
  [o \in DOMAIN ops |->
     IF o \in set /\ ops[o].state = "admitted" THEN [ops[o] EXCEPT !.idle = "null"] ELSE ops[o]]

(* Mutants: a claim is returned to the queue; a claim is forgotten. *)
StartupReturnsClaims ==
  /\ acceptance' = [enabled |-> FALSE, steer |-> FALSE, enqueue |-> FALSE,
                    generation |-> acceptance.generation + 1]
  /\ ops' = [o \in DOMAIN ops |->
               IF ops[o].state = "dispatching" THEN [ops[o] EXCEPT !.state = "pending"]
               ELSE Unmarked(DOMAIN ops)[o]]
StartupForgetsClaims ==
  /\ acceptance' = [enabled |-> FALSE, steer |-> FALSE, enqueue |-> FALSE,
                    generation |-> acceptance.generation + 1]
  /\ ops' = [o \in {x \in DOMAIN ops : ops[x].state # "dispatching"} |-> Unmarked(DOMAIN ops)[o]]

(* Every process starts with the gate closed under a new generation; an      *)
(* operation being dispatched stays so, its outcome unknown.                 *)
Startup ==
  /\ acceptance' = [enabled |-> FALSE, steer |-> FALSE, enqueue |-> FALSE,
                    generation |-> acceptance.generation + 1]
  /\ ops' = Unmarked(DOMAIN ops)

(* Mutant: COALESCE(MAX(queue_sequence), 0). *)
LastSequence(s) == Cardinality({x \in DOMAIN ops : ops[x].session = s})

(* MAX(queue_sequence) + 1 of a session, none of whose rows is ever deleted. *)
NextSequence(s) == 1 + Cardinality({x \in DOMAIN ops : ops[x].session = s})

Create(o, s, mode) ==
  \/ /\ Open(mode)
     /\ o \notin DOMAIN ops
     /\ Cardinality(LiveOps) < MaxLive
     /\ ops' = [q \in DOMAIN ops \cup {o} |->
                  IF q = o
                  THEN [session |-> s, mode |-> mode, state |-> "pending",
                        seq |-> NextSequence(s),
                        admittedId |-> NotAdmitted, idle |-> "null"]
                  ELSE ops[q]]
     /\ UNCHANGED acceptance
  \/ /\ ~ Open(mode) \/ o \in DOMAIN ops \/ Cardinality(LiveOps) >= MaxLive
     /\ Refused

(* claimNext and claimById: the caller names the operation it found pending. *)
Claimable(o) == o \in DOMAIN ops /\ ops[o].state = "pending" /\ Open(ops[o].mode)
Claim(o) ==
  /\ Claimable(o)
  /\ ops' = Moved({o}, "dispatching")
  /\ UNCHANGED acceptance

Cancel(o) ==
  \/ /\ o \in DOMAIN ops /\ ops[o].state = "pending"
     /\ ops' = Moved({o}, "cancelled")
     /\ UNCHANGED acceptance
  \/ /\ o \in DOMAIN ops => ops[o].state # "pending"
     /\ Refused

MarkAdmitted(o, id) ==
  \/ /\ o \in DOMAIN ops /\ ops[o].state = "dispatching"
     /\ ops' = [Moved({o}, "admitted") EXCEPT ![o].admittedId = id]
     /\ UNCHANGED acceptance
  \/ /\ o \in DOMAIN ops => ops[o].state # "dispatching"
     /\ Refused

(* confirmIdle and, once it is confirmed, markCompleted. *)
ConfirmIdle(o) ==
  \/ /\ o \in DOMAIN ops /\ ops[o].state = "admitted"
     /\ \/ ops[o].idle = "null"   /\ ops' = [ops EXCEPT ![o].idle = "recent"]
        \/ ops[o].idle = "recent" /\ ops' = ops
        \/ ops[o].idle = "aged"   /\ ops' = Moved({o}, "completed")
     /\ UNCHANGED acceptance
  \/ /\ o \in DOMAIN ops => ops[o].state # "admitted"
     /\ Refused

(* markCompleted for what was admitted as one of ids. *)
CompletedAs(ids) ==
  Moved({o \in DOMAIN ops : ops[o].state = "admitted" /\ ops[o].admittedId \in ids}, "completed")

(* clearIdleConfirmation for the admitted operations of a session. *)
ClearIdle(s) == ops' = Unmarked(InState(s, "admitted")) /\ UNCHANGED acceptance

FenceRemoteAcceptance ==
  /\ acceptance' = [enabled |-> FALSE, steer |-> FALSE, enqueue |-> FALSE,
                    generation |-> acceptance.generation + 1]
  /\ UNCHANGED ops

(* Mutant: what waits in a disabled mode is left there. *)
EnableKeepsWaiting(steer, enqueue) ==
  /\ acceptance' = [enabled |-> steer \/ enqueue, steer |-> steer, enqueue |-> enqueue,
                    generation |-> acceptance.generation + 1]
  /\ UNCHANGED ops

(* enableRemoteAcceptance: what waits in a mode now disabled is cancelled.   *)
EnableRemoteAcceptance(steer, enqueue) ==
  /\ acceptance' = [enabled |-> steer \/ enqueue, steer |-> steer, enqueue |-> enqueue,
                    generation |-> acceptance.generation + 1]
  /\ ops' = Moved({o \in DOMAIN ops : /\ ops[o].state = "pending"
                                      /\ \/ ops[o].mode = "steer" /\ ~ steer
                                         \/ ops[o].mode = "enqueue" /\ ~ enqueue},
                  "cancelled")

(* cancelAllPendingRemote: refused when the gate has been moved since.       *)
FenceHolds(fence) == ~ acceptance.enabled /\ acceptance.generation = fence
CancelAllPendingRemote(fence, releasable) ==
  \/ /\ FenceHolds(fence)
     /\ ops' = Moved({o \in DOMAIN ops : \/ ops[o].state = "pending"
                                         \/ ops[o].state = "dispatching" /\ o \in releasable},
                     "cancelled")
     /\ UNCHANGED acceptance
  \/ ~ FenceHolds(fence) /\ Refused

(* minimumIntervalMs passes since the first idle sample. *)
MarkAges(o) ==
  /\ o \in DOMAIN ops /\ ops[o].state = "admitted" /\ ops[o].idle = "recent"
  /\ ops' = [ops EXCEPT ![o].idle = "aged"]
  /\ UNCHANGED acceptance

StoreInit ==
  /\ ops = [o \in {} |-> {}]
  /\ acceptance = [enabled |-> FALSE, steer |-> FALSE, enqueue |-> FALSE, generation |-> 2]

(* Any caller, in any order. *)
StoreNext ==
  \/ \E o \in OpIds :
       \/ \E s \in Sessions, mode \in Modes : Create(o, s, mode)
       \/ Claim(o)
       \/ Cancel(o)
       \/ \E id \in AdmissionIds : MarkAdmitted(o, id)
       \/ ConfirmIdle(o)
       \/ MarkAges(o)
  \/ \E s \in Sessions : ClearIdle(s)
  \/ \E ids \in SUBSET AdmissionIds : ops' = CompletedAs(ids) /\ UNCHANGED acceptance
  \/ /\ acceptance.generation < MaxGate
     /\ \/ \E steer, enqueue \in BOOLEAN : EnableRemoteAcceptance(steer, enqueue)
        \/ FenceRemoteAcceptance
        \/ Startup
  \/ \E releasable \in SUBSET OpIds : CancelAllPendingRemote(acceptance.generation, releasable)

StoreSpec == StoreInit /\ [][StoreNext]_storeVars

-----------------------------------------------------------------------------
(* Properties. *)

(* Both tables keep their columns' types. *)
StoreTypeOK ==
  /\ DOMAIN ops \subseteq OpIds
  /\ \A o \in DOMAIN ops : ops[o] \in Operation
  /\ acceptance \in Acceptance

(* Nothing waits behind a closed gate while remote control is on: a policy   *)
(* that disables a mode cancels what waits in it, in the same transaction,   *)
(* so that enabling the mode again cannot admit a prompt of the old policy.  *)
WaitsBehindOpenGate ==
  acceptance.enabled =>
    \A o \in DOMAIN ops : ops[o].state = "pending" => acceptance[ops[o].mode]

(* An operation only goes forward: what was cancelled or completed stays so, *)
(* what was admitted is not dispatched again, what was claimed never waits   *)
(* again, and an operation keeps its session, mode and place in the queue.   *)
OnlyForward ==
  [][\A o \in DOMAIN ops :
       /\ o \in DOMAIN ops'
       /\ ops'[o].session = ops[o].session
       /\ ops'[o].mode = ops[o].mode
       /\ ops'[o].seq = ops[o].seq
       /\ ops[o].state # "pending" => ops'[o].state # "pending"
       /\ ops[o].state = "admitted" => ops'[o].state \in {"admitted", "completed"}
       /\ ops[o].state \in {"cancelled", "completed"} => ops'[o].state = ops[o].state]_storeVars
=============================================================================
