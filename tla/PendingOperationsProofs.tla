----------------------- MODULE PendingOperationsProofs -----------------------
(***************************************************************************)
(* Proofs about the store of pending operations, for any commands,         *)
(* sessions, capacity and bound, and any order of calls.                   *)
(*                                                                         *)
(* Every transaction rewrites rows in one of three ways: it moves a set of *)
(* rows to a state (Moved), it touches idle marks only, or it adds a row.  *)
(* Rewrite describes the first two, row by row; the lemma of an operation  *)
(* says which rewrites it makes, and each theorem looks at rewrites only.  *)
(***************************************************************************)
EXTENDS PendingOperations, FiniteSetTheorems, TLAPS

(* The inductive invariant: the types, and finitely many rows, without which *)
(* the next number of a queue is not a number.                               *)
Inductive == StoreTypeOK /\ IsFiniteSet(DOMAIN ops)

(* A row may be rewritten so: its place stays, and its state goes forward,   *)
(* pending only if it was.                                                   *)
RowGoesForward(row, next) ==
  /\ next \in Operation
  /\ next.session = row.session
  /\ next.mode = row.mode
  /\ next.seq = row.seq
  /\ next.state = "pending" => row.state = "pending"
  /\ row.state = "admitted" => next.state \in {"admitted", "completed"}
  /\ row.state \in {"cancelled", "completed"} => next.state = row.state

Rewrite(f) ==
  /\ DOMAIN f = DOMAIN ops
  /\ \A o \in DOMAIN ops : RowGoesForward(ops[o], f[o])

-----------------------------------------------------------------------------
(* Rewriting. *)

(* Leaving every row alone is a rewrite. *)
LEMMA SameIsRewrite ==
  ASSUME StoreTypeOK
  PROVE  Rewrite(ops)
BY DEF StoreTypeOK, Rewrite, RowGoesForward

(* Moving rows out of pending or dispatching to a state that is not pending, *)
(* or admitted rows to completed, is a rewrite.                              *)
LEMMA MovedIsRewrite ==
  ASSUME StoreTypeOK, NEW set, NEW state \in OpState \ {"pending"},
         \A o \in DOMAIN ops \cap set :
           \/ ops[o].state \in {"pending", "dispatching"}
           \/ ops[o].state = "admitted" /\ state = "completed"
  PROVE  /\ Rewrite(Moved(set, state))
         /\ \A o \in DOMAIN ops : o \in set => Moved(set, state)[o].state = state
<1> DEFINE f == Moved(set, state)
<1>1. DOMAIN f = DOMAIN ops
  BY DEF Moved
<1>2. ASSUME NEW o \in DOMAIN ops
      PROVE  RowGoesForward(ops[o], f[o]) /\ (o \in set => f[o].state = state)
  <2>1. ops[o] \in Operation
    BY DEF StoreTypeOK
  <2>2. CASE o \in set
    <3>1. f[o] = [ops[o] EXCEPT !.state = state, !.idle = "null"]
      BY <2>2 DEF Moved
    <3> QED
      BY <2>1, <2>2, <3>1 DEF RowGoesForward, Operation, IdleMark, OpState
  <2>3. CASE o \notin set
    <3>1. f[o] = ops[o]
      BY <2>3 DEF Moved
    <3> QED
      BY <2>1, <2>3, <3>1 DEF RowGoesForward
  <2> QED
    BY <2>2, <2>3
<1> QED
  BY <1>1, <1>2 DEF Rewrite

(* Touching idle marks is a rewrite. *)
LEMMA MarkIsRewrite ==
  ASSUME StoreTypeOK, NEW f, DOMAIN f = DOMAIN ops,
         \A o \in DOMAIN ops :
           \/ f[o] = ops[o]
           \/ \E mark \in IdleMark : f[o] = [ops[o] EXCEPT !.idle = mark]
  PROVE  Rewrite(f)
<1> SUFFICES ASSUME NEW o \in DOMAIN ops
             PROVE  RowGoesForward(ops[o], f[o])
  BY DEF Rewrite
<1>1. ops[o] \in Operation
  BY DEF StoreTypeOK
<1>2. CASE f[o] = ops[o]
  BY <1>1, <1>2 DEF RowGoesForward
<1>3. ASSUME NEW mark \in IdleMark, f[o] = [ops[o] EXCEPT !.idle = mark]
      PROVE  RowGoesForward(ops[o], f[o])
  BY <1>1, <1>3 DEF RowGoesForward, Operation
<1> QED
  BY <1>2, <1>3

LEMMA UnmarkedIsRewrite ==
  ASSUME StoreTypeOK, NEW set
  PROVE  Rewrite(Unmarked(set))
<1>1. DOMAIN Unmarked(set) = DOMAIN ops
  BY DEF Unmarked
<1>2. ASSUME NEW o \in DOMAIN ops
      PROVE  \/ Unmarked(set)[o] = ops[o]
             \/ \E mark \in IdleMark : Unmarked(set)[o] = [ops[o] EXCEPT !.idle = mark]
  <2>1. CASE o \in set /\ ops[o].state = "admitted"
    <3>1. Unmarked(set)[o] = [ops[o] EXCEPT !.idle = "null"]
      BY <2>1 DEF Unmarked
    <3> QED
      BY <3>1 DEF IdleMark
  <2>2. CASE ~ (o \in set /\ ops[o].state = "admitted")
    BY <2>2 DEF Unmarked
  <2> QED
    BY <2>1, <2>2
<1> QED
  BY <1>1, <1>2, MarkIsRewrite

-----------------------------------------------------------------------------
(* What each operation does to the rows and to the gate. *)

(* Create adds a pending row of an open mode, or does nothing. *)
LEMMA CreateAdds ==
  ASSUME Inductive, NEW o \in OpIds, NEW s \in Sessions, NEW mode \in Modes,
         Create(o, s, mode)
  PROVE  /\ acceptance' = acceptance
         /\ \/ ops' = ops
            \/ /\ o \notin DOMAIN ops
               /\ DOMAIN ops' = DOMAIN ops \cup {o}
               /\ \A q \in DOMAIN ops : ops'[q] = ops[q]
               /\ ops'[o] \in Operation
               /\ ops'[o].mode = mode
               /\ Open(mode)
<1>1. CASE Refused
  BY <1>1 DEF Refused, storeVars
<1>2. CASE /\ Open(mode)
           /\ o \notin DOMAIN ops
           /\ ops' = [q \in DOMAIN ops \cup {o} |->
                  IF q = o
                  THEN [session |-> s, mode |-> mode, state |-> "pending",
                        seq |-> NextSequence(s), admittedId |-> NotAdmitted, idle |-> "null"]
                  ELSE ops[q]]
           /\ UNCHANGED acceptance
  <2>1. NextSequence(s) \in Nat \ {0}
    <3> DEFINE mine == {x \in DOMAIN ops : ops[x].session = s}
    <3>1. IsFiniteSet(mine)
      <4>1. mine \subseteq DOMAIN ops
        OBVIOUS
      <4> QED
        BY <4>1, FS_Subset DEF Inductive
    <3>2. Cardinality(mine) \in Nat
      BY <3>1, FS_CardinalityType
    <3> QED
      BY <3>2 DEF NextSequence
  <2>2. ops'[o] = [session |-> s, mode |-> mode, state |-> "pending", seq |-> NextSequence(s),
                   admittedId |-> NotAdmitted, idle |-> "null"]
    BY <1>2
  <2>3. ops'[o] \in Operation /\ ops'[o].mode = mode
    BY <2>1, <2>2 DEF Operation, Modes, OpState, Live, IdleMark
  <2> QED
    BY <1>2, <2>3
<1> QED
  BY <1>1, <1>2 DEF Create

(* The operations that leave the gate alone rewrite the rows. *)
RowStep ==
  \/ \E o \in OpIds :
       \/ Claim(o) \/ Cancel(o) \/ ConfirmIdle(o) \/ MarkAges(o)
       \/ \E id \in AdmissionIds : MarkAdmitted(o, id)
  \/ \E s \in Sessions : ClearIdle(s)
  \/ \E ids \in SUBSET AdmissionIds : ops' = CompletedAs(ids) /\ UNCHANGED acceptance
  \/ \E releasable \in SUBSET OpIds : CancelAllPendingRemote(acceptance.generation, releasable)

LEMMA RowStepRewrites ==
  ASSUME StoreTypeOK, RowStep
  PROVE  Rewrite(ops') /\ acceptance' = acceptance
<1>1. ASSUME Refused
      PROVE  Rewrite(ops') /\ acceptance' = acceptance
  BY <1>1, SameIsRewrite DEF Refused, storeVars
<1>2. ASSUME NEW o \in OpIds, Claim(o)
      PROVE  Rewrite(ops') /\ acceptance' = acceptance
  <2>1. ops[o].state = "pending" /\ ops' = Moved({o}, "dispatching") /\ acceptance' = acceptance
    BY <1>2 DEF Claim, Claimable
  <2> QED
    BY <2>1, MovedIsRewrite DEF OpState, Live
<1>3. ASSUME NEW o \in OpIds, Cancel(o)
      PROVE  Rewrite(ops') /\ acceptance' = acceptance
  <2>1. CASE ops[o].state = "pending" /\ ops' = Moved({o}, "cancelled") /\ UNCHANGED acceptance
    BY <2>1, MovedIsRewrite DEF OpState
  <2> QED
    BY <1>1, <1>3, <2>1 DEF Cancel
<1>4. ASSUME NEW o \in OpIds, ConfirmIdle(o)
      PROVE  Rewrite(ops') /\ acceptance' = acceptance
  <2>1. CASE ops' = [ops EXCEPT ![o].idle = "recent"] /\ UNCHANGED acceptance
    BY <2>1, MarkIsRewrite DEF IdleMark
  <2>2. CASE ops[o].state = "admitted" /\ ops' = Moved({o}, "completed") /\ UNCHANGED acceptance
    BY <2>2, MovedIsRewrite DEF OpState
  <2>3. CASE ops' = ops /\ UNCHANGED acceptance
    BY <2>3, SameIsRewrite
  <2> QED
    BY <1>1, <1>4, <2>1, <2>2, <2>3 DEF ConfirmIdle
<1>5. ASSUME NEW o \in OpIds, MarkAges(o)
      PROVE  Rewrite(ops') /\ acceptance' = acceptance
  BY <1>5, MarkIsRewrite DEF MarkAges, IdleMark
<1>6. ASSUME NEW o \in OpIds, NEW id \in AdmissionIds, MarkAdmitted(o, id)
      PROVE  Rewrite(ops') /\ acceptance' = acceptance
  <2>1. CASE /\ o \in DOMAIN ops /\ ops[o].state = "dispatching"
             /\ ops' = [Moved({o}, "admitted") EXCEPT ![o].admittedId = id]
             /\ UNCHANGED acceptance
    <3> DEFINE f == Moved({o}, "admitted")
    <3>1. Rewrite(f) /\ f[o].state = "admitted"
      BY <2>1, MovedIsRewrite DEF OpState, Live
    <3>2. f[o] \in Operation
      BY <2>1, <3>1 DEF Rewrite, RowGoesForward
    <3>3. DOMAIN ops' = DOMAIN ops /\ \A q \in DOMAIN ops : q # o => ops'[q] = f[q]
      BY <2>1, <3>1 DEF Rewrite
    <3>4. ops'[o] = [f[o] EXCEPT !.admittedId = id]
      BY <2>1, <3>1 DEF Rewrite
    <3>5. RowGoesForward(ops[o], ops'[o])
      BY <2>1, <3>1, <3>2, <3>4 DEF Rewrite, RowGoesForward, Operation
    <3> QED
      BY <2>1, <3>1, <3>3, <3>5 DEF Rewrite
  <2> QED
    BY <1>1, <1>6, <2>1 DEF MarkAdmitted
<1>7. ASSUME NEW s \in Sessions, ClearIdle(s)
      PROVE  Rewrite(ops') /\ acceptance' = acceptance
  BY <1>7, UnmarkedIsRewrite DEF ClearIdle
<1>8. ASSUME NEW ids \in SUBSET AdmissionIds, ops' = CompletedAs(ids), UNCHANGED acceptance
      PROVE  Rewrite(ops') /\ acceptance' = acceptance
  BY <1>8, MovedIsRewrite DEF CompletedAs, OpState
<1>9. ASSUME NEW releasable \in SUBSET OpIds,
             CancelAllPendingRemote(acceptance.generation, releasable)
      PROVE  Rewrite(ops') /\ acceptance' = acceptance
  <2> DEFINE stops == {o \in DOMAIN ops : \/ ops[o].state = "pending"
                                          \/ ops[o].state = "dispatching" /\ o \in releasable}
  <2>1. CASE ops' = Moved(stops, "cancelled") /\ UNCHANGED acceptance
    <3>1. \A o \in DOMAIN ops \cap stops : ops[o].state \in {"pending", "dispatching"}
      OBVIOUS
    <3> QED
      BY <2>1, <3>1, MovedIsRewrite DEF OpState
  <2> QED
    BY <1>1, <1>9, <2>1 DEF CancelAllPendingRemote
<1> QED
  BY <1>2, <1>3, <1>4, <1>5, <1>6, <1>7, <1>8, <1>9 DEF RowStep

(* A new policy rewrites the rows, and what still waits is in a mode that is *)
(* enabled.                                                                  *)
LEMMA EnableRewrites ==
  ASSUME StoreTypeOK, NEW steer \in BOOLEAN, NEW enqueue \in BOOLEAN,
         EnableRemoteAcceptance(steer, enqueue)
  PROVE  /\ Rewrite(ops')
         /\ acceptance' \in Acceptance
         /\ \A o \in DOMAIN ops' : ops'[o].state = "pending" => acceptance'[ops'[o].mode]
<1> DEFINE stops == {o \in DOMAIN ops : /\ ops[o].state = "pending"
                                        /\ \/ ops[o].mode = "steer" /\ ~ steer
                                           \/ ops[o].mode = "enqueue" /\ ~ enqueue}
<1>1. ops' = Moved(stops, "cancelled")
  BY DEF EnableRemoteAcceptance
<1>2. \A o \in DOMAIN ops \cap stops : ops[o].state \in {"pending", "dispatching"}
  OBVIOUS
<1>3. Rewrite(ops') /\ \A o \in DOMAIN ops : o \in stops => ops'[o].state = "cancelled"
  <2> HIDE DEF stops
  <2> QED
    BY <1>1, <1>2, MovedIsRewrite DEF OpState
<1>4. acceptance' = [enabled |-> steer \/ enqueue, steer |-> steer, enqueue |-> enqueue,
                     generation |-> acceptance.generation + 1]
  BY DEF EnableRemoteAcceptance
<1>5. acceptance' \in Acceptance
  BY <1>4 DEF StoreTypeOK, Acceptance
<1>6. ASSUME NEW o \in DOMAIN ops', ops'[o].state = "pending"
      PROVE  acceptance'[ops'[o].mode]
  <2>1. /\ o \in DOMAIN ops /\ o \notin stops
        /\ ops[o].state = "pending" /\ ops'[o].mode = ops[o].mode
    BY <1>3, <1>6 DEF Rewrite, RowGoesForward
  <2>2. ops[o].mode \in {"steer", "enqueue"}
    BY <2>1 DEF StoreTypeOK, Operation, Modes
  <2>3. CASE ops[o].mode = "steer"
    BY <1>4, <2>1, <2>3
  <2>4. CASE ops[o].mode = "enqueue"
    BY <1>4, <2>1, <2>4
  <2> QED
    BY <2>2, <2>3, <2>4
<1> QED
  BY <1>3, <1>5, <1>6

(* A fence or a new process closes the gate and rewrites the rows. *)
LEMMA ClosingRewrites ==
  ASSUME StoreTypeOK, FenceRemoteAcceptance \/ Startup
  PROVE  Rewrite(ops') /\ acceptance' \in Acceptance /\ ~ acceptance'.enabled
<1>1. /\ acceptance' = [enabled |-> FALSE, steer |-> FALSE, enqueue |-> FALSE,
                        generation |-> acceptance.generation + 1]
      /\ ops' = ops \/ ops' = Unmarked(DOMAIN ops)
  BY DEF FenceRemoteAcceptance, Startup
<1>2. Rewrite(ops')
  BY <1>1, SameIsRewrite, UnmarkedIsRewrite
<1> QED
  BY <1>1, <1>2 DEF StoreTypeOK, Acceptance

(* Every step is one of these four. *)
LEMMA StepKinds ==
  ASSUME StoreNext
  PROVE  \/ \E o \in OpIds, s \in Sessions, mode \in Modes : Create(o, s, mode)
         \/ RowStep
         \/ \E steer, enqueue \in BOOLEAN : EnableRemoteAcceptance(steer, enqueue)
         \/ FenceRemoteAcceptance \/ Startup
BY DEF StoreNext, RowStep

-----------------------------------------------------------------------------
(* The theorems. *)

LEMMA InductiveInit == StoreInit => Inductive /\ WaitsBehindOpenGate
<1> SUFFICES ASSUME StoreInit
             PROVE  Inductive /\ WaitsBehindOpenGate
  OBVIOUS
<1>1. DOMAIN ops = {}
  BY DEF StoreInit
<1>2. acceptance \in Acceptance
  BY DEF StoreInit, Acceptance
<1> QED
  BY <1>1, <1>2, FS_EmptySet DEF Inductive, StoreTypeOK, WaitsBehindOpenGate

LEMMA InductiveStep == Inductive /\ [StoreNext]_storeVars => Inductive'
<1> SUFFICES ASSUME Inductive, [StoreNext]_storeVars
             PROVE  Inductive'
  OBVIOUS
<1> USE DEF Inductive
<1>1. ASSUME Rewrite(ops'), acceptance' \in Acceptance
      PROVE  Inductive'
  BY <1>1 DEF StoreTypeOK, Rewrite, RowGoesForward
<1>2. acceptance \in Acceptance
  BY DEF StoreTypeOK
<1>3. ASSUME NEW o \in OpIds, NEW s \in Sessions, NEW mode \in Modes, Create(o, s, mode)
      PROVE  Inductive'
  <2>1. CASE ops' = ops
    BY <1>3, <2>1, CreateAdds DEF StoreTypeOK
  <2>2. CASE /\ DOMAIN ops' = DOMAIN ops \cup {o}
             /\ \A q \in DOMAIN ops : ops'[q] = ops[q]
             /\ ops'[o] \in Operation
    <3>1. IsFiniteSet(DOMAIN ops')
      BY <2>2, FS_AddElement
    <3>2. acceptance' = acceptance
      BY <1>3, CreateAdds
    <3> QED
      BY <2>2, <3>1, <3>2 DEF StoreTypeOK
  <2> QED
    BY <1>3, <2>1, <2>2, CreateAdds
<1>4. CASE RowStep
  BY <1>1, <1>2, <1>4, RowStepRewrites
<1>5. ASSUME NEW steer \in BOOLEAN, NEW enqueue \in BOOLEAN,
             EnableRemoteAcceptance(steer, enqueue)
      PROVE  Inductive'
  BY <1>1, <1>5, EnableRewrites
<1>6. CASE FenceRemoteAcceptance \/ Startup
  BY <1>1, <1>6, ClosingRewrites
<1>7. CASE UNCHANGED storeVars
  BY <1>7 DEF storeVars, StoreTypeOK
<1> QED
  BY <1>3, <1>4, <1>5, <1>6, <1>7, StepKinds

(* Both tables of the store keep their columns' types (the schema of         *)
(* session-pending-operations.ts:126), whoever calls what in which order.    *)
THEOREM StoreTypeCorrect == StoreSpec => []StoreTypeOK
<1>1. Inductive => StoreTypeOK
  BY DEF Inductive
<1> QED
  BY <1>1, InductiveInit, InductiveStep, PTL DEF StoreSpec

(* While remote control is on, nothing waits in a mode that is disabled.     *)
THEOREM NothingWaitsBehindAClosedGate == StoreSpec => []WaitsBehindOpenGate
<1>1. ASSUME Inductive, WaitsBehindOpenGate, [StoreNext]_storeVars
      PROVE  WaitsBehindOpenGate'
  <2>1. StoreTypeOK
    BY <1>1 DEF Inductive
  <2>2. ASSUME Rewrite(ops'), acceptance' = acceptance
        PROVE  WaitsBehindOpenGate'
    BY <1>1, <2>2 DEF WaitsBehindOpenGate, Rewrite, RowGoesForward
  <2>3. ASSUME NEW o \in OpIds, NEW s \in Sessions, NEW mode \in Modes, Create(o, s, mode)
        PROVE  WaitsBehindOpenGate'
    <3>1. CASE ops' = ops /\ acceptance' = acceptance
      BY <1>1, <3>1 DEF WaitsBehindOpenGate
    <3>2. CASE /\ DOMAIN ops' = DOMAIN ops \cup {o}
               /\ \A q \in DOMAIN ops : ops'[q] = ops[q]
               /\ ops'[o].mode = mode
               /\ Open(mode)
               /\ acceptance' = acceptance
      BY <1>1, <3>2 DEF WaitsBehindOpenGate, Open
    <3> QED
      BY <1>1, <2>3, <3>1, <3>2, CreateAdds
  <2>4. CASE RowStep
    BY <2>1, <2>2, <2>4, RowStepRewrites
  <2>5. ASSUME NEW steer \in BOOLEAN, NEW enqueue \in BOOLEAN,
               EnableRemoteAcceptance(steer, enqueue)
        PROVE  WaitsBehindOpenGate'
    BY <2>1, <2>5, EnableRewrites DEF WaitsBehindOpenGate
  <2>6. CASE FenceRemoteAcceptance \/ Startup
    BY <2>1, <2>6, ClosingRewrites DEF WaitsBehindOpenGate
  <2>7. CASE UNCHANGED storeVars
    BY <1>1, <2>7 DEF storeVars, WaitsBehindOpenGate
  <2> QED
    BY <1>1, <2>3, <2>4, <2>5, <2>6, <2>7, StepKinds
<1> QED
  BY <1>1, InductiveInit, InductiveStep, PTL DEF StoreSpec

(* An operation only goes forward: nothing that was cancelled, completed,    *)
(* admitted or claimed is ever offered to the engine's queue again as if it  *)
(* still waited, and its place in the queue is its own.                      *)
THEOREM OperationsOnlyGoForward == StoreSpec => OnlyForward
<1> DEFINE Forward ==
      \A o \in DOMAIN ops :
       /\ o \in DOMAIN ops'
       /\ ops'[o].session = ops[o].session
       /\ ops'[o].mode = ops[o].mode
       /\ ops'[o].seq = ops[o].seq
       /\ ops[o].state # "pending" => ops'[o].state # "pending"
       /\ ops[o].state = "admitted" => ops'[o].state \in {"admitted", "completed"}
       /\ ops[o].state \in {"cancelled", "completed"} => ops'[o].state = ops[o].state
<1>1. ASSUME Inductive, [StoreNext]_storeVars
      PROVE  [Forward]_storeVars
  <2>1. StoreTypeOK
    BY <1>1 DEF Inductive
  <2>2. ASSUME Rewrite(ops')
        PROVE  Forward
    BY <2>2 DEF Rewrite, RowGoesForward
  <2>3. ASSUME NEW o \in OpIds, NEW s \in Sessions, NEW mode \in Modes, Create(o, s, mode)
        PROVE  Forward
    <3>1. \A q \in DOMAIN ops : q \in DOMAIN ops' /\ ops'[q] = ops[q]
      BY <1>1, <2>3, CreateAdds
    <3> QED
      BY <3>1
  <2>4. CASE RowStep
    BY <2>1, <2>2, <2>4, RowStepRewrites
  <2>5. ASSUME NEW steer \in BOOLEAN, NEW enqueue \in BOOLEAN,
               EnableRemoteAcceptance(steer, enqueue)
        PROVE  Forward
    BY <2>1, <2>2, <2>5, EnableRewrites
  <2>6. CASE FenceRemoteAcceptance \/ Startup
    BY <2>1, <2>2, <2>6, ClosingRewrites
  <2>7. CASE UNCHANGED storeVars
    BY <2>7
  <2> HIDE DEF Forward
  <2> QED
    BY <1>1, <2>3, <2>4, <2>5, <2>6, <2>7, StepKinds
<1> QED
  BY <1>1, InductiveInit, InductiveStep, PTL DEF StoreSpec, OnlyForward
=============================================================================
