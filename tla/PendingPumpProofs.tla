-------------------------- MODULE PendingPumpProofs --------------------------
(***************************************************************************)
(* Theorems about the pump that admits the stored prompts, composed with   *)
(* the store, the routes, the observer, the coordinator and the engine;    *)
(* for every set of sessions, operations and handlers and every bound.     *)
(*                                                                         *)
(* What a step of the system does to the stored operations, the wire and   *)
(* the gate is described once (Moves); that a stop is truthful and that    *)
(* the queue is kept are arguments about that description.                 *)
(***************************************************************************)
EXTENDS PendingPump, SessionControlProofs

-----------------------------------------------------------------------------
(* Types. *)

(* The engine also works for operations. *)
PumpEngine == [pending : SUBSET (RunIds \cup OpIds), stamp : Nat,
               evidence : RunOutcome \cup {"null"}]

(* The pass knows what it is admitting. *)
PassNamesOperation == pass.at \in Admitting => pass.op \in DOMAIN ops

(* Finitely many rows: without it the next number of a queue is none. *)
Ground ==
  /\ Core
  /\ engine \in [Sessions -> PumpEngine]
  /\ PumpTypeOK
  /\ IsFiniteSet(DOMAIN ops)
  /\ PassNamesOperation

-----------------------------------------------------------------------------
(* Operations on their way. *)

(* What the engine has not seen yet is being dispatched. *)
WireIsDispatching == \A o \in wire \ DOMAIN delivered : ops[o].state = "dispatching"

(* What the engine took was claimed and is not withdrawn; nothing else is   *)
(* recorded as admitted.                                                    *)
DeliveredIsOut ==
  /\ \A o \in DOMAIN delivered : ops[o].state \in {"dispatching", "admitted", "completed"}
  /\ \A o \in DOMAIN ops : ops[o].state \in {"admitted", "completed"} => o \in DOMAIN delivered

(* Of the same session and mode, and stored earlier. *)
Before(q, o) ==
  /\ ops[q].session = ops[o].session
  /\ ops[q].mode = ops[o].mode
  /\ ops[q].seq < ops[o].seq

(* Who is being dispatched has nobody before it any more. *)
TakenInOrder ==
  \A q, o \in DOMAIN ops :
    ops[o].state = "dispatching" /\ Before(q, o) =>
      q \in DOMAIN delivered \/ ops[q].state = "cancelled"

(* Numbers are given in order: MAX + 1 is the number of rows + 1. *)
Stored(s) == {x \in DOMAIN ops : ops[x].session = s}
NumbersCount == \A o \in DOMAIN ops : ops[o].seq <= Cardinality(Stored(ops[o].session))

QueueOK == WireIsDispatching /\ DeliveredIsOut /\ TakenInOrder /\ NumbersCount

-----------------------------------------------------------------------------
(* The gate. *)

(* The pass that goes on without an await found the gate open. *)
NextIsOpen == pass.at = "next" => thread = PumpSlot /\ acceptance.enabled

(* A fence whose stop succeeded still stands, or has been lifted. *)
SilencedIsClosed == acceptance.generation \in silenced => ~ acceptance.enabled

StopOK == NextIsOpen /\ SilencedIsClosed /\ StopAllIsTruthful

-----------------------------------------------------------------------------
(* The coordinator under the pump. *)

(* What the pass does to coordinator and journal; the requests stay. *)
Coordinates == StateOK' /\ Step /\ UNCHANGED RequestVars

LEMMA StandsStill ==
  ASSUME StateOK, NoChange, UNCHANGED RequestVars
  PROVE  Coordinates
BY StutterKeeps, StutterProgresses DEF Coordinates, Step

LEMMA BusyCoordinates ==
  ASSUME StateOK, NEW s \in Sessions, NEW r, ObserveActivity(s, r, "running"), UNCHANGED RequestVars
  PROVE  Coordinates
<1> DEFINE next == [runs[s] EXCEPT !.observed = @ \/ "running" # "starting",
                                   !.status = IF @ = "aborting" THEN @ ELSE "running",
                                   !.idle = "null"]
<1>1. CASE Holds(s, r) /\ Advance("progress", s, next)
  <2>1. s \in DOMAIN runs /\ runs[s] \in Run
    BY <1>1, MirroredRun DEF Holds
  <2>2. next \in Run /\ next.id = runs[s].id /\ next.gen = runs[s].gen
    BY <2>1 DEF Run, ActiveStatus, IdleSample
  <2> HIDE DEF next
  <2> QED BY <1>1, <2>1, <2>2, AdvanceKeeps, AdvanceProgresses DEF Coordinates, Step
<1>2. CASE NoChange
  BY <1>2, StandsStill
<1> QED BY <1>1, <1>2 DEF ObserveActivity

LEMMA ReconcileCoordinates ==
  ASSUME StateOK, NEW s \in Sessions, NEW r \in RunIds,
         ReconcileAuthoritativeIdle(s, r), UNCHANGED RequestVars
  PROVE  Coordinates
BY ReconcileKeeps, ReconcileSteps DEF Coordinates

LEMMA ReserveCoordinates ==
  ASSUME StateOK, NEW s \in Sessions, NEW r \in RunIds, ReserveStart(s, r), UNCHANGED RequestVars
  PROVE  Coordinates
BY ReserveKeeps, ReserveOpens DEF Coordinates, Step

LEMMA ReserveFailsCoordinates ==
  ASSUME StateOK, NEW s \in Sessions, ReserveStartFails(s), UNCHANGED RequestVars
  PROVE  Coordinates
BY ReserveStartFailsKeeps, ReserveStartFailsProgresses DEF Coordinates, Step

LEMMA AcceptCoordinates ==
  ASSUME StateOK, NEW s \in Sessions, NEW r, AcceptStart(s, r), UNCHANGED RequestVars
  PROVE  Coordinates
<1>1. Holds(s, r) => r \in RunIds
  BY MirroredRun DEF Holds, Run
<1>2. CASE r \in RunIds
  BY <1>2, AcceptStartKeeps, AcceptStartProgresses DEF Coordinates, Step
<1>3. CASE NoChange
  BY <1>3, StandsStill
<1> QED BY <1>1, <1>2, <1>3 DEF AcceptStart

LEMMA RollbackCoordinates ==
  ASSUME StateOK, NEW s \in Sessions, NEW r, RollbackStart(s, r) \/ NoChange, UNCHANGED RequestVars
  PROVE  Coordinates
<1>1. Holds(s, r) => r \in RunIds
  BY MirroredRun DEF Holds, Run
<1>2. CASE RollbackStart(s, r) /\ r \in RunIds
  BY <1>2, RollbackStartKeeps, RollbackStartSteps DEF Coordinates
<1>3. CASE NoChange
  BY <1>3, StandsStill
<1> QED BY <1>1, <1>2, <1>3 DEF RollbackStart

(* A pass in progress is about a session. *)
LEMMA PassFacts ==
  ASSUME PumpTypeOK, pass.at # "none"
  PROVE  pass \in Pass /\ pass.session \in Sessions
BY DEF PumpTypeOK, NoPass, Pass

(* Every step of the pass leaves coordinator and journal in order. *)
LEMMA PassCoordinates ==
  ASSUME Ground, PassStep
  PROVE  Coordinates
<1>0. StateOK /\ PumpTypeOK
  BY DEF Ground, Core, Inv
<1>1. pass.at # "none"
  BY DEF PassStep, PassDecides, PassAnswered, PassReadsStatus, PassReadsEvidence, PassReadFails,
         PassGivesUp, PassFindsBusy, PassReconciles, PassContinues, PassIdle,
         StaleSuccess, SteerAdmitted, FirstAdmitted, RecoveryAdmitted, RecoveryAccepted,
         AdmissionUnrecorded, AdmissionFails, PassAt, Admitting
<1>2. pass.session \in Sessions
  BY <1>0, <1>1, PassFacts
<1>3. UNCHANGED RequestVars
  BY DEF PassStep, PassDecides, PassAnswered, PassReadsStatus, PassReadsEvidence, PassReadFails,
         PassGivesUp, PassFindsBusy, PassReconciles, PassContinues,
         StaleSuccess, SteerAdmitted, FirstAdmitted, RecoveryAdmitted, RecoveryAccepted,
         AdmissionUnrecorded, AdmissionFails, OnlyPump, RequestVars
<1>4. ASSUME pass.session \in DOMAIN runs
      PROVE  runs[pass.session].id \in RunIds
  BY <1>0, <1>4, MirroredRun DEF Run
<1> DEFINE s == pass.session
<1>5. CASE NoChange
  BY <1>0, <1>3, <1>5, StandsStill
<1>6. CASE PassFindsBusy
  <2>1. NoChange \/ \E r : ObserveActivity(s, r, "running")
    BY <1>6 DEF PassFindsBusy
  <2> QED BY <1>0, <1>2, <1>3, <1>5, <2>1, BusyCoordinates
<1>7. CASE PassReconciles
  <2>1. s \in DOMAIN runs /\ ReconcileAuthoritativeIdle(s, runs[s].id)
    BY <1>7 DEF PassReconciles
  <2> QED BY <1>0, <1>2, <1>3, <1>4, <2>1, ReconcileCoordinates
<1>8. CASE PassContinues
  <2>1. NoChange \/ (\E r \in PumpRuns : ReserveStart(s, r)) \/ ReserveStartFails(s)
    BY <1>8 DEF PassContinues
  <2> QED BY <1>0, <1>2, <1>3, <1>5, <2>1, PumpRunAssumption, ReserveCoordinates, ReserveFailsCoordinates
<1>9. CASE FirstAdmitted
  <2>1. NoChange \/ AcceptStart(s, pass.run)
    BY <1>9 DEF FirstAdmitted
  <2> QED BY <1>0, <1>2, <1>3, <1>5, <2>1, AcceptCoordinates
<1>10. CASE RecoveryAdmitted
  <2>1. NoChange \/ \E r \in PumpRuns : ReserveStart(s, r)
    BY <1>10 DEF RecoveryAdmitted
  <2> QED BY <1>0, <1>2, <1>3, <1>5, <2>1, PumpRunAssumption, ReserveCoordinates
<1>11. CASE RecoveryAccepted
  BY <1>0, <1>2, <1>3, <1>11, AcceptCoordinates DEF RecoveryAccepted
<1>12. CASE AdmissionUnrecorded
  <2>1. NoChange \/ RollbackStart(s, pass.run) \/ \E r \in PumpRuns : ReserveStart(s, r)
    BY <1>12 DEF AdmissionUnrecorded, RunRolledBack
  <2> QED BY <1>0, <1>2, <1>3, <1>5, <2>1, PumpRunAssumption, ReserveCoordinates, RollbackCoordinates
<1>13. CASE AdmissionFails
  <2>1. NoChange \/ RollbackStart(s, pass.run)
    BY <1>13 DEF AdmissionFails, RunRolledBack
  <2> QED BY <1>0, <1>2, <1>3, <1>5, <2>1, RollbackCoordinates
<1> QED
  BY <1>5, <1>6, <1>7, <1>8, <1>9, <1>10, <1>11, <1>12, <1>13
     DEF PassStep, PassDecides, PassAnswered, PassReadsStatus, PassReadsEvidence, PassReadFails,
         PassGivesUp, StaleSuccess, SteerAdmitted

-----------------------------------------------------------------------------
(* The engine under the pump. *)

EngineTyped == engine \in [Sessions -> PumpEngine]

LEMMA EngineEvidence ==
  ASSUME EngineTyped
  PROVE  EvidenceTyped
BY DEF EngineTyped, PumpEngine, EvidenceTyped

(* A turn that ends leaves a message created while it went on. *)
LEMMA TurnEnds ==
  ASSUME EngineTyped, NEW s \in Sessions, NEW r, NEW outcome \in RunOutcome,
         NEW from, NEW stamp \in from .. generation, stamp >= engine[s].stamp,
         engine' = [engine EXCEPT ![s] =
            [pending |-> @.pending \ {r}, stamp |-> stamp, evidence |-> outcome]]
  PROVE  EngineTyped'
<1>1. engine[s] \in PumpEngine
  BY DEF EngineTyped
<1>2. stamp \in Nat
  BY <1>1 DEF PumpEngine
<1>3. [pending |-> engine[s].pending \ {r}, stamp |-> stamp, evidence |-> outcome] \in PumpEngine
  BY <1>1, <1>2 DEF PumpEngine
<1> QED BY <1>3 DEF EngineTyped

LEMMA TurnBegins ==
  ASSUME EngineTyped, NEW s \in Sessions, NEW S \in SUBSET (RunIds \cup OpIds),
         engine' = [engine EXCEPT ![s].pending = S]
  PROVE  EngineTyped'
<1>1. engine[s] \in PumpEngine
  BY DEF EngineTyped
<1>2. [engine[s] EXCEPT !.pending = S] \in PumpEngine
  BY <1>1 DEF PumpEngine
<1> QED BY <1>2 DEF EngineTyped

(* What the engine does.  Nobody else touches it. *)
EngineSteps ==
  \/ \E s \in Sessions, r \in RunIds, outcome \in EngineOutcomes : EngineFinishes(s, r, outcome)
  \/ \E s \in Sessions : EngineLost(s)
  \/ \E t \in starts : EngineTakes(t)
  \/ \E o \in wire : AdmissionArrives(o)
  \/ \E s \in Sessions, o \in OpIds, outcome \in EngineOutcomes : OperationEnds(s, o, outcome)

LEMMA HandlersEngine ==
  ASSUME HandlerNext
  PROVE  UNCHANGED engine \/ EngineSteps
<1>1. ASSUME NEW s \in Sessions,
             \/ ClockTicks(s)
             \/ \E p \in Slots : ObserverLooks(p, s) \/ StartReads(p, s)
             \/ \E p \in Slots, r \in RunIds, hint \in {"idle", "completed"} : ClientHints(p, s, r, hint)
             \/ \E r \in RunIds, status \in ReportedStatus : ClientReports(s, r, status)
             \/ \E r \in RunIds : ProxyReserves(s, r)
             \/ \E r \in RunIds, c \in AbortCommands : StopRequested(s, r, c)
      PROVE  UNCHANGED engine
  BY <1>1 DEF ClockTicks, ObserverLooks, StartReads, ClientHints, ClientReports, ProxyReserves,
              StopRequested, OnlyHandler, externalVars, controlVars
<1>2. ASSUME NEW p, ProbeStep(p)
      PROVE  UNCHANGED engine
  BY <1>2, ProbeStepHandles DEF Handles, OnlyHandler, externalVars
<1>3. ASSUME NEW t, \/ PromptAccepted(t) \/ PromptFailed(t) \/ ProxySettles(t)
                    \/ EngineAnswersAbort(t) \/ StopAccepted(t) \/ StopFailed(t)
      PROVE  UNCHANGED engine
  BY <1>3 DEF PromptAccepted, PromptFailed, ProxySettles, EngineAnswersAbort,
              StopAccepted, StopFailed, controlVars, externalVars
<1>4. ASSUME NEW s \in Sessions, EngineStep(s)
      PROVE  EngineSteps
  BY <1>4 DEF EngineStep, EngineSteps
<1>5. ASSUME NEW t \in starts, EngineTakes(t)
      PROVE  EngineSteps
  BY <1>5 DEF EngineSteps
<1> QED BY <1>1, <1>2, <1>3, <1>4, <1>5 DEF HandlerNext, Slots

LEMMA OnlyEngine ==
  ASSUME [PumpNext]_systemVars
  PROVE  UNCHANGED engine \/ EngineSteps
<1>1. CASE ControlMoves
  BY <1>1, HandlersEngine DEF ControlMoves
<1>2. CASE PassStep \/ \E s \in Sessions : PassBegins(s)
  BY <1>2 DEF PassStep, PassDecides, PassAnswered, PassReadsStatus, PassReadsEvidence, PassReadFails,
         PassGivesUp, PassFindsBusy, PassReconciles, PassContinues, PassBegins,
         StaleSuccess, SteerAdmitted, FirstAdmitted, RecoveryAdmitted, RecoveryAccepted,
         AdmissionUnrecorded, AdmissionFails, OnlyPump, externalVars
<1>3. ASSUME NEW p, NEW o, NEW mode, StartIsStored(p, o, mode)
      PROVE  UNCHANGED engine
  BY <1>3 DEF StartIsStored, StartLooks, StartConfirms, OnlyHandler, externalVars
<1>4. ASSUME \/ \E o \in DOMAIN ops : ClientCancels(o) \/ OperationAges(o)
             \/ StopAllBegins
             \/ \E fence \in stopping : StopAllEnds(fence) \/ StopAllTimesOut(fence)
             \/ \E policy \in Policies : PolicyEnabled(policy)
      PROVE  UNCHANGED engine
  BY <1>4 DEF ClientCancels, OperationAges, StopAllBegins, StopAllEnds, StopAllTimesOut,
              PolicyEnabled, ControlStands, controlVars, externalVars
<1>5. CASE EverythingRestarts \/ UNCHANGED systemVars
  BY <1>5 DEF EverythingRestarts, ServerRestarts, systemVars, allVars, controlVars, externalVars
<1>6. CASE \/ \E o \in wire : AdmissionArrives(o)
           \/ \E s \in Sessions, o \in OpIds, outcome \in EngineOutcomes : OperationEnds(s, o, outcome)
  BY <1>6 DEF EngineSteps
<1> QED BY <1>1, <1>2, <1>3, <1>4, <1>5, <1>6 DEF PumpNext

LEMMA EngineKept ==
  ASSUME Ground, [PumpNext]_systemVars
  PROVE  EngineTyped'
<1>0. EngineTyped /\ PumpTypeOK /\ TicketsOK
  BY DEF Ground, EngineTyped, Core, Inv
<1>1. CASE UNCHANGED engine
  BY <1>0, <1>1 DEF EngineTyped
<1>2. ASSUME NEW s \in Sessions, NEW r \in RunIds, NEW outcome \in RunOutcome, EngineFinishes(s, r, outcome)
      PROVE  EngineTyped'
  BY <1>0, <1>2, TurnEnds DEF EngineFinishes
<1>3. ASSUME NEW s \in Sessions, EngineLost(s)
      PROVE  EngineTyped'
  <2>1. {} \in SUBSET (RunIds \cup OpIds) /\ engine' = [engine EXCEPT ![s].pending = {}]
    BY <1>3 DEF EngineLost
  <2> QED BY <1>0, <2>1, TurnBegins
<1>4. ASSUME NEW t \in starts, EngineTakes(t)
      PROVE  EngineTyped'
  <2>1. t.session \in Sessions /\ t.run \in RunIds
    BY <1>0 DEF TicketsOK, StartTicket
  <2>2. engine[t.session].pending \cup {t.run} \in SUBSET (RunIds \cup OpIds)
    BY <1>0, <2>1 DEF EngineTyped, PumpEngine
  <2>3. engine' = [engine EXCEPT ![t.session].pending = engine[t.session].pending \cup {t.run}]
    BY <1>4 DEF EngineTakes
  <2> QED BY <1>0, <2>1, <2>2, <2>3, TurnBegins
<1>5. ASSUME NEW o \in wire, AdmissionArrives(o)
      PROVE  EngineTyped'
  <2>1. o \in OpIds /\ ops[o].session \in Sessions
    BY <1>0 DEF PumpTypeOK, StoreTypeOK, Operation
  <2>2. engine[ops[o].session].pending \cup {o} \in SUBSET (RunIds \cup OpIds)
    BY <1>0, <2>1 DEF EngineTyped, PumpEngine
  <2>3. \/ UNCHANGED engine
        \/ engine' = [engine EXCEPT ![ops[o].session].pending = engine[ops[o].session].pending \cup {o}]
    BY <1>5 DEF AdmissionArrives
  <2> QED BY <1>0, <1>1, <2>1, <2>2, <2>3, TurnBegins
<1>6. ASSUME NEW s \in Sessions, NEW o \in OpIds, NEW outcome \in RunOutcome, OperationEnds(s, o, outcome)
      PROVE  EngineTyped'
  BY <1>0, <1>6, TurnEnds DEF OperationEnds
<1> QED BY <1>1, <1>2, <1>3, <1>4, <1>5, <1>6, OnlyEngine, OutcomeAssumption DEF EngineSteps

(* Handlers, routes and observer find what they rely on, also under the pump. *)
LEMMA CoreKept ==
  ASSUME Ground, [PumpNext]_systemVars
  PROVE  Core' /\ Step
<1>0. Core /\ EvidenceTyped'
  BY EngineKept, EngineEvidence, PTL DEF Ground
<1>1. ASSUME [ControlNext]_allVars
      PROVE  Core' /\ Step
  BY <1>0, <1>1, ControlActs, ActsKeep, ProbesKept, TicketsKept DEF Core, ProbesSound
<1>2. ASSUME Coordinates, UNCHANGED probe
      PROVE  Core' /\ Step
  <2>1. Inv' /\ Step
    BY <1>0, <1>2 DEF Core, Inv, Coordinates, TicketsOK, RequestVars
  <2>2. ProbesSound'
    BY <1>0, <1>2, <2>1, ProbesDrop
  <2>3. TicketsNameRuns'
    BY <1>0, <1>2, <2>1, RowsStay DEF Core, Inv, RowStays, Coordinates, RequestVars, TicketsNameRuns
  <2> QED BY <1>0, <2>1, <2>2, <2>3 DEF Core, ProbesSound
<1>3. CASE UNCHANGED <<vars, probe>>
  <2>1. StateOK /\ NoChange /\ UNCHANGED RequestVars
    BY <1>0, <1>3 DEF Core, Inv, vars, NoChange, journalVars, RequestVars
  <2> QED BY <1>2, <1>3, <2>1, StandsStill
<1>4. CASE ControlMoves
  BY <1>1, <1>4 DEF ControlMoves, ControlNext
<1>5. CASE EverythingRestarts
  BY <1>1, <1>5 DEF EverythingRestarts, ControlNext
<1>6. CASE PassStep
  <2>1. UNCHANGED probe
    BY <1>6 DEF PassStep, PassDecides, PassAnswered, PassReadsStatus, PassReadsEvidence, PassReadFails,
         PassGivesUp, PassFindsBusy, PassReconciles, PassContinues,
         StaleSuccess, SteerAdmitted, FirstAdmitted, RecoveryAdmitted, RecoveryAccepted,
         AdmissionUnrecorded, AdmissionFails, OnlyPump
  <2> QED BY <1>2, <1>6, <2>1, PassCoordinates
<1>7. ASSUME NEW s, PassBegins(s)
      PROVE  UNCHANGED <<vars, probe>>
  BY <1>7 DEF PassBegins, OnlyPump, NoChange, vars, journalVars
<1>8. ASSUME NEW p \in RequestSlots, NEW o, NEW mode, StartIsStored(p, o, mode)
      PROVE  ControlNext
  BY <1>8 DEF StartIsStored, ControlNext, HandlerNext, ProbeStep, Slots
<1>9. ASSUME \/ \E o \in DOMAIN ops : ClientCancels(o) \/ OperationAges(o)
             \/ StopAllBegins
             \/ \E fence \in stopping : StopAllEnds(fence) \/ StopAllTimesOut(fence)
             \/ \E policy \in Policies : PolicyEnabled(policy)
      PROVE  UNCHANGED <<vars, probe>>
  BY <1>9 DEF ClientCancels, OperationAges, StopAllBegins, StopAllEnds, StopAllTimesOut,
              PolicyEnabled, ControlStands, controlVars, NoChange, vars, journalVars
<1>10. ASSUME NEW s, NEW o, NEW outcome, AdmissionArrives(o) \/ OperationEnds(s, o, outcome)
       PROVE  UNCHANGED <<vars, probe>>
  BY <1>10 DEF AdmissionArrives, OperationEnds, vars
<1>11. CASE UNCHANGED systemVars
  BY <1>3, <1>11 DEF systemVars, allVars, controlVars
<1> QED BY <1>1, <1>3, <1>4, <1>5, <1>6, <1>7, <1>8, <1>9, <1>10, <1>11 DEF PumpNext

-----------------------------------------------------------------------------
(* What a step does to the stored operations. *)

(* Nobody of o's session and mode is before it, nor being dispatched. *)
ClaimsFirst(o) ==
  /\ acceptance.enabled
  /\ \A q \in DOMAIN ops : Before(q, o) => ops[q].state \notin {"pending", "dispatching"}

(* o is the operation the pass was answered for, admitted as id; a queued   *)
(* prompt that was submitted again to an idle session gets a run only now.  *)
IsAnswered(o, id) ==
  /\ o = pass.op /\ o \in DOMAIN delivered \ wire
  /\ pass.at \in Admitting
  /\ pass.at # "recover" => id = AdmittedAs
  /\ pass.at = "recover" /\ ops[o].mode = "steer" => id = o

(* The row of o may become row: it keeps its place, and its state goes on. *)
RowMoves(o, row) ==
  /\ row \in Operation
  /\ row.session = ops[o].session /\ row.mode = ops[o].mode /\ row.seq = ops[o].seq
  /\ \/ row.state = ops[o].state /\ row.admittedId = ops[o].admittedId
     \/ ops[o].state = "pending" /\ row.state = "cancelled"
     \/ ops[o].state = "pending" /\ row.state = "dispatching" /\ ClaimsFirst(o)
     \/ ops[o].state = "dispatching" /\ row.state = "admitted" /\ IsAnswered(o, row.admittedId)
     \/ ops[o].state = "admitted" /\ row.state = "completed"

(* The table may become f. *)
Table(f) == DOMAIN f = DOMAIN ops /\ \A o \in DOMAIN ops : RowMoves(o, f[o])

(* The rows that a step moves to state along an edge. *)
MayMove(set, state) ==
  \A o \in DOMAIN ops \cap set :
    \/ ops[o].state = "pending" /\ state = "cancelled"
    \/ ops[o].state = "admitted" /\ state = "completed"

LEMMA SameTable ==
  ASSUME StoreTypeOK
  PROVE  Table(ops)
BY DEF StoreTypeOK, Table, RowMoves

LEMMA MovedTable ==
  ASSUME StoreTypeOK, NEW set, NEW state \in OpState, MayMove(set, state)
  PROVE  /\ Table(Moved(set, state))
         /\ \A o \in DOMAIN ops \ set : Moved(set, state)[o] = ops[o]
         /\ \A o \in DOMAIN ops \cap set : Moved(set, state)[o].state = state
<1> DEFINE f == Moved(set, state)
<1>1. DOMAIN f = DOMAIN ops /\ \A o \in DOMAIN ops \ set : f[o] = ops[o]
  BY DEF Moved
<1>2. ASSUME NEW o \in DOMAIN ops \cap set
      PROVE  RowMoves(o, f[o]) /\ f[o].state = state
  <2>1. ops[o] \in Operation
    BY DEF StoreTypeOK
  <2>2. f[o] = [ops[o] EXCEPT !.state = state, !.idle = "null"]
    BY DEF Moved
  <2>3. /\ f[o] \in Operation /\ f[o].state = state /\ f[o].session = ops[o].session
        /\ f[o].mode = ops[o].mode /\ f[o].seq = ops[o].seq
    BY <2>1, <2>2 DEF Operation, IdleMark
  <2> QED BY <2>3 DEF RowMoves, MayMove
<1>3. ASSUME NEW o \in DOMAIN ops \ set
      PROVE  RowMoves(o, f[o])
  <2>1. ops[o] \in Operation /\ f[o] = ops[o]
    BY <1>1 DEF StoreTypeOK
  <2> QED BY <2>1 DEF RowMoves
<1> QED BY <1>1, <1>2, <1>3 DEF Table

LEMMA UnmarkedTable ==
  ASSUME StoreTypeOK, NEW set
  PROVE  /\ Table(Unmarked(set))
         /\ \A o \in DOMAIN ops : Unmarked(set)[o].state = ops[o].state
         /\ \A o \in DOMAIN ops : ops[o].state # "admitted" => Unmarked(set)[o] = ops[o]
<1> DEFINE f == Unmarked(set)
<1>1. DOMAIN f = DOMAIN ops
  BY DEF Unmarked
<1>2. ASSUME NEW o \in DOMAIN ops
      PROVE  /\ RowMoves(o, f[o]) /\ f[o].state = ops[o].state
             /\ ops[o].state # "admitted" => f[o] = ops[o]
  <2>1. ops[o] \in Operation
    BY DEF StoreTypeOK
  <2>2. CASE o \in set /\ ops[o].state = "admitted"
    <3>1. f[o] = [ops[o] EXCEPT !.idle = "null"]
      BY <2>2 DEF Unmarked
    <3>2. /\ f[o] \in Operation /\ f[o].state = ops[o].state /\ f[o].session = ops[o].session
          /\ f[o].mode = ops[o].mode /\ f[o].seq = ops[o].seq /\ f[o].admittedId = ops[o].admittedId
      BY <2>1, <3>1 DEF Operation, IdleMark
    <3> QED BY <2>2, <3>2 DEF RowMoves
  <2>3. CASE ~ (o \in set /\ ops[o].state = "admitted")
    <3>1. f[o] = ops[o]
      BY <2>3 DEF Unmarked
    <3> QED BY <2>1, <3>1 DEF RowMoves
  <2> QED BY <2>2, <2>3
<1> QED BY <1>1, <1>2 DEF Table

(* A row that the table leaves alone may be marked. *)
LEMMA MarkTable ==
  ASSUME StoreTypeOK, NEW f, Table(f), NEW o \in DOMAIN ops, NEW mark \in IdleMark
  PROVE  Table([f EXCEPT ![o].idle = mark])
<1> DEFINE g == [f EXCEPT ![o].idle = mark]
<1>1. /\ DOMAIN g = DOMAIN ops /\ g[o] = [f[o] EXCEPT !.idle = mark]
      /\ \A q \in DOMAIN ops : q # o => g[q] = f[q]
  BY DEF Table
<1>2. f[o] \in Operation
  BY DEF Table, RowMoves
<1>3. /\ g[o] \in Operation /\ g[o].state = f[o].state /\ g[o].session = f[o].session
      /\ g[o].mode = f[o].mode /\ g[o].seq = f[o].seq /\ g[o].admittedId = f[o].admittedId
  BY <1>1, <1>2 DEF Operation
<1>4. RowMoves(o, g[o])
  BY <1>3 DEF Table, RowMoves
<1> QED BY <1>1, <1>4 DEF Table

(* Such a row may be claimed when it is the first of its lane. *)
LEMMA ClaimTable ==
  ASSUME StoreTypeOK, NEW f, Table(f), NEW o \in DOMAIN ops, f[o] = ops[o],
         ops[o].state = "pending", ClaimsFirst(o)
  PROVE  /\ Table([f EXCEPT ![o].state = "dispatching"])
         /\ [f EXCEPT ![o].state = "dispatching"][o].state = "dispatching"
<1> DEFINE g == [f EXCEPT ![o].state = "dispatching"]
<1>1. /\ DOMAIN g = DOMAIN ops /\ g[o] = [ops[o] EXCEPT !.state = "dispatching"]
      /\ \A q \in DOMAIN ops : q # o => g[q] = f[q]
  BY DEF Table
<1>2. ops[o] \in Operation
  BY DEF StoreTypeOK
<1>3. /\ g[o] \in Operation /\ g[o].state = "dispatching" /\ g[o].session = ops[o].session
      /\ g[o].mode = ops[o].mode /\ g[o].seq = ops[o].seq
  BY <1>1, <1>2 DEF Operation, OpState, Live
<1>4. RowMoves(o, g[o])
  BY <1>3 DEF RowMoves
<1> QED BY <1>1, <1>3, <1>4 DEF Table

(* What was answered is marked admitted, or the write is refused. *)
LEMMA AdmittedTable ==
  ASSUME StoreTypeOK, NEW id \in AdmissionIds, IsAnswered(pass.op, id),
         MarkAdmitted(pass.op, id) \/ Refused
  PROVE  Table(ops') /\ acceptance' = acceptance
<1>1. CASE Refused
  BY <1>1, SameTable DEF Refused, storeVars
<1>2. ASSUME NEW o \in DOMAIN ops, o = pass.op, ops[o].state = "dispatching",
             ops' = [Moved({o}, "admitted") EXCEPT ![o].admittedId = id]
      PROVE  Table(ops')
  <2>1. /\ DOMAIN ops' = DOMAIN ops /\ \A q \in DOMAIN ops : q # o => ops'[q] = ops[q]
        /\ ops'[o] = [[ops[o] EXCEPT !.state = "admitted", !.idle = "null"] EXCEPT !.admittedId = id]
    BY <1>2 DEF Moved
  <2>2. \A q \in DOMAIN ops : ops[q] \in Operation
    BY DEF StoreTypeOK
  <2>3. /\ ops'[o] \in Operation /\ ops'[o].state = "admitted" /\ ops'[o].session = ops[o].session
        /\ ops'[o].mode = ops[o].mode /\ ops'[o].seq = ops[o].seq /\ ops'[o].admittedId = id
    BY <2>1, <2>2 DEF Operation, OpState, Live, IdleMark
  <2>4. RowMoves(o, ops'[o])
    BY <1>2, <2>3 DEF RowMoves
  <2>5. \A q \in DOMAIN ops : q # o => RowMoves(q, ops'[q])
    BY <2>1, <2>2 DEF RowMoves
  <2> QED BY <2>1, <2>4, <2>5 DEF Table
<1> QED BY <1>1, <1>2 DEF MarkAdmitted

(* Who is first of those that wait, when none of them is being dispatched,  *)
(* claims first.                                                            *)
LEMMA FirstClaims ==
  ASSUME StoreTypeOK, acceptance.enabled, NEW s, NEW mode,
         NEW o, IsFirst(o, OfMode(InState(s, "pending"), mode)),
         OfMode(InState(s, "dispatching"), mode) = {}
  PROVE  o \in DOMAIN ops /\ ops[o].state = "pending" /\ ops[o].session = s /\ ClaimsFirst(o)
<1>1. /\ o \in DOMAIN ops /\ ops[o].state = "pending" /\ ops[o].session = s /\ ops[o].mode = mode
      /\ \A q \in DOMAIN ops : ops[q].session = s /\ ops[q].mode = mode /\ ops[q].state = "pending"
           => ops[o].seq <= ops[q].seq
  BY DEF IsFirst, OfMode, InState
<1>2. \A q \in DOMAIN ops : ops[q].seq \in Nat
  BY DEF StoreTypeOK, Operation
<1>3. ASSUME NEW q \in DOMAIN ops, Before(q, o)
      PROVE  ops[q].state \notin {"pending", "dispatching"}
  BY <1>1, <1>2, <1>3 DEF Before, OfMode, InState
<1> QED BY <1>1, <1>3 DEF ClaimsFirst

-----------------------------------------------------------------------------
(* What a step does to the operations, the wire, the gate and the pass.     *)

(* Rows are rewritten, and at most one that is being dispatched is sent.    *)
Edits ==
  /\ Table(ops')
  /\ delivered' = delivered
  /\ \/ wire' \subseteq wire
     \/ \E o \in DOMAIN ops :
          wire' = wire \cup {o} /\ ops'[o].state = "dispatching" /\ acceptance.enabled

Stores(o, s, mode) ==
  /\ acceptance.enabled
  /\ o \notin DOMAIN ops
  /\ DOMAIN ops' = DOMAIN ops \cup {o}
  /\ \A q \in DOMAIN ops : ops'[q] = ops[q]
  /\ ops'[o] \in Operation
  /\ ops'[o].session = s /\ ops'[o].mode = mode /\ ops'[o].state = "pending"
  /\ ops'[o].seq = 1 + Cardinality(Stored(s))
  /\ UNCHANGED <<acceptance, wire, delivered>>

Arrives ==
  /\ ops' = ops
  /\ \E o \in wire : wire' = wire \ {o} /\ DOMAIN delivered' = DOMAIN delivered \cup {o}

Moves ==
  \/ Edits
  \/ \E o \in OpIds, s \in Sessions, mode \in Modes : Stores(o, s, mode)
  \/ Arrives

(* The gate stays, moves to the next generation, or is found silent. *)
GateStays == acceptance' = acceptance /\ silenced' = silenced /\ stopping' \subseteq stopping
GateTurns ==
  /\ acceptance' \in Acceptance
  /\ acceptance'.generation = acceptance.generation + 1
  /\ silenced' = silenced
  /\ stopping' \subseteq stopping \cup {acceptance'.generation}
Silences ==
  /\ acceptance' = acceptance
  /\ \E fence \in stopping :
       /\ FenceHolds(fence)
       /\ silenced' = silenced \cup {fence}
       /\ stopping' \subseteq stopping
  /\ Edits
  /\ wire' = wire
  /\ \A o \in DOMAIN ops : ops'[o].state \notin {"pending", "dispatching"}

GateMoves == GateStays \/ GateTurns \/ Silences

PassMoves ==
  /\ pass' = NoPass \/ pass' \in Pass
  /\ pass'.at \in Admitting => pass'.op \in DOMAIN ops'
  /\ pass'.at = "next" => thread' = PumpSlot /\ acceptance'.enabled

Points == {"asking", "status", "busy", "idle", "next", "steer", "resteer", "recover", "first", "accept"}

LEMMA PassGoesTo ==
  ASSUME pass \in Pass, NEW at \in Points, NEW o \in OpIds \cup {NoRun}, NEW r \in RunIds \cup {NoRun}
  PROVE  /\ [pass EXCEPT !.at = at] \in Pass
         /\ [pass EXCEPT !.at = at].at = at
         /\ [pass EXCEPT !.at = at, !.run = r] \in Pass
         /\ [pass EXCEPT !.at = at, !.run = r].at = at
         /\ [pass EXCEPT !.at = at, !.op = o, !.run = r] \in Pass
         /\ [pass EXCEPT !.at = at, !.op = o, !.run = r].at = at
         /\ [pass EXCEPT !.at = at, !.op = o, !.run = r].op = o
<1> USE DEF Points
<1>1. [pass EXCEPT !.at = at] \in Pass /\ [pass EXCEPT !.at = at].at = at
  BY DEF Pass
<1>2. [pass EXCEPT !.at = at, !.run = r] \in Pass /\ [pass EXCEPT !.at = at, !.run = r].at = at
  BY DEF Pass
<1>3. /\ [pass EXCEPT !.at = at, !.op = o, !.run = r] \in Pass
      /\ [pass EXCEPT !.at = at, !.op = o, !.run = r].at = at
      /\ [pass EXCEPT !.at = at, !.op = o, !.run = r].op = o
  BY DEF Pass
<1> QED BY <1>1, <1>2, <1>3

LEMMA PassEnded ==
  ASSUME pass' = NoPass
  PROVE  PassMoves
BY DEF PassMoves, NoPass, Admitting

(* The step of a pass that sends o. *)
LEMMA PassSends ==
  ASSUME pass \in Pass, PumpTypeOK, NEW at \in Admitting, NEW o \in DOMAIN ops,
         NEW r \in RunIds \cup {NoRun}, Sends(at, o, r), DOMAIN ops' = DOMAIN ops
  PROVE  PassMoves /\ wire' = wire \cup {o}
<1>1. o \in OpIds /\ at \in Points /\ at # "next"
  BY DEF PumpTypeOK, StoreTypeOK, Admitting, Points
<1>2. pass' = [pass EXCEPT !.at = at, !.op = o, !.run = r] /\ wire' = wire \cup {o}
  BY DEF Sends, PassGoes
<1>3. pass' \in Pass /\ pass'.at = at /\ pass'.op = o
  BY <1>1, <1>2 DEF Pass, Points
<1> QED BY <1>1, <1>2, <1>3 DEF PassMoves

(* A step of the pass before it sends, or after its answer: the operations  *)
(* and the wire stay.                                                       *)
Idles == UNCHANGED <<ops, acceptance, wire, delivered, stopping, silenced>>

LEMMA IdlesMoves ==
  ASSUME StoreTypeOK, Idles
  PROVE  Edits /\ GateStays
BY SameTable DEF Idles, Edits, GateStays

LEMMA ReadsMove ==
  ASSUME Ground, PassReadsStatus \/ PassReadsEvidence \/ PassReadFails \/ PassGivesUp \/ StaleSuccess
                 \/ RecoveryAccepted
  PROVE  Edits /\ GateStays /\ PassMoves
<1>1. StoreTypeOK /\ Idles
  BY DEF Ground, PumpTypeOK, Idles, PassReadsStatus, PassReadsEvidence, PassReadFails, PassGivesUp,
         StaleSuccess, RecoveryAccepted, OnlyPump
<1>2. pass' = NoPass \/ \E at \in {"status", "busy", "idle"} : pass' = [pass EXCEPT !.at = at]
  BY DEF PassReadsStatus, PassReadsEvidence, PassReadFails, PassGivesUp, StaleSuccess, RecoveryAccepted,
         PassGoes, PassEnds
<1>3. ASSUME pass.at # "none", NEW at \in {"status", "busy", "idle"}, pass' = [pass EXCEPT !.at = at]
      PROVE  PassMoves
  <2>1. pass \in Pass /\ at \in Points /\ at \notin Admitting /\ at # "next"
    BY <1>3, PassFacts DEF Ground, Points, Admitting
  <2> QED BY <1>3, <2>1, PassGoesTo DEF PassMoves
<1>4. pass.at # "none"
  BY DEF PassReadsStatus, PassReadsEvidence, PassReadFails, PassGivesUp, PassIdle, StaleSuccess,
         RecoveryAccepted, PassAt, Admitting
<1> QED BY <1>1, <1>2, <1>3, <1>4, IdlesMoves, PassEnded

(* A busy session. *)
LEMMA BusyMoves ==
  ASSUME Ground, PassFindsBusy
  PROVE  Edits /\ GateStays /\ PassMoves
<1> DEFINE s     == pass.session
           run   == IF s \in DOMAIN runs THEN runs[s].id ELSE NoRun
           steer == OfMode(InState(s, "dispatching"), "steer")
           next  == OfMode(InState(s, "pending"), "steer")
<1>1. /\ StoreTypeOK /\ PumpTypeOK /\ StateOK
      /\ pass.at # "none" /\ acceptance.enabled
      /\ UNCHANGED <<delivered, stopping, silenced>>
  BY DEF Ground, PumpTypeOK, Core, Inv, PassFindsBusy, PassAt, Fresh, OnlyPump
<1>2. pass \in Pass
  BY <1>1, PassFacts
<1>3. run \in RunIds \cup {NoRun}
  BY <1>1, MirroredRun DEF Run
<1>4. acceptance' = acceptance
  BY DEF PassFindsBusy, ClearIdle
<1>5. GateStays
  BY <1>1, <1>4 DEF GateStays
<1>6. CASE \E o \in steer : IsFirst(o, steer) /\ Sends("resteer", o, run) /\ ClearIdle(s)
  <2>1. PICK o \in steer : Sends("resteer", o, run) /\ ClearIdle(s)
    BY <1>6
  <2>2. o \in DOMAIN ops /\ ops[o].state = "dispatching"
    BY DEF OfMode, InState
  <2>3. Table(ops') /\ ops'[o].state = "dispatching"
    BY <1>1, <2>1, <2>2, UnmarkedTable DEF ClearIdle
  <2> QED BY <1>1, <1>2, <1>3, <1>5, <2>1, <2>2, <2>3, PassSends DEF Edits, Table, Admitting
<1>7. CASE /\ steer = {}
           /\ \E o \in next :
                /\ IsFirst(o, next)
                /\ Sends("steer", o, run)
                /\ ops' = [Unmarked(InState(s, "admitted")) EXCEPT ![o].state = "dispatching"]
  <2> DEFINE f == Unmarked(InState(s, "admitted"))
  <2>1. PICK o \in next : /\ IsFirst(o, next) /\ Sends("steer", o, run)
                          /\ ops' = [f EXCEPT ![o].state = "dispatching"]
    BY <1>7
  <2>2. o \in DOMAIN ops /\ ops[o].state = "pending" /\ ClaimsFirst(o)
    BY <1>1, <1>7, <2>1, FirstClaims
  <2>3. Table(f) /\ f[o] = ops[o]
    BY <1>1, <2>2, UnmarkedTable
  <2> HIDE DEF f
  <2>4. Table(ops') /\ ops'[o].state = "dispatching"
    BY <1>1, <2>1, <2>2, <2>3, ClaimTable
  <2> QED BY <1>1, <1>2, <1>3, <1>5, <2>1, <2>2, <2>4, PassSends DEF Edits, Table, Admitting
<1>8. CASE PassEnds /\ ClearIdle(s) /\ UNCHANGED wire
  <2>1. Table(ops') /\ pass' = NoPass
    BY <1>1, <1>8, UnmarkedTable DEF ClearIdle, PassEnds, PassGoes
  <2> QED BY <1>1, <1>5, <1>8, <2>1, PassEnded DEF Edits
<1> HIDE DEF run, steer, next, s
<1> QED BY <1>6, <1>7, <1>8 DEF PassFindsBusy, run, steer, next, s

(* An idle session with a run. *)
LEMMA ReconcilesMoves ==
  ASSUME Ground, PassReconciles
  PROVE  Edits /\ GateStays /\ PassMoves
<1>1. /\ StoreTypeOK /\ pass.at # "none" /\ acceptance.enabled
      /\ UNCHANGED <<acceptance, wire, delivered, stopping, silenced>>
  BY DEF Ground, PumpTypeOK, PassReconciles, PassIdle, PassAt, Fresh, OnlyPump
<1>2. pass \in Pass
  BY <1>1, PassFacts DEF Ground
<1>3. \/ /\ pass' = [pass EXCEPT !.at = "next"] /\ thread' = PumpSlot
         /\ \E ids : ops' = CompletedAs(ids)
      \/ pass' = NoPass /\ ops' = ops
  BY DEF PassReconciles, PassGoesOn, PassEnds, PassGoes
<1>4. ASSUME NEW ids, ops' = CompletedAs(ids)
      PROVE  Table(ops')
  BY <1>1, <1>4, MovedTable DEF CompletedAs, MayMove, OpState
<1>5. Table(ops')
  BY <1>1, <1>3, <1>4, SameTable
<1>6. Edits /\ GateStays
  BY <1>1, <1>5 DEF Edits, GateStays
<1>7. PassMoves
  <2>1. CASE pass' = NoPass
    BY <2>1, PassEnded
  <2>2. CASE pass' = [pass EXCEPT !.at = "next"] /\ thread' = PumpSlot
    <3>1. pass' \in Pass /\ pass'.at = "next"
      BY <1>2, <2>2 DEF Pass
    <3> QED BY <1>1, <2>2, <3>1 DEF PassMoves, Admitting
  <2> QED BY <1>3, <2>1, <2>2
<1> QED BY <1>6, <1>7

(* An idle session without a run. *)
LEMMA ContinuesMoves ==
  ASSUME Ground, NextIsOpen, PassContinues
  PROVE  Edits /\ GateStays /\ PassMoves
<1> DEFINE s          == pass.session
           admitted   == InState(s, "admitted")
           unaged     == {o \in admitted : ops[o].idle # "aged"}
           unfinished == {o \in InState(s, "dispatching") : acceptance[ops[o].mode]}
           mode       == IF acceptance.steer /\ OfMode(InState(s, "pending"), "steer") # {}
                         THEN "steer" ELSE "enqueue"
           waiting    == IF acceptance[mode] THEN OfMode(InState(s, "pending"), mode) ELSE {}
           f          == Moved(admitted, "completed")
<1>1. /\ StoreTypeOK /\ PumpTypeOK /\ pass.at # "none" /\ acceptance.enabled
      /\ UNCHANGED <<acceptance, delivered, stopping, silenced>>
  BY DEF Ground, PumpTypeOK, PassContinues, NextIsOpen, PassIdle, PassAt, Fresh, OnlyPump
<1>2. pass \in Pass
  BY <1>1, PassFacts
<1>3. GateStays
  BY <1>1 DEF GateStays
<1>4. /\ Table(f)
      /\ \A o \in DOMAIN ops : ops[o].state # "admitted" => f[o] = ops[o]
  <2>1. MayMove(admitted, "completed") /\ "completed" \in OpState
    BY DEF MayMove, InState, OpState
  <2>2. \A o \in DOMAIN ops : ops[o].state # "admitted" => o \notin admitted
    BY DEF InState
  <2> HIDE DEF admitted
  <2> QED BY <1>1, <2>1, <2>2, MovedTable
<1>5. CASE /\ PassEnds /\ UNCHANGED wire
           /\ \E o \in unaged :
                ops' = [Moved({q \in admitted \ unaged : ops[q].seq < ops[o].seq}, "completed")
                          EXCEPT ![o].idle = "recent"]
  <2>1. PICK o \in unaged :
          ops' = [Moved({q \in admitted \ unaged : ops[q].seq < ops[o].seq}, "completed")
                    EXCEPT ![o].idle = "recent"]
    BY <1>5
  <2> DEFINE done == {q \in admitted \ unaged : ops[q].seq < ops[o].seq}
  <2>2. o \in DOMAIN ops /\ MayMove(done, "completed") /\ "completed" \in OpState
    BY DEF MayMove, InState, OpState
  <2> HIDE DEF done, unaged, admitted
  <2>3. Table(Moved(done, "completed"))
    BY <1>1, <2>2, MovedTable
  <2>4. Table(ops')
    BY <1>1, <2>1, <2>2, <2>3, MarkTable DEF done, IdleMark
  <2> QED BY <1>1, <1>3, <1>5, <2>4, PassEnded DEF Edits, PassEnds, PassGoes
<1>6. CASE /\ \E o \in unfinished : Sends("recover", o, NoRun)
           /\ ops' = f
  <2>1. PICK o \in unfinished : Sends("recover", o, NoRun)
    BY <1>6
  <2>2. o \in DOMAIN ops /\ ops[o].state = "dispatching"
    BY DEF InState
  <2>3. Table(ops') /\ ops'[o].state = "dispatching"
    BY <1>4, <1>6, <2>2
  <2> QED BY <1>1, <1>2, <1>3, <2>1, <2>2, <2>3, PassSends DEF Edits, Table, Admitting
<1>7. ASSUME unfinished = {}, NEW o \in waiting, IsFirst(o, waiting),
             ops' = [f EXCEPT ![o].state = "dispatching"]
      PROVE  o \in DOMAIN ops /\ Table(ops') /\ ops'[o].state = "dispatching"
  <2>1. acceptance[mode] /\ waiting = OfMode(InState(s, "pending"), mode)
    BY <1>7
  <2>2. OfMode(InState(s, "dispatching"), mode) = {}
    BY <1>7, <2>1 DEF OfMode
  <2>3. o \in DOMAIN ops /\ ops[o].state = "pending" /\ ClaimsFirst(o)
    BY <1>1, <1>7, <2>1, <2>2, FirstClaims
  <2>4. Table(f) /\ f[o] = ops[o]
    BY <1>4, <2>3
  <2> HIDE DEF f
  <2> QED BY <1>1, <1>7, <2>3, <2>4, ClaimTable
<1>8. CASE /\ unfinished = {}
           /\ \E o \in waiting :
                /\ IsFirst(o, waiting)
                /\ ops' = [f EXCEPT ![o].state = "dispatching"]
                /\ \E r \in PumpRuns \cup {NoRun} : Sends("first", o, r)
  <2> HIDE DEF waiting, f, unfinished
  <2>1. PICK o \in waiting, r \in PumpRuns \cup {NoRun} :
          /\ IsFirst(o, waiting)
          /\ ops' = [f EXCEPT ![o].state = "dispatching"]
          /\ Sends("first", o, r)
    BY <1>8
  <2>2. o \in DOMAIN ops /\ Table(ops') /\ ops'[o].state = "dispatching"
    BY <1>7, <1>8, <2>1
  <2>3. r \in RunIds \cup {NoRun}
    BY PumpRunAssumption
  <2> QED BY <1>1, <1>2, <1>3, <2>1, <2>2, <2>3, PassSends DEF Edits, Table, Admitting
<1>9. CASE /\ unfinished = {}
           /\ \E o \in waiting :
                /\ IsFirst(o, waiting)
                /\ ops' = [f EXCEPT ![o].state = "dispatching"]
           /\ PassEnds /\ UNCHANGED wire
  <2> HIDE DEF waiting, f, unfinished
  <2>1. Table(ops')
    BY <1>7, <1>9
  <2> QED BY <1>1, <1>3, <1>9, <2>1, PassEnded DEF Edits, PassEnds, PassGoes
<1>10. CASE ops' = f /\ PassEnds /\ UNCHANGED wire
  BY <1>1, <1>3, <1>4, <1>10, PassEnded DEF Edits, PassEnds, PassGoes
<1> HIDE DEF f, waiting, mode, unfinished, unaged, admitted, s
<1>11. \/ /\ PassEnds /\ UNCHANGED wire
          /\ \E o \in unaged :
               ops' = [Moved({q \in admitted \ unaged : ops[q].seq < ops[o].seq}, "completed")
                         EXCEPT ![o].idle = "recent"]
       \/ (\E o \in unfinished : Sends("recover", o, NoRun)) /\ ops' = f
       \/ /\ unfinished = {}
          /\ \E o \in waiting :
               /\ IsFirst(o, waiting)
               /\ ops' = [f EXCEPT ![o].state = "dispatching"]
               /\ \/ \E r \in PumpRuns \cup {NoRun} : Sends("first", o, r)
                  \/ PassEnds /\ UNCHANGED wire
       \/ ops' = f /\ PassEnds /\ UNCHANGED wire
  BY DEF PassContinues, f, waiting, mode, unfinished, unaged, admitted, s
<1> QED BY <1>5, <1>6, <1>8, <1>9, <1>10, <1>11

(* The answer to an admission. *)
LEMMA AnswersMove ==
  ASSUME Ground, SteerAdmitted \/ FirstAdmitted \/ RecoveryAdmitted \/ AdmissionUnrecorded \/ AdmissionFails
  PROVE  Edits /\ GateStays /\ PassMoves
<1>1. /\ StoreTypeOK /\ PumpTypeOK /\ pass.at \in Admitting
      /\ UNCHANGED <<delivered, stopping, silenced>>
  BY DEF Ground, PumpTypeOK, SteerAdmitted, FirstAdmitted, RecoveryAdmitted, AdmissionUnrecorded,
         AdmissionFails, PassAt, Admitting, OnlyPump
<1>2. /\ pass \in Pass /\ pass.op \in DOMAIN ops /\ pass.op \in OpIds
      /\ pass.run \in RunIds \cup {NoRun}
  <2>1. pass.at # "none"
    BY <1>1 DEF Admitting
  <2> QED BY <1>1, <2>1, PassFacts DEF Ground, PassNamesOperation, StoreTypeOK, Pass
<1>3. /\ pass.op \in AdmissionIds /\ AdmittedAs \in AdmissionIds /\ PumpRuns \subseteq AdmissionIds
      /\ pass.run # NoRun => pass.run \in AdmissionIds
  BY <1>2, PumpRunAssumption DEF AdmittedAs, AdmissionIds
<1>4. ASSUME Answered, NEW id \in AdmissionIds, MarkAdmitted(pass.op, id), UNCHANGED wire,
             pass.at # "recover" => id = AdmittedAs,
             pass.at = "recover" /\ ops[pass.op].mode = "steer" => id = pass.op
      PROVE  Edits /\ GateStays
  <2>1. IsAnswered(pass.op, id)
    BY <1>1, <1>4 DEF IsAnswered, Answered
  <2> QED BY <1>1, <1>4, <2>1, AdmittedTable DEF Edits, GateStays
<1>5. ASSUME Refused, UNCHANGED wire
      PROVE  Edits /\ GateStays
  BY <1>1, <1>5, SameTable DEF Refused, storeVars, Edits, GateStays
<1>6. CASE SteerAdmitted
  BY <1>3, <1>4, <1>6, PassEnded DEF SteerAdmitted, PassAt, PassEnds, PassGoes
<1>7. CASE FirstAdmitted
  BY <1>3, <1>4, <1>7, PassEnded DEF FirstAdmitted, PassAt, PassEnds, PassGoes
<1>8. CASE RecoveryAdmitted
  <2>1. /\ Answered /\ UNCHANGED wire /\ pass.at = "recover"
        /\ \/ ops[pass.op].mode = "steer" /\ MarkAdmitted(pass.op, pass.op)
           \/ ops[pass.op].mode = "enqueue" /\ \E r \in PumpRuns : MarkAdmitted(pass.op, r)
           \/ Refused
    BY <1>8 DEF RecoveryAdmitted, PassAt
  <2>2. \/ pass' = NoPass
        \/ \E r \in PumpRuns : pass' = [pass EXCEPT !.at = "accept", !.run = r]
    BY <1>8 DEF RecoveryAdmitted, PassEnds, PassGoes, PassGoesOn
  <2>3. ASSUME NEW r \in PumpRuns, pass' = [pass EXCEPT !.at = "accept", !.run = r]
        PROVE  PassMoves
    <3>1. pass' \in Pass /\ pass'.at = "accept"
      BY <1>2, <2>3, PumpRunAssumption DEF Pass
    <3> QED BY <3>1 DEF PassMoves, Admitting
  <2> QED BY <1>3, <1>4, <1>5, <2>1, <2>2, <2>3, PassEnded
<1>9. CASE AdmissionUnrecorded
  <2>1. /\ Answered /\ UNCHANGED wire /\ pass' = NoPass
        /\ \/ pass.at = "first" /\ pass.run # NoRun /\ MarkAdmitted(pass.op, pass.run)
           \/ /\ pass.at = "recover" /\ ops[pass.op].mode = "enqueue"
              /\ \E r \in PumpRuns : MarkAdmitted(pass.op, r)
           \/ Refused
    BY <1>9 DEF AdmissionUnrecorded, PassEnds, PassGoes
  <2> QED BY <1>3, <1>4, <1>5, <2>1, PassEnded DEF AdmittedAs
<1>10. CASE AdmissionFails
  <2>1. wire' \subseteq wire /\ pass' = NoPass /\ UNCHANGED <<ops, acceptance>>
    BY <1>10 DEF AdmissionFails, PassEnds, PassGoes
  <2> QED BY <1>1, <2>1, SameTable, PassEnded DEF Edits, GateStays
<1> QED BY <1>6, <1>7, <1>8, <1>9, <1>10

LEMMA PassStepMoves ==
  ASSUME Ground, NextIsOpen, PassStep
  PROVE  Edits /\ GateStays /\ PassMoves
BY ReadsMove, BusyMoves, ReconcilesMoves, ContinuesMoves, AnswersMove
   DEF PassStep, PassDecides, PassAnswered

(* No handler runs between two turns of a pass without an await.            *)
LEMMA ThreadIsKept ==
  ASSUME thread = PumpSlot, HandlerNext
  PROVE  thread' = thread
<1>1. thread # NoRun /\ \A p \in Slots : ~ MayRun(p) /\ thread # p
  BY PumpSlotAssumption DEF MayRun
<1>2. \A p \in Slots : ~ ProbeStep(p)
  BY <1>1 DEF ProbeStep, ReadsStatus, ReadsEvidence, ReadFails, ObserverActs, HintActs,
       StartLooks, StartDecides, StartRereads, StartConfirms, StartReserves
<1>3. \A s \in Sessions, p \in Slots :
        /\ ~ ObserverLooks(p, s) /\ ~ StartReads(p, s)
        /\ \A r, hint : ~ ClientHints(p, s, r, hint)
  BY <1>1 DEF ObserverLooks, StartReads, ClientHints
<1>4. \A s, r, c : ~ ClientReports(s, r, c) /\ ~ ProxyReserves(s, r) /\ ~ StopRequested(s, r, c)
  BY <1>1 DEF ClientReports, ProxyReserves, StopRequested
<1>5. \A t : /\ ~ PromptAccepted(t) /\ ~ PromptFailed(t) /\ ~ ProxySettles(t)
             /\ ~ StopAccepted(t) /\ ~ StopFailed(t)
  BY <1>1 DEF PromptAccepted, PromptFailed, ProxySettles, StopAccepted, StopFailed
<1>6. ASSUME NEW s, EngineStep(s) \/ ClockTicks(s)
      PROVE  thread' = thread
  BY <1>6 DEF EngineStep, EngineFinishes, EngineLost, ClockTicks, controlVars
<1>7. ASSUME NEW t, EngineTakes(t) \/ EngineAnswersAbort(t)
      PROVE  thread' = thread
  BY <1>7 DEF EngineTakes, EngineAnswersAbort
<1> QED BY <1>2, <1>3, <1>4, <1>5, <1>6, <1>7 DEF HandlerNext, Slots

(* Pass and gate as they are; nothing runs between two turns of the pass.   *)
LEMMA PassWaits ==
  ASSUME Ground, NextIsOpen, pass' = pass \/ Superseded, DOMAIN ops \subseteq DOMAIN ops',
         pass.at = "next" => pass' = pass /\ thread' = thread /\ acceptance' = acceptance
  PROVE  PassMoves
<1>1. pass = NoPass \/ pass \in Pass
  BY DEF Ground, PumpTypeOK
<1>2. CASE pass = NoPass
  <2>1. pass' = NoPass
    BY <1>2 DEF Superseded, NoPass
  <2> QED BY <2>1, PassEnded
<1>3. CASE pass \in Pass
  <2>1. pass' \in Pass /\ pass'.at = pass.at /\ pass'.op = pass.op
    BY <1>3 DEF Superseded, Pass
  <2> QED BY <2>1 DEF PassMoves, Ground, PassNamesOperation, NextIsOpen
<1> QED BY <1>1, <1>2, <1>3

(* A prompt is stored behind every other of its session. *)
LEMMA StoringMoves ==
  ASSUME Ground, NextIsOpen, NEW p \in RequestSlots, NEW o \in OpIds, NEW mode \in RemoteModes,
         StartIsStored(p, o, mode)
  PROVE  Moves /\ GateStays /\ PassMoves
<1> DEFINE s == probe[p].session
<1>1. /\ s \in Sessions /\ mode \in Modes /\ StoreTypeOK /\ IsFiniteSet(DOMAIN ops)
      /\ MayRun(p) /\ p \in Slots
  BY ProbeFacts, ModeAssumption DEF Ground, PumpTypeOK, StartIsStored, StartLooks, StartConfirms,
     At, Modes, Slots
<1>2. /\ Create(o, s, mode)
      /\ UNCHANGED <<pass, wire, delivered, stopping, silenced>>
  BY DEF StartIsStored
<1> HIDE DEF s
<1>3. ASSUME Refused
      PROVE  Moves /\ GateStays
  <2>1. Table(ops') /\ acceptance' = acceptance
    BY <1>1, <1>3, SameTable DEF Refused, storeVars
  <2>2. Edits
    BY <1>2, <2>1 DEF Edits
  <2> QED BY <1>2, <2>1, <2>2 DEF Moves, GateStays
<1>4. ASSUME /\ Open(mode) /\ o \notin DOMAIN ops
             /\ ops' = [q \in DOMAIN ops \cup {o} |->
                          IF q = o
                          THEN [session |-> s, mode |-> mode, state |-> "pending",
                                seq |-> NextSequence(s),
                                admittedId |-> NotAdmitted, idle |-> "null"]
                          ELSE ops[q]]
             /\ UNCHANGED acceptance
      PROVE  Moves /\ GateStays
  <2> DEFINE row == [session |-> s, mode |-> mode, state |-> "pending", seq |-> NextSequence(s),
                     admittedId |-> NotAdmitted, idle |-> "null"]
  <2>1. Stored(s) \subseteq DOMAIN ops /\ NextSequence(s) = 1 + Cardinality(Stored(s))
    BY DEF Stored, NextSequence
  <2>2. Cardinality(Stored(s)) \in Nat
    BY <1>1, <2>1, FS_Subset, FS_CardinalityType
  <2>3. NextSequence(s) \in Nat \ {0}
    BY <2>1, <2>2
  <2> HIDE DEF NextSequence
  <2>4. row \in Operation
    BY <1>1, <2>3 DEF Operation, OpState, Live, IdleMark, NotAdmitted
  <2>5. ops'[o] = row /\ DOMAIN ops' = DOMAIN ops \cup {o} /\ \A q \in DOMAIN ops : ops'[q] = ops[q]
    BY <1>4
  <2>6. Stores(o, s, mode)
    BY <1>2, <1>4, <2>1, <2>4, <2>5 DEF Stores, Open
  <2>7. Moves
    BY <1>1, <2>6 DEF Moves
  <2> QED BY <1>2, <1>4, <2>7 DEF GateStays
<1>5. Moves /\ GateStays
  BY <1>2, <1>3, <1>4 DEF Create
<1>6. DOMAIN ops \subseteq DOMAIN ops'
  BY <1>5 DEF Moves, Edits, Table, Stores, Arrives
<1>7. pass.at # "next"
  BY <1>1, PumpSlotAssumption DEF NextIsOpen, MayRun
<1> QED BY <1>2, <1>5, <1>6, <1>7, PassWaits

(* Fences, stops and policies. *)
LEMMA GatesMove ==
  ASSUME Ground, NextIsOpen, WireIsDispatching,
         \/ StopAllBegins
         \/ \E fence \in stopping : StopAllEnds(fence) \/ StopAllTimesOut(fence)
         \/ \E policy \in Policies : PolicyEnabled(policy)
  PROVE  Edits /\ GateMoves /\ PassMoves
<1>1. StoreTypeOK /\ acceptance \in Acceptance
  BY DEF Ground, PumpTypeOK, StoreTypeOK
<1>2. /\ pass.at # "next" /\ (pass' = pass \/ Superseded)
      /\ UNCHANGED <<wire, delivered>>
  BY PumpSlotAssumption DEF NextIsOpen, StopAllBegins, StopAllEnds, StopAllTimesOut, PolicyEnabled
<1>3. ASSUME Table(ops')
      PROVE  Edits /\ PassMoves
  BY <1>2, <1>3, PassWaits DEF Edits, Table
<1>4. CASE StopAllBegins
  <2>1. /\ acceptance' = [enabled |-> FALSE, steer |-> FALSE, enqueue |-> FALSE,
                          generation |-> acceptance.generation + 1]
        /\ ops' = ops /\ silenced' = silenced /\ stopping' = stopping \cup {acceptance'.generation}
    BY <1>4 DEF StopAllBegins, FenceRemoteAcceptance
  <2>2. GateTurns
    BY <1>1, <2>1 DEF GateTurns, Acceptance
  <2> QED BY <1>1, <1>3, <2>1, <2>2, SameTable DEF GateMoves
<1>5. ASSUME NEW fence \in stopping, StopAllEnds(fence)
      PROVE  Edits /\ GateMoves /\ PassMoves
  <2>1. /\ pass.at = "none" /\ PreAdmissionClaims = {}
        /\ stopping' = stopping \ {fence} /\ UNCHANGED wire
        /\ CancelAllPendingRemote(fence, {})
    BY <1>5 DEF StopAllEnds, PreAdmissionClaims
  <2>2. CASE Refused /\ ~ FenceHolds(fence)
    <3>1. GateStays
      BY <1>5, <2>1, <2>2 DEF StopAllEnds, Refused, storeVars, GateStays
    <3>2. Table(ops')
      BY <1>1, <2>2, SameTable DEF Refused, storeVars
    <3> QED BY <1>3, <3>1, <3>2 DEF GateMoves
  <2>3. CASE /\ FenceHolds(fence)
             /\ ops' = Moved({o \in DOMAIN ops : \/ ops[o].state = "pending"
                                                 \/ ops[o].state = "dispatching" /\ o \in {}},
                             "cancelled")
             /\ UNCHANGED acceptance
    <3> DEFINE set == {o \in DOMAIN ops : \/ ops[o].state = "pending"
                                          \/ ops[o].state = "dispatching" /\ o \in {}}
    <3>1. MayMove(set, "cancelled") /\ "cancelled" \in OpState
      BY DEF MayMove, OpState
    <3>2. \A o \in DOMAIN ops : ops[o].state = "pending" => o \in set
      OBVIOUS
    <3>10. ops' = Moved(set, "cancelled")
      BY <2>3
    <3> HIDE DEF set
    <3>3. /\ Table(ops')
          /\ \A o \in DOMAIN ops \cap set : ops'[o].state = "cancelled"
      BY <1>1, <3>1, <3>10, MovedTable
    <3>4. \A o \in DOMAIN ops : ops'[o].state # "pending"
      <4>1. \A o \in DOMAIN ops \ set : ops'[o] = ops[o]
        BY <1>1, <3>1, <3>10, MovedTable
      <4> QED BY <3>2, <3>3, <4>1
    <3>5. Edits /\ PassMoves
      BY <1>3, <3>3
    <3>6. CASE silenced' = silenced
      BY <2>1, <2>3, <3>5, <3>6 DEF GateMoves, GateStays
    <3>7. CASE silenced' = silenced \cup {fence} /\ \A o \in DOMAIN ops : ops'[o].state # "dispatching"
      BY <2>1, <2>3, <3>4, <3>5, <3>7 DEF GateMoves, Silences
    <3> QED BY <1>5, <3>6, <3>7, <3>5 DEF StopAllEnds
  <2> QED BY <2>1, <2>2, <2>3 DEF CancelAllPendingRemote
<1>6. ASSUME NEW fence \in stopping, StopAllTimesOut(fence)
      PROVE  Edits /\ GateMoves /\ PassMoves
  BY <1>1, <1>3, <1>6, SameTable DEF StopAllTimesOut, GateMoves, GateStays
<1>7. ASSUME NEW policy \in Policies, PolicyEnabled(policy)
      PROVE  Edits /\ GateMoves /\ PassMoves
  <2> DEFINE steer   == "steer" \in policy
             enqueue == "enqueue" \in policy
             set     == {o \in DOMAIN ops : /\ ops[o].state = "pending"
                                            /\ \/ ops[o].mode = "steer" /\ ~ steer
                                               \/ ops[o].mode = "enqueue" /\ ~ enqueue}
  <2>1. /\ acceptance' = [enabled |-> steer \/ enqueue, steer |-> steer, enqueue |-> enqueue,
                          generation |-> acceptance.generation + 1]
        /\ ops' = Moved(set, "cancelled")
        /\ stopping' = stopping /\ silenced' = silenced
    BY <1>7 DEF PolicyEnabled, EnableRemoteAcceptance
  <2>2. GateTurns
    BY <1>1, <2>1 DEF GateTurns, Acceptance
  <2>3. MayMove(set, "cancelled") /\ "cancelled" \in OpState
    BY DEF MayMove, OpState
  <2> HIDE DEF set
  <2>4. Table(ops')
    BY <1>1, <2>1, <2>3, MovedTable
  <2> QED BY <1>3, <2>2, <2>4 DEF GateMoves
<1> QED BY <1>4, <1>5, <1>6, <1>7

(* Every step of the system. *)
LEMMA SystemMoves ==
  ASSUME Ground, NextIsOpen, WireIsDispatching, [PumpNext]_systemVars
  PROVE  Moves /\ GateMoves /\ PassMoves
<1>1. StoreTypeOK /\ acceptance \in Acceptance
  BY DEF Ground, PumpTypeOK, StoreTypeOK
<1>2. CASE PassStep
  BY <1>2, PassStepMoves DEF Moves, GateMoves
<1>3. CASE ControlMoves
  <2>1. PICK ids : ops' = CompletedAs(ids)
    BY <1>3 DEF ControlMoves
  <2>2. Table(ops')
    BY <1>1, <2>1, MovedTable DEF CompletedAs, MayMove, OpState
  <2>3. HandlerNext /\ UNCHANGED <<acceptance, pass, wire, delivered, stopping, silenced>>
    BY <1>3 DEF ControlMoves
  <2>4. Edits /\ GateStays
    BY <2>2, <2>3 DEF Edits, GateStays
  <2>5. PassMoves
    BY <2>2, <2>3, ThreadIsKept, PassWaits DEF NextIsOpen, Table
  <2> QED BY <2>4, <2>5 DEF Moves, GateMoves
<1>4. CASE EverythingRestarts
  <2>1. /\ acceptance' = [enabled |-> FALSE, steer |-> FALSE, enqueue |-> FALSE,
                          generation |-> acceptance.generation + 1]
        /\ ops' = Unmarked(DOMAIN ops) /\ pass' = NoPass /\ stopping' = {}
        /\ UNCHANGED <<wire, delivered, silenced>>
    BY <1>4 DEF EverythingRestarts, Startup
  <2>2. GateTurns
    BY <1>1, <2>1 DEF GateTurns, Acceptance
  <2>3. Edits
    BY <1>1, <2>1, UnmarkedTable DEF Edits
  <2> QED BY <2>1, <2>2, <2>3, PassEnded DEF Moves, GateMoves
<1>5. ASSUME NEW s \in Sessions, PassBegins(s)
      PROVE  Moves /\ GateMoves /\ PassMoves
  <2>1. pass' = [NoPass EXCEPT !.at = "asking", !.session = s] /\ Idles
    BY <1>5 DEF PassBegins, PassGoes, OnlyPump, Idles
  <2>2. pass' \in Pass /\ pass'.at = "asking"
    BY <2>1 DEF NoPass, Pass
  <2> QED BY <1>1, <2>1, <2>2, IdlesMoves DEF Moves, GateMoves, PassMoves, Admitting
<1>6. ASSUME NEW p \in RequestSlots, NEW o \in OpIds, NEW mode \in RemoteModes, StartIsStored(p, o, mode)
      PROVE  Moves /\ GateMoves /\ PassMoves
  BY <1>6, StoringMoves DEF GateMoves
<1>7. ASSUME NEW o \in wire, AdmissionArrives(o)
      PROVE  Moves /\ GateMoves /\ PassMoves
  <2>1. /\ wire' = wire \ {o} /\ UNCHANGED <<ops, acceptance, pass, thread, stopping, silenced>>
        /\ \/ o \in DOMAIN delivered /\ delivered' = delivered
           \/ delivered' = Put(delivered, o, generation)
    BY <1>7 DEF AdmissionArrives
  <2>2. DOMAIN delivered' = DOMAIN delivered \cup {o}
    BY <2>1 DEF Put
  <2> QED BY <2>1, <2>2, PassWaits DEF Moves, Arrives, GateMoves, GateStays
<1>8. ASSUME NEW o \in DOMAIN ops, ClientCancels(o)
      PROVE  Moves /\ GateMoves /\ PassMoves
  <2>1. /\ ops[o].state = "pending" /\ ops' = Moved({o}, "cancelled") /\ pass.at # "next"
        /\ UNCHANGED <<acceptance, pass, wire, delivered, stopping, silenced>>
    BY <1>8, PumpSlotAssumption DEF ClientCancels, Cancel, NextIsOpen
  <2>2. Table(ops')
    BY <1>1, <2>1, MovedTable DEF MayMove, OpState
  <2> QED BY <2>1, <2>2, PassWaits DEF Moves, Edits, GateMoves, GateStays, Table
<1>9. ASSUME NEW o \in DOMAIN ops, OperationAges(o)
      PROVE  Moves /\ GateMoves /\ PassMoves
  <2>1. /\ ops' = [ops EXCEPT ![o].idle = "aged"]
        /\ UNCHANGED <<acceptance, pass, wire, delivered, stopping, silenced, thread>>
    BY <1>9 DEF OperationAges, MarkAges, ControlStands, controlVars
  <2>2. Table(ops')
    BY <1>1, <2>1, SameTable, MarkTable DEF IdleMark
  <2> QED BY <2>1, <2>2, PassWaits DEF Moves, Edits, GateMoves, GateStays, Table
<1>10. CASE \/ StopAllBegins
            \/ \E fence \in stopping : StopAllEnds(fence) \/ StopAllTimesOut(fence)
            \/ \E policy \in Policies : PolicyEnabled(policy)
  BY <1>10, GatesMove DEF Moves
<1>11. ASSUME UNCHANGED <<pumpVars, thread>>
       PROVE  Moves /\ GateMoves /\ PassMoves
  BY <1>1, <1>11, SameTable, PassWaits DEF pumpVars, Moves, Edits, GateMoves, GateStays
<1>12. ASSUME NEW s, NEW o, NEW outcome, OperationEnds(s, o, outcome)
       PROVE  UNCHANGED <<pumpVars, thread>>
  BY <1>12 DEF OperationEnds
<1>13. CASE UNCHANGED systemVars
  BY <1>11, <1>13 DEF systemVars, allVars, controlVars
<1> QED BY <1>2, <1>3, <1>4, <1>5, <1>6, <1>7, <1>8, <1>9, <1>10, <1>11, <1>12, <1>13 DEF PumpNext

-----------------------------------------------------------------------------
(* Types are kept. *)

LEMMA OperationsStay ==
  ASSUME Moves
  PROVE  /\ DOMAIN ops \subseteq DOMAIN ops'
         /\ DOMAIN delivered \subseteq DOMAIN delivered'
<1>1. CASE Edits
  BY <1>1 DEF Edits, Table
<1>2. ASSUME NEW o, NEW s, NEW mode, Stores(o, s, mode)
      PROVE  DOMAIN ops \subseteq DOMAIN ops' /\ DOMAIN delivered \subseteq DOMAIN delivered'
  BY <1>2 DEF Stores
<1>3. CASE Arrives
  BY <1>3 DEF Arrives
<1> QED BY <1>1, <1>2, <1>3 DEF Moves

LEMMA OperationsTyped ==
  ASSUME Ground, Moves
  PROVE  /\ DOMAIN ops' \subseteq OpIds
         /\ \A o \in DOMAIN ops' : ops'[o] \in Operation
         /\ IsFiniteSet(DOMAIN ops')
         /\ wire' \subseteq DOMAIN ops'
         /\ DOMAIN delivered' \subseteq DOMAIN ops'
<1>1. /\ DOMAIN ops \subseteq OpIds /\ \A o \in DOMAIN ops : ops[o] \in Operation
      /\ IsFiniteSet(DOMAIN ops) /\ wire \subseteq DOMAIN ops /\ DOMAIN delivered \subseteq DOMAIN ops
  BY DEF Ground, PumpTypeOK, StoreTypeOK
<1>2. CASE Edits
  <2>1. DOMAIN ops' = DOMAIN ops /\ \A o \in DOMAIN ops : ops'[o] \in Operation
    BY <1>2 DEF Edits, Table, RowMoves
  <2>2. delivered' = delivered /\ wire' \subseteq DOMAIN ops
    BY <1>1, <1>2 DEF Edits
  <2> QED BY <1>1, <2>1, <2>2
<1>3. ASSUME NEW o \in OpIds, NEW s, NEW mode, Stores(o, s, mode)
      PROVE  /\ DOMAIN ops' \subseteq OpIds
             /\ \A q \in DOMAIN ops' : ops'[q] \in Operation
             /\ IsFiniteSet(DOMAIN ops')
             /\ wire' \subseteq DOMAIN ops'
             /\ DOMAIN delivered' \subseteq DOMAIN ops'
  <2>1. IsFiniteSet(DOMAIN ops \cup {o})
    BY <1>1, FS_AddElement
  <2> QED BY <1>1, <1>3, <2>1 DEF Stores
<1>4. CASE Arrives
  BY <1>1, <1>4 DEF Arrives
<1> QED BY <1>2, <1>3, <1>4 DEF Moves

LEMMA GateTyped ==
  ASSUME Ground, GateMoves
  PROVE  /\ acceptance' \in Acceptance
         /\ stopping' \subseteq 1 .. acceptance'.generation
         /\ silenced' \subseteq 1 .. acceptance'.generation
<1>1. /\ acceptance \in Acceptance /\ acceptance.generation \in Nat
      /\ stopping \subseteq 1 .. acceptance.generation /\ silenced \subseteq 1 .. acceptance.generation
  BY DEF Ground, PumpTypeOK, StoreTypeOK, Acceptance
<1>2. CASE GateStays
  BY <1>1, <1>2 DEF GateStays
<1>3. CASE GateTurns
  <2>1. acceptance'.generation \in 1 .. acceptance'.generation
    BY <1>1, <1>3 DEF GateTurns
  <2>2. 1 .. acceptance.generation \subseteq 1 .. acceptance'.generation
    BY <1>1, <1>3 DEF GateTurns
  <2> QED BY <1>1, <1>3, <2>1, <2>2 DEF GateTurns
<1>4. CASE Silences
  BY <1>1, <1>4 DEF Silences
<1> QED BY <1>2, <1>3, <1>4 DEF GateMoves

LEMMA GroundKept ==
  ASSUME Ground, NextIsOpen, WireIsDispatching, [PumpNext]_systemVars
  PROVE  Ground'
<1>1. Moves /\ GateMoves /\ PassMoves
  BY SystemMoves
<1>2. Core' /\ engine' \in [Sessions -> PumpEngine]
  BY CoreKept, EngineKept DEF EngineTyped
<1>3. StoreTypeOK' /\ IsFiniteSet(DOMAIN ops')
  BY <1>1, OperationsTyped, GateTyped DEF StoreTypeOK
<1>4. PumpTypeOK'
  BY <1>1, <1>3, OperationsTyped, GateTyped DEF PumpTypeOK, PassMoves, NoPass
<1>5. PassNamesOperation'
  BY <1>1 DEF PassMoves, PassNamesOperation, Admitting
<1> QED BY <1>2, <1>3, <1>4, <1>5 DEF Ground

LEMMA InitGround ==
  ASSUME PumpInit
  PROVE  Ground /\ QueueOK /\ StopOK
<1>1. Core
  BY InitBase DEF PumpInit, Base
<1>2. engine \in [Sessions -> PumpEngine]
  BY DEF PumpInit, ControlInit, PumpEngine
<1>3. DOMAIN ops = {} /\ wire = {} /\ DOMAIN delivered = {} /\ pass = NoPass /\ stopping = {} /\ silenced = {}
  BY DEF PumpInit, StoreInit
<1>4. acceptance \in Acceptance
  BY DEF PumpInit, StoreInit, Acceptance
<1>5. Ground
  BY <1>1, <1>2, <1>3, <1>4, FS_EmptySet
     DEF Ground, PumpTypeOK, StoreTypeOK, PassNamesOperation, NoPass, Admitting
<1>6. QueueOK
  BY <1>3 DEF QueueOK, WireIsDispatching, DeliveredIsOut, TakenInOrder, NumbersCount
<1>7. StopOK
  BY <1>3 DEF StopOK, NextIsOpen, SilencedIsClosed, StopAllIsTruthful, NoPass
<1> QED BY <1>5, <1>6, <1>7

-----------------------------------------------------------------------------
(* A stop stays truthful. *)

(* Behind a closed gate nothing is claimed, sent or stored. *)
LEMMA SilenceHolds ==
  ASSUME Ground, Moves, ~ acceptance.enabled,
         \A o \in DOMAIN ops : ops[o].state \notin {"pending", "dispatching"},
         wire \subseteq DOMAIN delivered
  PROVE  /\ \A o \in DOMAIN ops' : ops'[o].state \notin {"pending", "dispatching"}
         /\ wire' \subseteq DOMAIN delivered'
<1>1. CASE Edits
  <2>1. \A o \in DOMAIN ops : ops'[o].state \notin {"pending", "dispatching"}
    BY <1>1 DEF Edits, Table, RowMoves
  <2> QED BY <1>1, <2>1 DEF Edits, Table
<1>2. ASSUME NEW o, NEW s, NEW mode
      PROVE  ~ Stores(o, s, mode)
  BY DEF Stores
<1>3. CASE Arrives
  BY <1>3 DEF Arrives
<1> QED BY <1>1, <1>2, <1>3 DEF Moves

LEMMA StopKept ==
  ASSUME Ground, StopOK, WireIsDispatching, Moves, GateMoves, PassMoves
  PROVE  StopOK'
<1>1. NextIsOpen'
  BY DEF PassMoves, NextIsOpen
<1>2. acceptance.generation \in Nat /\ silenced \subseteq 1 .. acceptance.generation
  BY DEF Ground, PumpTypeOK, StoreTypeOK, Acceptance
<1>3. CASE GateStays
  <2>1. SilencedIsClosed'
    BY <1>3 DEF GateStays, StopOK, SilencedIsClosed
  <2>2. StopAllIsTruthful'
    BY <1>3, SilenceHolds DEF GateStays, StopOK, SilencedIsClosed, StopAllIsTruthful
  <2> QED BY <1>1, <2>1, <2>2 DEF StopOK
<1>4. CASE GateTurns
  <2>1. acceptance'.generation \notin silenced'
    BY <1>2, <1>4 DEF GateTurns
  <2> QED BY <1>1, <2>1 DEF StopOK, SilencedIsClosed, StopAllIsTruthful
<1>5. CASE Silences
  <2>1. ~ acceptance'.enabled
    BY <1>5 DEF Silences, FenceHolds
  <2>2. \A o \in DOMAIN ops' : ops'[o].state \notin {"pending", "dispatching"}
    BY <1>5 DEF Silences, Edits, Table
  <2>3. \A o \in DOMAIN ops : ops[o].state = "dispatching" => o \in DOMAIN delivered
    BY <1>5 DEF Silences, Edits, Table, RowMoves, IsAnswered
  <2>4. wire' \subseteq DOMAIN delivered'
    BY <1>5, <2>3 DEF Silences, Edits, WireIsDispatching, Ground, PumpTypeOK
  <2> QED BY <1>1, <2>1, <2>2, <2>4 DEF StopOK, SilencedIsClosed, StopAllIsTruthful
<1> QED BY <1>3, <1>4, <1>5 DEF GateMoves

-----------------------------------------------------------------------------
(* The queue is kept. *)

LEMMA WireKept ==
  ASSUME Ground, WireIsDispatching, Moves
  PROVE  WireIsDispatching'
<1>1. wire \subseteq DOMAIN ops
  BY DEF Ground, PumpTypeOK
<1>2. CASE Edits
  <2>1. ASSUME NEW o \in wire \ DOMAIN delivered
        PROVE  ops'[o].state = "dispatching"
    BY <1>1, <1>2, <2>1 DEF Edits, Table, RowMoves, IsAnswered, WireIsDispatching
  <2>2. \A o \in wire' \ DOMAIN delivered' : o \in wire \ DOMAIN delivered \/ ops'[o].state = "dispatching"
    BY <1>2 DEF Edits
  <2> QED BY <2>1, <2>2 DEF WireIsDispatching
<1>3. ASSUME NEW o, NEW s, NEW mode, Stores(o, s, mode)
      PROVE  WireIsDispatching'
  BY <1>1, <1>3 DEF Stores, WireIsDispatching
<1>4. CASE Arrives
  BY <1>4 DEF Arrives, WireIsDispatching
<1> QED BY <1>2, <1>3, <1>4 DEF Moves

LEMMA DeliveredKept ==
  ASSUME Ground, WireIsDispatching, DeliveredIsOut, Moves
  PROVE  DeliveredIsOut'
<1>1. wire \subseteq DOMAIN ops /\ DOMAIN delivered \subseteq DOMAIN ops
  BY DEF Ground, PumpTypeOK
<1>2. CASE Edits
  <2>1. delivered' = delivered /\ DOMAIN ops' = DOMAIN ops /\ \A o \in DOMAIN ops : RowMoves(o, ops'[o])
    BY <1>2 DEF Edits, Table
  <2>2. ASSUME NEW o \in DOMAIN delivered
        PROVE  ops'[o].state \in {"dispatching", "admitted", "completed"}
    BY <1>1, <2>1, <2>2 DEF RowMoves, DeliveredIsOut
  <2>3. ASSUME NEW o \in DOMAIN ops, ops'[o].state \in {"admitted", "completed"}
        PROVE  o \in DOMAIN delivered
    BY <2>1, <2>3 DEF RowMoves, IsAnswered, DeliveredIsOut
  <2> QED BY <2>1, <2>2, <2>3 DEF DeliveredIsOut
<1>3. ASSUME NEW o, NEW s, NEW mode, Stores(o, s, mode)
      PROVE  DeliveredIsOut'
  BY <1>1, <1>3 DEF Stores, DeliveredIsOut
<1>4. CASE Arrives
  BY <1>1, <1>4 DEF Arrives, DeliveredIsOut, WireIsDispatching
<1> QED BY <1>2, <1>3, <1>4 DEF Moves

(* A row that the table rewrites stays where it is in its queue. *)
LEMMA PlacesStay ==
  ASSUME Table(ops')
  PROVE  /\ DOMAIN ops' = DOMAIN ops
         /\ \A o \in DOMAIN ops : /\ ops'[o].session = ops[o].session
                                  /\ ops'[o].mode = ops[o].mode
                                  /\ ops'[o].seq = ops[o].seq
         /\ \A q, o \in DOMAIN ops : Before(q, o)' <=> Before(q, o)
         /\ \A s : Stored(s)' = Stored(s)
<1>1. DOMAIN ops' = DOMAIN ops
  BY DEF Table
<1>2. \A o \in DOMAIN ops : /\ ops'[o].session = ops[o].session
                            /\ ops'[o].mode = ops[o].mode
                            /\ ops'[o].seq = ops[o].seq
  BY DEF Table, RowMoves
<1>3. \A q, o \in DOMAIN ops : Before(q, o)' <=> Before(q, o)
  BY <1>1, <1>2 DEF Before
<1>4. \A s : Stored(s)' = Stored(s)
  BY <1>1, <1>2 DEF Stored
<1> QED BY <1>1, <1>2, <1>3, <1>4

LEMMA OrderKept ==
  ASSUME Ground, DeliveredIsOut, TakenInOrder, NumbersCount, Moves
  PROVE  TakenInOrder'
<1>1. /\ IsFiniteSet(DOMAIN ops) /\ \A o \in DOMAIN ops : ops[o].seq \in Nat /\ ops[o].state \in OpState
  BY DEF Ground, PumpTypeOK, StoreTypeOK, Operation
<1>2. CASE Edits
  <2>1. delivered' = delivered /\ DOMAIN ops' = DOMAIN ops /\ \A o \in DOMAIN ops : RowMoves(o, ops'[o])
    BY <1>2 DEF Edits, Table
  <2>2. ASSUME NEW q \in DOMAIN ops, NEW o \in DOMAIN ops, ops'[o].state = "dispatching", Before(q, o)'
        PROVE  q \in DOMAIN delivered' \/ ops'[q].state = "cancelled"
    <3>1. Before(q, o)
      BY <1>2, <2>2, PlacesStay DEF Edits
    <3>2. q \in DOMAIN delivered \/ ops[q].state = "cancelled"
      <4>1. CASE ops[o].state = "dispatching"
        BY <3>1, <4>1 DEF TakenInOrder
      <4>2. CASE ClaimsFirst(o)
        <5>1. ops[q].state \in {"admitted", "cancelled", "completed"}
          BY <1>1, <3>1, <4>2 DEF ClaimsFirst, OpState, Live
        <5> QED BY <5>1 DEF DeliveredIsOut
      <4>3. ops[o].state = "dispatching" \/ ClaimsFirst(o)
        BY <2>1, <2>2 DEF RowMoves
      <4> QED BY <4>1, <4>2, <4>3
    <3>3. ops[q].state = "cancelled" => ops'[q].state = "cancelled"
      BY <2>1 DEF RowMoves
    <3> QED BY <2>1, <3>2, <3>3
  <2> QED BY <2>1, <2>2 DEF TakenInOrder
<1>3. ASSUME NEW new, NEW s, NEW mode, Stores(new, s, mode)
      PROVE  TakenInOrder'
  <2>1. Stored(s) \subseteq DOMAIN ops
    BY DEF Stored
  <2>2. Cardinality(Stored(s)) \in Nat
    BY <1>1, <2>1, FS_Subset, FS_CardinalityType
  <2>3. ASSUME NEW q \in DOMAIN ops', NEW o \in DOMAIN ops', ops'[o].state = "dispatching", Before(q, o)'
        PROVE  q \in DOMAIN delivered' \/ ops'[q].state = "cancelled"
    <3>1. o \in DOMAIN ops /\ ops'[o] = ops[o]
      BY <1>3, <2>3 DEF Stores
    <3>2. CASE q = new
      <4>1. ops[o].session = s /\ 1 + Cardinality(Stored(s)) < ops[o].seq
        BY <1>3, <2>3, <3>1, <3>2 DEF Before, Stores
      <4>2. ops[o].seq <= Cardinality(Stored(s))
        BY <3>1, <4>1 DEF NumbersCount
      <4> QED BY <1>1, <2>2, <3>1, <4>1, <4>2
    <3>3. CASE q \in DOMAIN ops /\ ops'[q] = ops[q]
      BY <1>3, <2>3, <3>1, <3>3 DEF Before, Stores, TakenInOrder
    <3> QED BY <1>3, <3>2, <3>3 DEF Stores
  <2> QED BY <2>3 DEF TakenInOrder
<1>4. CASE Arrives
  BY <1>4 DEF Arrives, TakenInOrder, Before
<1> QED BY <1>2, <1>3, <1>4 DEF Moves

LEMMA NumbersKept ==
  ASSUME Ground, NumbersCount, Moves
  PROVE  NumbersCount'
<1>1. /\ IsFiniteSet(DOMAIN ops) /\ \A o \in DOMAIN ops : ops[o].seq \in Nat
  BY DEF Ground, PumpTypeOK, StoreTypeOK, Operation
<1>2. CASE Edits
  BY <1>2, PlacesStay DEF Edits, NumbersCount
<1>3. ASSUME NEW new, NEW s, NEW mode, Stores(new, s, mode)
      PROVE  NumbersCount'
  <2>1. IsFiniteSet(Stored(s)) /\ Cardinality(Stored(s)) \in Nat /\ new \notin Stored(s)
    <3>1. Stored(s) \subseteq DOMAIN ops
      BY DEF Stored
    <3> QED BY <1>1, <1>3, <3>1, FS_Subset, FS_CardinalityType DEF Stores
  <2>2. Stored(s)' = Stored(s) \cup {new}
    BY <1>3 DEF Stores, Stored
  <2>3. \A other : other # s => Stored(other)' = Stored(other)
    BY <1>3 DEF Stores, Stored
  <2>4. Cardinality(Stored(s)') = 1 + Cardinality(Stored(s))
    BY <2>1, <2>2, FS_AddElement
  <2>5. ASSUME NEW o \in DOMAIN ops', NEW t, ops'[o].session = t
        PROVE  ops'[o].seq <= Cardinality(Stored(t)')
    <3>1. CASE o = new
      BY <1>3, <2>1, <2>4, <2>5, <3>1 DEF Stores
    <3>2. CASE o \in DOMAIN ops /\ ops'[o] = ops[o]
      <4>1. ops[o].seq <= Cardinality(Stored(t))
        BY <2>5, <3>2 DEF NumbersCount
      <4>2. CASE t = s
        BY <1>1, <2>1, <2>4, <3>2, <4>1, <4>2
      <4>3. CASE t # s
        BY <2>3, <3>2, <4>1, <4>3
      <4> QED BY <4>2, <4>3
    <3> QED BY <1>3, <3>1, <3>2 DEF Stores
  <2> QED BY <2>5 DEF NumbersCount, Stored
<1>4. CASE Arrives
  BY <1>4 DEF Arrives, NumbersCount, Stored
<1> QED BY <1>2, <1>3, <1>4 DEF Moves

LEMMA QueueKept ==
  ASSUME Ground, QueueOK, Moves
  PROVE  QueueOK'
BY WireKept, DeliveredKept, OrderKept, NumbersKept DEF QueueOK

-----------------------------------------------------------------------------
(* Theorems. *)

PumpOK == Ground /\ QueueOK /\ StopOK

LEMMA NextPump == PumpOK /\ [PumpNext]_systemVars => PumpOK'
<1> SUFFICES ASSUME PumpOK, [PumpNext]_systemVars PROVE PumpOK'
  OBVIOUS
<1>1. Ground /\ QueueOK /\ StopOK /\ NextIsOpen /\ WireIsDispatching
  BY DEF PumpOK, QueueOK, StopOK
<1>2. Moves /\ GateMoves /\ PassMoves
  BY <1>1, SystemMoves
<1>3. Ground' /\ QueueOK' /\ StopOK'
  BY <1>1, <1>2, GroundKept, QueueKept, StopKept
<1> QED BY <1>3 DEF PumpOK

LEMMA PumpInvariance == PumpSpec => []PumpOK
<1>1. PumpInit => PumpOK
  BY InitGround DEF PumpOK
<1> QED BY <1>1, NextPump, PTL DEF PumpSpec

(* Every variable of the pump, its store and its wire keeps its type, and    *)
(* the pass that is admitting knows an operation that is stored.             *)
THEOREM PumpTypeCorrect == PumpSpec => []PumpTypeOK
<1>1. PumpOK => PumpTypeOK
  BY DEF PumpOK, Ground
<1> QED BY <1>1, PumpInvariance, PTL

(* Whoever is told by Stop All that everything is stopped can rely on it,    *)
(* whatever requests are in flight, lost or late, and over any restart:      *)
(* until the gate is opened again nothing waits, nothing is being            *)
(* dispatched, and no admission is on its way to the engine for the first    *)
(* time.                                                                     *)
THEOREM StopsAreTruthful == PumpSpec => []StopAllIsTruthful
<1>1. PumpOK => StopAllIsTruthful
  BY DEF PumpOK, StopOK
<1> QED BY <1>1, PumpInvariance, PTL

(* No step of pump, routes, observer, client or restart takes a prompt back, *)
(* although a step of the pump is several transactions of the store.         *)
THEOREM PumpOnlyGoesForward == PumpSpec => OnlyForward
<1>1. PumpOK /\ [PumpNext]_systemVars =>
        [\A o \in DOMAIN ops :
           /\ o \in DOMAIN ops'
           /\ ops'[o].session = ops[o].session
           /\ ops'[o].mode = ops[o].mode
           /\ ops'[o].seq = ops[o].seq
           /\ ops[o].state # "pending" => ops'[o].state # "pending"
           /\ ops[o].state = "admitted" => ops'[o].state \in {"admitted", "completed"}
           /\ ops[o].state \in {"cancelled", "completed"} => ops'[o].state = ops[o].state]_storeVars
  <2> SUFFICES ASSUME PumpOK, [PumpNext]_systemVars, NEW o \in DOMAIN ops
               PROVE  /\ o \in DOMAIN ops'
                      /\ ops'[o].session = ops[o].session
                      /\ ops'[o].mode = ops[o].mode
                      /\ ops'[o].seq = ops[o].seq
                      /\ ops[o].state # "pending" => ops'[o].state # "pending"
                      /\ ops[o].state = "admitted" => ops'[o].state \in {"admitted", "completed"}
                      /\ ops[o].state \in {"cancelled", "completed"} => ops'[o].state = ops[o].state
    OBVIOUS
  <2>1. Moves
    BY SystemMoves DEF PumpOK, QueueOK, StopOK
  <2>2. CASE Edits
    BY <2>2 DEF Edits, Table, RowMoves
  <2>3. CASE o \in DOMAIN ops' /\ ops'[o] = ops[o]
    BY <2>3
  <2> QED BY <2>1, <2>2, <2>3 DEF Moves, Stores, Arrives
<1> QED BY <1>1, PumpInvariance, PTL DEF PumpSpec, OnlyForward

-----------------------------------------------------------------------------
(* The queue is implemented. *)

LEMMA InitQueue == PumpInit => Queue!QueueInit
<1> SUFFICES ASSUME PumpInit PROVE Queue!QueueInit
  OBVIOUS
<1>1. DOMAIN ops = {} /\ DOMAIN delivered = {}
  BY DEF PumpInit, StoreInit
<1> QED BY <1>1 DEF Queue!QueueInit

(* The rows that a step cancels are withdrawn. *)
LEMMA EditsWithdraw ==
  ASSUME Ground, DeliveredIsOut, Edits
  PROVE  Queue!QueueNext
<1> DEFINE set == {o \in DOMAIN ops : ops[o].state # "cancelled" /\ ops'[o].state = "cancelled"}
<1>1. /\ DOMAIN ops' = DOMAIN ops /\ delivered' = delivered /\ DOMAIN ops \subseteq OpIds
      /\ \A o \in DOMAIN ops : RowMoves(o, ops'[o])
  BY DEF Edits, Table, Ground, PumpTypeOK, StoreTypeOK
<1>2. \A o \in DOMAIN ops : /\ ops'[o].session = ops[o].session /\ ops'[o].mode = ops[o].mode
                            /\ ops'[o].seq = ops[o].seq
  BY <1>1 DEF RowMoves
<1>3. [o \in DOMAIN ops |-> <<ops[o].session, ops[o].mode>>]'
        = [o \in DOMAIN ops |-> <<ops[o].session, ops[o].mode>>]
  BY <1>1, <1>2
<1>4. [o \in DOMAIN ops |-> ops[o].seq]' = [o \in DOMAIN ops |-> ops[o].seq]
  BY <1>1, <1>2
<1>5. {o \in DOMAIN ops : ops[o].state = "cancelled"}'
        = {o \in DOMAIN ops : ops[o].state = "cancelled"} \cup set
  BY <1>1 DEF RowMoves
<1>6. \A o \in set : ops[o].state = "pending" /\ o \notin DOMAIN delivered
  BY <1>1 DEF RowMoves, DeliveredIsOut
<1>7. PICK gone \in SUBSET OpIds : gone = set
  BY <1>1
<1>8. Queue!Withdraw(gone)
  BY <1>1, <1>3, <1>4, <1>5, <1>6, <1>7 DEF Queue!Withdraw
<1> QED BY <1>8 DEF Queue!QueueNext

(* A prompt that is stored is submitted behind those of its lane. *)
LEMMA StoresSubmits ==
  ASSUME Ground, NumbersCount, NEW o \in OpIds, NEW s \in Sessions, NEW mode \in Modes,
         Stores(o, s, mode)
  PROVE  Queue!QueueNext
<1> DEFINE lane  == [q \in DOMAIN ops |-> <<ops[q].session, ops[q].mode>>]
           place == [q \in DOMAIN ops |-> ops[q].seq]
<1>1. /\ IsFiniteSet(DOMAIN ops) /\ \A q \in DOMAIN ops : ops[q].seq \in Nat
  BY DEF Ground, PumpTypeOK, StoreTypeOK, Operation
<1>2. Cardinality(Stored(s)) \in Nat
  <2>1. Stored(s) \subseteq DOMAIN ops
    BY DEF Stored
  <2> QED BY <1>1, <2>1, FS_Subset, FS_CardinalityType
<1>3. Queue!Extends(lane, lane', o) /\ lane'[o] = <<s, mode>>
  BY DEF Stores, Queue!Extends
<1>4. Queue!Extends(place, place', o) /\ place'[o] = 1 + Cardinality(Stored(s))
  BY DEF Stores, Queue!Extends
<1>5. \A q \in DOMAIN lane : lane[q] = <<s, mode>> => place[q] < place'[o]
  BY <1>1, <1>2, <1>4 DEF NumbersCount
<1>6. {q \in DOMAIN ops : ops[q].state = "cancelled"}' = {q \in DOMAIN ops : ops[q].state = "cancelled"}
  BY DEF Stores
<1>7. Queue!Submit(o, <<s, mode>>)
  BY <1>3, <1>4, <1>5, <1>6 DEF Stores, Queue!Submit
<1> QED BY <1>7 DEF Queue!QueueNext

(* What the engine takes is delivered, once. *)
LEMMA ArrivesDelivers ==
  ASSUME Ground, QueueOK, Arrives
  PROVE  [Queue!QueueNext]_(Queue!queueVars)
<1> DEFINE lane  == [q \in DOMAIN ops |-> <<ops[q].session, ops[q].mode>>]
           place == [q \in DOMAIN ops |-> ops[q].seq]
           withdrawn == {q \in DOMAIN ops : ops[q].state = "cancelled"}
<1>1. wire \subseteq DOMAIN ops /\ DOMAIN ops \subseteq OpIds /\ ops' = ops
  BY DEF Ground, PumpTypeOK, StoreTypeOK, Arrives
<1>2. lane' = lane /\ place' = place /\ withdrawn' = withdrawn
  BY <1>1
<1>3. PICK o \in wire : DOMAIN delivered' = DOMAIN delivered \cup {o}
  BY DEF Arrives
<1>4. CASE o \in DOMAIN delivered
  <2>1. DOMAIN delivered' = DOMAIN delivered
    BY <1>3, <1>4
  <2> QED BY <1>2, <2>1 DEF Queue!queueVars
<1>5. CASE o \notin DOMAIN delivered
  <2>1. ops[o].state = "dispatching"
    BY <1>5 DEF QueueOK, WireIsDispatching
  <2>2. \A q \in DOMAIN ops : lane[q] = lane[o] /\ place[q] < place[o] =>
                              q \in DOMAIN delivered \cup withdrawn
    BY <1>1, <2>1 DEF QueueOK, TakenInOrder, Before
  <2>3. Queue!Deliver(o)
    BY <1>1, <1>2, <1>3, <1>5, <2>1, <2>2 DEF Queue!Deliver
  <2> QED BY <1>1, <2>3 DEF Queue!QueueNext
<1> QED BY <1>4, <1>5

LEMMA NextQueue == PumpOK /\ [PumpNext]_systemVars => [Queue!QueueNext]_(Queue!queueVars)
<1> SUFFICES ASSUME PumpOK, [PumpNext]_systemVars
             PROVE  [Queue!QueueNext]_(Queue!queueVars)
  OBVIOUS
<1>1. Moves /\ Ground /\ QueueOK /\ DeliveredIsOut /\ NumbersCount
  BY SystemMoves DEF PumpOK, QueueOK, StopOK
<1> QED BY <1>1, EditsWithdraw, StoresSubmits, ArrivesDelivers DEF Moves

(* A prompt sent to a busy session is delivered at most once, in the order   *)
(* of its lane, or withdrawn and then never delivered: over lost, late and   *)
(* repeated admissions, failed local writes, stops, policies, cancellations  *)
(* and restarts.                                                             *)
THEOREM QueueImplemented == PumpSpec => ImplementsQueue
<1> QED BY PumpInvariance, InitQueue, NextQueue, PTL
        DEF PumpSpec, ImplementsQueue, Queue!QueueSpec

(* The pump beside routes and observer keeps the promise of the coordinator: *)
(* the feed is ordered, both readers are told the same outcomes, and a run   *)
(* ends once.                                                                *)
THEOREM PumpTellsOneStory == PumpSpec => [](FeedOrdered /\ OutcomesAgree) /\ ImplementsLifecycle
<1>1. PumpInit => StoryOK /\ Lifecycle!LifecycleInit
  BY InitStory, InitPromise DEF PumpInit, ControlInit
<1>2. PumpOK /\ [PumpNext]_systemVars => Core /\ Inv /\ Step
  BY CoreKept DEF PumpOK, Ground, Core
<1>3. PumpOK /\ StoryOK /\ [PumpNext]_systemVars => StoryOK'
  BY <1>2, ProgressKeepsStory, ClosingKeepsStory, ReservationKeepsStory DEF Step, Inv
<1>4. PumpOK /\ StoryOK /\ [PumpNext]_systemVars => [Lifecycle!LifecycleNext]_(Lifecycle!lifecycleVars)
  BY <1>2, StepIsPromised
<1>5. StoryOK => FeedOrdered /\ OutcomesAgree
  BY DEF StoryOK
<1> QED BY <1>1, <1>3, <1>4, <1>5, PumpInvariance, PTL
        DEF PumpSpec, ImplementsLifecycle, Lifecycle!LifecycleSpec
-----------------------------------------------------------------------------
(* The evidence of an admitted run. *)

(* The engine works for what it took, or its last message says how a turn   *)
(* that began no earlier ended.                                             *)
DeliveriesLeave ==
  \A o \in DOMAIN delivered :
    LET e == engine[ops[o].session] IN
    /\ delivered[o] \in 0 .. generation
    /\ o \in e.pending \/ (e.stamp >= delivered[o] /\ e.evidence # "null")

(* The run was reserved before the engine takes, or took, the operation. *)
Ahead(o, r) ==
  /\ r \in DOMAIN rows
  /\ o \in DOMAIN delivered => delivered[o] >= rows[r].gen

AdmittedAhead ==
  \A o \in DOMAIN ops :
    ops[o].state = "admitted" /\ ops[o].admittedId \in RunIds => Ahead(o, ops[o].admittedId)

PassAhead == pass.at \in {"steer", "first"} /\ pass.run # NoRun => Ahead(pass.op, pass.run)

DeliveryOK == DeliveriesLeave /\ AdmittedAhead /\ PassAhead

(* An operation of unknown outcome is submitted again only to be steered,   *)
(* and into a run that was reserved before the engine takes, or took, it.   *)
ResubmittedInTime ==
  /\ pass.at = "recover" => ops[pass.op].mode = "steer"
  /\ pass.at = "resteer" /\ pass.run # NoRun => Ahead(pass.op, pass.run)

(* A turn goes on, or leaves a message that is not older than it. *)
TurnLeaves(s, o) ==
  /\ engine'[s].stamp >= engine[s].stamp
  /\ engine[s].evidence # "null" => engine'[s].evidence # "null"
  /\ o \in engine[s].pending =>
       o \in engine'[s].pending \/ (engine'[s].stamp >= delivered[o] /\ engine'[s].evidence # "null")

LEMMA TurnsLeave ==
  ASSUME "engine_loss" \notin Environment, Ground, [PumpNext]_systemVars,
         NEW s \in Sessions, NEW o \in DOMAIN delivered, delivered[o] \in Nat
  PROVE  TurnLeaves(s, o)
<1>1. /\ engine[s] \in PumpEngine /\ engine[s].stamp \in Nat /\ DOMAIN engine = Sessions
      /\ o \in OpIds /\ o \notin RunIds
  BY OperationAssumption DEF Ground, PumpTypeOK, StoreTypeOK, PumpEngine
<1>2. CASE UNCHANGED engine
  BY <1>1, <1>2 DEF TurnLeaves
<1>3. ASSUME NEW t, NEW S, engine' = [engine EXCEPT ![t].pending = @ \cup S]
      PROVE  TurnLeaves(s, o)
  <2>1. /\ engine'[s].stamp = engine[s].stamp /\ engine'[s].evidence = engine[s].evidence
        /\ engine[s].pending \subseteq engine'[s].pending
    BY <1>1, <1>3 DEF PumpEngine
  <2> QED BY <1>1, <2>1 DEF TurnLeaves
<1>4. ASSUME NEW t \in Sessions, NEW r, NEW outcome \in RunOutcome, NEW from, NEW stamp \in from .. generation,
             stamp >= engine[t].stamp, r = o => from = delivered[o],
             engine' = [engine EXCEPT ![t] =
                [pending |-> @.pending \ {r}, stamp |-> stamp, evidence |-> outcome]]
      PROVE  TurnLeaves(s, o)
  <2>1. CASE t # s
    BY <1>1, <1>4, <2>1 DEF TurnLeaves
  <2>2. CASE t = s
    <3>1. /\ engine'[s].stamp = stamp /\ engine'[s].evidence = outcome /\ outcome # "null"
          /\ engine'[s].pending = engine[s].pending \ {r}
      BY <1>1, <1>4, <2>2 DEF RunOutcome
    <3>2. r = o => stamp >= delivered[o]
      BY <1>4
    <3> QED BY <1>4, <2>2, <3>1, <3>2 DEF TurnLeaves
  <2> QED BY <2>1, <2>2
<1>5. ASSUME NEW t \in Sessions, NEW r \in RunIds, NEW outcome \in RunOutcome, EngineFinishes(t, r, outcome)
      PROVE  TurnLeaves(s, o)
  <2>1. r # o
    BY <1>1
  <2> QED BY <1>4, <1>5, <2>1 DEF EngineFinishes
<1>6. ASSUME NEW t \in Sessions, NEW q \in OpIds, NEW outcome \in RunOutcome, OperationEnds(t, q, outcome)
      PROVE  TurnLeaves(s, o)
  BY <1>4, <1>6 DEF OperationEnds
<1>7. ASSUME NEW t, EngineTakes(t)
      PROVE  TurnLeaves(s, o)
  BY <1>3, <1>7 DEF EngineTakes
<1>8. ASSUME NEW q, AdmissionArrives(q)
      PROVE  TurnLeaves(s, o)
  BY <1>2, <1>3, <1>8 DEF AdmissionArrives
<1>9. \A t : ~ EngineLost(t)
  BY DEF EngineLost
<1> QED BY <1>2, <1>5, <1>6, <1>7, <1>8, <1>9, OnlyEngine, OutcomeAssumption DEF EngineSteps

(* The engine takes an operation once. *)
Takes(o) ==
  /\ o \in wire \ DOMAIN delivered
  /\ delivered' = Put(delivered, o, generation)
  /\ o \in engine'[ops[o].session].pending
  /\ UNCHANGED <<vars, ops, pass>>

LEMMA OnlyTakes ==
  ASSUME Ground, [PumpNext]_systemVars
  PROVE  delivered' = delivered \/ \E o \in OpIds : Takes(o)
<1>1. ASSUME NEW o \in wire, AdmissionArrives(o), o \notin DOMAIN delivered
      PROVE  \E q \in OpIds : Takes(q)
  <2>1. o \in OpIds /\ ops[o].session \in Sessions
    BY DEF Ground, PumpTypeOK, StoreTypeOK, Operation
  <2>2. engine' = [engine EXCEPT ![ops[o].session].pending = @ \cup {o}] /\ DOMAIN engine = Sessions
    BY <1>1 DEF AdmissionArrives, Ground
  <2>3. o \in engine'[ops[o].session].pending
    BY <2>1, <2>2 DEF Ground, PumpEngine
  <2>4. Takes(o)
    BY <1>1, <2>3 DEF AdmissionArrives, Takes
  <2> QED BY <2>1, <2>4
<1>2. ASSUME NEW o \in wire, AdmissionArrives(o), o \in DOMAIN delivered
      PROVE  delivered' = delivered
  BY <1>2 DEF AdmissionArrives
<1>3. CASE PassStep \/ \E s \in Sessions : PassBegins(s)
  BY <1>3 DEF PassStep, PassDecides, PassAnswered, PassReadsStatus, PassReadsEvidence, PassReadFails,
         PassGivesUp, PassFindsBusy, PassReconciles, PassContinues, PassBegins,
         StaleSuccess, SteerAdmitted, FirstAdmitted, RecoveryAdmitted, RecoveryAccepted,
         AdmissionUnrecorded, AdmissionFails, OnlyPump
<1>4. ASSUME \/ \E p, o, mode : StartIsStored(p, o, mode)
             \/ \E o \in DOMAIN ops : ClientCancels(o) \/ OperationAges(o)
             \/ StopAllBegins
             \/ \E fence \in stopping : StopAllEnds(fence) \/ StopAllTimesOut(fence)
             \/ \E policy \in Policies : PolicyEnabled(policy)
      PROVE  delivered' = delivered
  BY <1>4 DEF StartIsStored, ClientCancels, OperationAges, StopAllBegins, StopAllEnds, StopAllTimesOut,
              PolicyEnabled
<1>5. ASSUME \/ ControlMoves \/ EverythingRestarts \/ UNCHANGED systemVars
             \/ \E s, o, outcome : OperationEnds(s, o, outcome)
      PROVE  delivered' = delivered
  BY <1>5 DEF ControlMoves, EverythingRestarts, OperationEnds, pumpVars, systemVars
<1> QED BY <1>1, <1>2, <1>3, <1>4, <1>5 DEF PumpNext

(* A pass submits what waits, for a run that is reserved. *)
Submits ==
  /\ pass'.op \in DOMAIN ops /\ ops[pass'.op].state = "pending"
  /\ pass'.run \in DOMAIN rows'
  /\ delivered' = delivered

LEMMA BusySubmits ==
  ASSUME Ground, PassFindsBusy, Step, pass'.at = "steer", pass'.run # NoRun
  PROVE  Submits
<1> DEFINE s    == pass.session
           run  == IF s \in DOMAIN runs THEN runs[s].id ELSE NoRun
           next == OfMode(InState(s, "pending"), "steer")
<1>1. StateOK /\ PumpTypeOK /\ pass.at # "none" /\ delivered' = delivered
  BY DEF Ground, Core, Inv, PassFindsBusy, PassAt, OnlyPump
<1>2. pass \in Pass
  BY <1>1, PassFacts
<1>3. ASSUME NEW at, NEW o, pass' = [pass EXCEPT !.at = at, !.op = o, !.run = run]
      PROVE  pass'.at = at /\ pass'.op = o /\ pass'.run = run
  BY <1>2, <1>3 DEF Pass
<1>4. \/ pass' = NoPass
      \/ \E o : pass' = [pass EXCEPT !.at = "resteer", !.op = o, !.run = run]
      \/ \E o \in next : pass' = [pass EXCEPT !.at = "steer", !.op = o, !.run = run]
  BY DEF PassFindsBusy, Sends, PassEnds, PassGoes
<1>5. pass' # NoPass
  BY DEF NoPass
<1> HIDE DEF run, next
<1>6. pass'.op \in next /\ pass'.run = run
  BY <1>3, <1>4, <1>5
<1>7. pass'.op \in DOMAIN ops /\ ops[pass'.op].state = "pending"
  BY <1>6 DEF next, OfMode, InState
<1>8. run \in DOMAIN rows
  BY <1>1, <1>6, MirroredRun DEF run
<1>9. run \in DOMAIN rows'
  BY <1>1, <1>8, RowsStay DEF RowStays
<1> QED BY <1>1, <1>6, <1>7, <1>9 DEF Submits

LEMMA IdleSubmits ==
  ASSUME Ground, PassContinues, pass'.at = "first", pass'.run # NoRun, NextIsOpen
  PROVE  Submits
<1> DEFINE s    == pass.session
           mode == IF acceptance.steer /\ OfMode(InState(s, "pending"), "steer") # {}
                   THEN "steer" ELSE "enqueue"
           waiting == IF acceptance[mode] THEN OfMode(InState(s, "pending"), mode) ELSE {}
<1>1. PumpTypeOK /\ pass.at # "none" /\ delivered' = delivered
  BY DEF Ground, PassContinues, PassIdle, PassAt, OnlyPump
<1>2. pass \in Pass
  BY <1>1, PassFacts
<1>3. ASSUME NEW at, NEW o, NEW r, pass' = [pass EXCEPT !.at = at, !.op = o, !.run = r]
      PROVE  pass'.at = at /\ pass'.op = o /\ pass'.run = r
  BY <1>2, <1>3 DEF Pass
<1>4. \/ pass' = NoPass
      \/ \E o : pass' = [pass EXCEPT !.at = "recover", !.op = o, !.run = NoRun]
      \/ \E o : pass' = [pass EXCEPT !.at = "first", !.op = o, !.run = NoRun]
      \/ \E o \in waiting, r \in PumpRuns :
           ReserveStart(s, r) /\ pass' = [pass EXCEPT !.at = "first", !.op = o, !.run = r]
  BY DEF PassContinues, Sends, PassEnds, PassGoes
<1>5. pass' # NoPass
  BY DEF NoPass
<1> HIDE DEF mode, waiting
<1>6. PICK o \in waiting, r \in PumpRuns :
        ReserveStart(s, r) /\ pass' = [pass EXCEPT !.at = "first", !.op = o, !.run = r]
  BY <1>3, <1>4, <1>5
<1>7. pass'.op = o /\ pass'.run = r
  BY <1>3, <1>6
<1>8. o \in DOMAIN ops /\ ops[o].state = "pending"
  BY DEF waiting, OfMode, InState
<1>9. r \in DOMAIN rows'
  BY <1>6 DEF ReserveStart, RecordReserved, Put, FreshRun
<1> QED BY <1>1, <1>7, <1>8, <1>9 DEF Submits

LEMMA PassSubmits ==
  ASSUME Ground, NextIsOpen, Step, [PumpNext]_systemVars, pass'.at \in {"steer", "first"}, pass'.run # NoRun
  PROVE  (pass'.at = pass.at /\ pass'.op = pass.op /\ pass'.run = pass.run) \/ Submits
<1>0. PumpTypeOK /\ (pass = NoPass \/ pass \in Pass)
  BY DEF Ground, PumpTypeOK
<1>1. CASE pass' = pass \/ Superseded
  <2>1. CASE pass = NoPass
    BY <1>1, <2>1 DEF Superseded, NoPass
  <2>2. CASE pass \in Pass
    BY <1>1, <2>2 DEF Superseded, Pass
  <2> QED BY <1>0, <2>1, <2>2
<1>2. ASSUME NEW at \in Points \ {"steer", "first"}, pass.at # "none",
             pass' = [pass EXCEPT !.at = at] \/ \E r : pass' = [pass EXCEPT !.at = at, !.run = r]
      PROVE  FALSE
  BY <1>0, <1>2, PassFacts DEF Pass, Points
<1>3. pass' # NoPass
  BY DEF NoPass
<1>4. CASE PassFindsBusy
  <2>1. pass'.at # "first"
    <3>1. pass \in Pass
      BY <1>0, <1>4, PassFacts DEF PassFindsBusy, PassAt
    <3>2. \/ pass' = NoPass
          \/ \E o, r : \E at \in {"resteer", "steer"} : pass' = [pass EXCEPT !.at = at, !.op = o, !.run = r]
      BY <1>4 DEF PassFindsBusy, Sends, PassEnds, PassGoes
    <3> QED BY <1>3, <3>1, <3>2 DEF Pass
  <2> QED BY <1>4, <2>1, BusySubmits
<1>5. CASE PassContinues
  <2>1. pass'.at # "steer"
    <3>1. pass \in Pass
      BY <1>0, <1>5, PassFacts DEF PassContinues, PassIdle, PassAt
    <3>2. \/ pass' = NoPass
          \/ \E o, r : \E at \in {"recover", "first"} : pass' = [pass EXCEPT !.at = at, !.op = o, !.run = r]
      BY <1>5 DEF PassContinues, Sends, PassEnds, PassGoes
    <3> QED BY <1>3, <3>1, <3>2 DEF Pass
  <2> QED BY <1>5, <2>1, IdleSubmits
<1>6. ASSUME \/ PassReadsStatus \/ PassReadsEvidence \/ PassReadFails \/ PassGivesUp \/ PassReconciles
             \/ PassAnswered \/ AdmissionUnrecorded \/ AdmissionFails
      PROVE  FALSE
  <2>1. pass.at # "none"
    BY <1>6 DEF PassAnswered, PassReadsStatus, PassReadsEvidence, PassReadFails, PassGivesUp, PassReconciles,
         PassIdle, StaleSuccess, SteerAdmitted, FirstAdmitted, RecoveryAdmitted, RecoveryAccepted,
         AdmissionUnrecorded, AdmissionFails, PassAt, Admitting
  <2>2. \/ pass' = NoPass
        \/ \E at \in {"status", "busy", "idle", "next"} : pass' = [pass EXCEPT !.at = at]
        \/ \E r : pass' = [pass EXCEPT !.at = "accept", !.run = r]
    BY <1>6 DEF PassAnswered, PassReadsStatus, PassReadsEvidence, PassReadFails, PassGivesUp, PassReconciles,
         StaleSuccess, SteerAdmitted, FirstAdmitted, RecoveryAdmitted, RecoveryAccepted,
         AdmissionUnrecorded, AdmissionFails, PassEnds, PassGoes, PassGoesOn
  <2> QED BY <1>2, <1>3, <2>1, <2>2 DEF Points
<1>7. ASSUME NEW s, PassBegins(s)
      PROVE  FALSE
  BY <1>7 DEF PassBegins, PassGoes, NoPass
<1>8. ASSUME \/ \E p, o, mode : StartIsStored(p, o, mode)
             \/ \E o : ClientCancels(o) \/ OperationAges(o) \/ AdmissionArrives(o)
             \/ \E s, o, outcome : OperationEnds(s, o, outcome)
             \/ StopAllBegins
             \/ \E fence \in stopping : StopAllEnds(fence) \/ StopAllTimesOut(fence)
             \/ \E policy \in Policies : PolicyEnabled(policy)
             \/ ControlMoves \/ UNCHANGED systemVars
      PROVE  pass' = pass \/ Superseded
  BY <1>8 DEF StartIsStored, ClientCancels, OperationAges, AdmissionArrives, OperationEnds, StopAllBegins,
              StopAllEnds, StopAllTimesOut, PolicyEnabled, ControlMoves, pumpVars, systemVars
<1>9. ~ EverythingRestarts
  BY <1>3 DEF EverythingRestarts
<1> QED BY <1>1, <1>4, <1>5, <1>6, <1>7, <1>8, <1>9 DEF PumpNext, PassStep, PassDecides

(* A run stays ahead of the operation: it keeps its fence, and what the     *)
(* engine takes now it takes at the last generation.                        *)
LEMMA AheadStays ==
  ASSUME PumpOK, StoryOK, Step, [PumpNext]_systemVars, NEW o, NEW r, Ahead(o, r)
  PROVE  r \in DOMAIN rows' /\ (o \in DOMAIN delivered' => delivered'[o] >= rows'[r].gen)
<1>0. StateOK /\ Ground
  BY DEF PumpOK, Ground, Core, Inv
<1>1. r \in DOMAIN rows' /\ rows'[r].gen = rows[r].gen
  BY <1>0, RowsStay DEF RowStays, Ahead
<1>2. CASE delivered' = delivered
  BY <1>1, <1>2 DEF Ahead
<1>3. ASSUME NEW q, Takes(q)
      PROVE  o \in DOMAIN delivered' => delivered'[o] >= rows'[r].gen
  <2>1. CASE o = q
    <3>1. delivered'[o] = generation
      BY <1>3, <2>1 DEF Takes, Put
    <3>2. generation \in Nat /\ rows[r].gen \in Nat /\ rows[r].gen <= generation
      BY <1>0, Typed DEF Ahead, StoryOK, FencesOK, Row
    <3> QED BY <1>1, <3>1, <3>2
  <2>2. CASE o # q
    BY <1>1, <1>3, <2>2 DEF Takes, Put, Ahead
  <2> QED BY <2>1, <2>2
<1> QED BY <1>0, <1>1, <1>2, <1>3, OnlyTakes

LEMMA GenerationGrows ==
  ASSUME StateOK, Step
  PROVE  generation \in Nat /\ generation' \in Nat /\ generation' >= generation
<1>1. generation \in Nat
  BY Typed
<1>2. generation' \in {generation, generation + 1}
  BY DEF Step, Progresses, Closes, Opens
<1> QED BY <1>1, <1>2

LEMMA DeliveriesKept ==
  ASSUME "engine_loss" \notin Environment, PumpOK, Step, DeliveriesLeave, [PumpNext]_systemVars
  PROVE  DeliveriesLeave'
<1>0. StateOK /\ Ground /\ Moves /\ DOMAIN delivered \subseteq DOMAIN ops
  BY SystemMoves DEF PumpOK, QueueOK, StopOK, Ground, Core, Inv, PumpTypeOK
<1>1. ASSUME NEW o \in DOMAIN delivered', o \in DOMAIN delivered, delivered'[o] = delivered[o]
      PROVE  LET e == engine'[ops'[o].session] IN
             /\ delivered'[o] \in 0 .. generation'
             /\ o \in e.pending \/ (e.stamp >= delivered'[o] /\ e.evidence # "null")
  <2>1. ops'[o].session = ops[o].session /\ ops[o].session \in Sessions
    <3>1. o \in DOMAIN ops /\ ops[o] \in Operation
      BY <1>0, <1>1 DEF Ground, PumpTypeOK, StoreTypeOK
    <3>2. ops'[o].session = ops[o].session
      BY <1>0, <3>1 DEF Moves, Edits, Table, RowMoves, Stores, Arrives
    <3> QED BY <3>1, <3>2 DEF Operation
  <2>2. delivered[o] \in Nat /\ delivered[o] <= generation
    BY <1>0, <1>1, Typed DEF DeliveriesLeave
  <2> DEFINE s == ops[o].session
  <2>3. TurnLeaves(s, o)
    BY <1>0, <1>1, <2>1, <2>2, TurnsLeave
  <2>4. engine[s].stamp \in Nat /\ engine'[s].stamp \in Nat
    <3>1. engine[s] \in PumpEngine /\ engine'[s] \in PumpEngine
      BY <1>0, <2>1, EngineKept DEF Ground, EngineTyped
    <3> QED BY <3>1 DEF PumpEngine
  <2>5. o \in engine[s].pending \/ (engine[s].stamp >= delivered[o] /\ engine[s].evidence # "null")
    BY <1>1 DEF DeliveriesLeave
  <2> HIDE DEF s
  <2>6. o \in engine'[s].pending \/ (engine'[s].stamp >= delivered[o] /\ engine'[s].evidence # "null")
    BY <2>2, <2>3, <2>4, <2>5 DEF TurnLeaves
  <2> QED BY <1>0, <1>1, <2>1, <2>2, <2>6, GenerationGrows DEF s
<1>2. CASE delivered' = delivered
  BY <1>1, <1>2 DEF DeliveriesLeave
<1>3. ASSUME NEW q \in OpIds, Takes(q)
      PROVE  DeliveriesLeave'
  <2>1. DOMAIN delivered' = DOMAIN delivered \cup {q} /\ delivered'[q] = generation
        /\ \A o \in DOMAIN delivered : delivered'[o] = delivered[o]
    BY <1>3 DEF Takes, Put
  <2>2. ops' = ops /\ generation' = generation /\ q \in engine'[ops[q].session].pending
    BY <1>3 DEF Takes, vars
  <2>3. generation \in 0 .. generation
    BY <1>0, Typed
  <2> QED BY <1>1, <2>1, <2>2, <2>3 DEF DeliveriesLeave
<1> QED BY <1>0, <1>2, <1>3, OnlyTakes

LEMMA AdmittedKept ==
  ASSUME PumpOK, StoryOK, Step, ResubmittedInTime, AdmittedAhead, PassAhead, [PumpNext]_systemVars
  PROVE  AdmittedAhead'
<1>0. Ground /\ Moves
  BY SystemMoves DEF PumpOK, QueueOK, StopOK
<1> SUFFICES ASSUME NEW o \in DOMAIN ops', ops'[o].state = "admitted", NEW r \in RunIds, ops'[o].admittedId = r
             PROVE  r \in DOMAIN rows' /\ (o \in DOMAIN delivered' => delivered'[o] >= rows'[r].gen)
  BY DEF AdmittedAhead, Ahead
<1>1. CASE o \in DOMAIN ops /\ ops[o].state = "admitted" /\ ops[o].admittedId = r
  BY <1>1, AheadStays DEF AdmittedAhead
<1>2. CASE o \in DOMAIN ops /\ IsAnswered(o, r)
  <2>1. o = pass.op /\ o \in OpIds /\ r # o /\ pass.at \in Admitting
    BY <1>0, <1>2, OperationAssumption DEF IsAnswered, Ground, PumpTypeOK, StoreTypeOK
  <2>2. pass.at \in {"steer", "resteer", "first"} /\ r = AdmittedAs
    BY <1>2, <2>1 DEF IsAnswered, ResubmittedInTime, Admitting
  <2>3. pass.run # NoRun /\ r = pass.run
    BY <2>1, <2>2 DEF AdmittedAs
  <2>4. Ahead(o, r)
    BY <2>1, <2>2, <2>3 DEF PassAhead, ResubmittedInTime
  <2> QED BY <2>4, AheadStays
<1>3. CASE Edits
  <2>1. o \in DOMAIN ops /\ RowMoves(o, ops'[o])
    BY <1>3 DEF Edits, Table
  <2> QED BY <1>1, <1>2, <2>1 DEF RowMoves
<1>4. CASE o \in DOMAIN ops /\ ops'[o] = ops[o]
  BY <1>1, <1>4
<1>5. ASSUME NEW q, NEW s, NEW mode, Stores(q, s, mode)
      PROVE  o \in DOMAIN ops /\ ops'[o] = ops[o]
  BY <1>5 DEF Stores
<1>6. Arrives => o \in DOMAIN ops /\ ops'[o] = ops[o]
  BY DEF Arrives
<1> QED BY <1>0, <1>3, <1>4, <1>5, <1>6 DEF Moves

LEMMA PassKept ==
  ASSUME PumpOK, StoryOK, Step, PassAhead, [PumpNext]_systemVars
  PROVE  PassAhead'
<1>0. Ground /\ NextIsOpen /\ DeliveredIsOut
  BY DEF PumpOK, QueueOK, StopOK
<1> SUFFICES ASSUME pass'.at \in {"steer", "first"}, pass'.run # NoRun
             PROVE  /\ pass'.run \in DOMAIN rows'
                    /\ pass'.op \in DOMAIN delivered' => delivered'[pass'.op] >= rows'[pass'.run].gen
  BY DEF PassAhead, Ahead
<1>1. CASE pass'.at = pass.at /\ pass'.op = pass.op /\ pass'.run = pass.run
  BY <1>1, AheadStays DEF PassAhead
<1>2. CASE Submits
  BY <1>0, <1>2 DEF Submits, DeliveredIsOut
<1> QED BY <1>0, <1>1, <1>2, PassSubmits

(* A run that an operation was admitted as can be told to have ended: over   *)
(* lost, late and failed answers, stops, policies and restarts it is         *)
(* reserved before the engine takes the operation, and the turn leaves a     *)
(* message that is not older.  Excluded are an engine that forgets a turn, a *)
(* queued prompt of unknown outcome that is submitted again (the run comes   *)
(* after the turn), and a steer that is submitted again into a run reserved  *)
(* after the engine took it.                                                 *)
THEOREM AdmittedRunsCanEnd ==
  ASSUME "engine_loss" \notin Environment
  PROVE  PumpSpec /\ []ResubmittedInTime => []AdmittedRunHasEvidence
<1>1. PumpInit => StoryOK /\ DeliveryOK
  <2> SUFFICES ASSUME PumpInit PROVE StoryOK /\ DeliveryOK
    OBVIOUS
  <2>1. StoryOK
    BY InitStory DEF PumpInit, ControlInit
  <2>2. DOMAIN ops = {} /\ DOMAIN delivered = {} /\ pass = NoPass
    BY DEF PumpInit, StoreInit
  <2> QED BY <2>1, <2>2 DEF DeliveryOK, DeliveriesLeave, AdmittedAhead, PassAhead, NoPass
<1>2. PumpOK /\ StoryOK /\ [PumpNext]_systemVars => StoryOK'
  <2>1. PumpOK /\ [PumpNext]_systemVars => Core /\ Inv /\ Step
    BY CoreKept DEF PumpOK, Ground, Core
  <2> QED BY <2>1, ProgressKeepsStory, ClosingKeepsStory, ReservationKeepsStory DEF Step, Inv
<1>3. PumpOK /\ StoryOK /\ ResubmittedInTime /\ DeliveryOK /\ [PumpNext]_systemVars => DeliveryOK'
  <2> SUFFICES ASSUME PumpOK, StoryOK, ResubmittedInTime, DeliveryOK, [PumpNext]_systemVars
               PROVE  DeliveryOK'
    OBVIOUS
  <2>1. Step
    BY CoreKept DEF PumpOK
  <2> QED BY <2>1, DeliveriesKept, AdmittedKept, PassKept DEF DeliveryOK
<1>4. PumpOK /\ DeliveryOK => AdmittedRunHasEvidence
  <2> SUFFICES ASSUME PumpOK, DeliveryOK, NEW o \in DOMAIN ops, NEW s, s = ops[o].session,
                      NEW r, r = ops[o].admittedId,
                      ops[o].state = "admitted", Holds(s, r), engine[s].pending = {}
               PROVE  EvidenceRead(s, r) # "null"
    BY DEF AdmittedRunHasEvidence
  <2>1. StateOK /\ o \in DOMAIN delivered /\ s \in Sessions /\ engine[s] \in PumpEngine
    BY DEF PumpOK, Ground, Core, Inv, QueueOK, DeliveredIsOut, PumpTypeOK, StoreTypeOK, Operation
  <2>2. r \in RunIds /\ r \in DOMAIN rows /\ rows[r].gen \in Nat
    <3>1. runs[s].id = r /\ s \in DOMAIN runs
      BY DEF Holds
    <3> QED BY <2>1, <3>1, MirroredRun DEF Run, Row
  <2>3. delivered[o] >= rows[r].gen
    BY <2>1, <2>2 DEF DeliveryOK, AdmittedAhead, Ahead
  <2>4. delivered[o] \in 0 .. generation /\ engine[s].stamp >= delivered[o] /\ engine[s].evidence # "null"
    BY <2>1 DEF DeliveryOK, DeliveriesLeave
  <2>5. engine[s].stamp >= rows[r].gen
    BY <2>1, <2>2, <2>3, <2>4, Typed DEF PumpEngine
  <2> QED BY <2>4, <2>5 DEF EvidenceRead
<1> QED BY <1>1, <1>2, <1>3, <1>4, PumpInvariance, PTL DEF PumpSpec
=============================================================================
