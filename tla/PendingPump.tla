----------------------------- MODULE PendingPump -----------------------------
(***************************************************************************)
(* The pump that admits the stored prompts (session-pending-operation-     *)
(* pump.ts), composed with the store, the coordinator, the routes, the     *)
(* observer and the engine.                                                *)
(*                                                                         *)
(* One pass runs at a time and visits one session after the other, so it   *)
(* is one record: what it read, the operation it is admitting and the run  *)
(* it reserved for it.  stale says that lifecycleGeneration has moved      *)
(* since the pass began, which also aborts its requests.                   *)
(*                                                                         *)
(* admitOpencodePrompt sends an operation under an identity derived from   *)
(* its id; the engine takes an identity once and answers a repetition with *)
(* the first admission.  A request may reach the engine after the pass     *)
(* gave up, and after a restart of the server.                             *)
(*                                                                         *)
(* The pump's own paused flag is left out: Stop All sets it together with  *)
(* the fence, enable clears it together with the fence.                    *)
(***************************************************************************)
EXTENDS SessionControl

CONSTANTS
  OpIds,           \* commands of remote clients that ask for a busy session
  PumpSlot,        \* the pump, when it goes on without an await
  PumpRuns,        \* bound: identities the pump's reservations draw
  RemoteModes,     \* bound: what remote clients ask for in this instance
  Policies,        \* bound: the policies enable is called with
  MaxLive,         \* SESSION_PENDING_OPERATION_MAX_LIVE
  MaxGate          \* bound: see PendingOperations

ASSUME PumpSlotAssumption == PumpSlot \notin Slots \cup {NoRun}
ASSUME PumpRunAssumption == PumpRuns \subseteq RunIds
ASSUME ModeAssumption == RemoteModes \subseteq {"steer", "enqueue"}
ASSUME PolicyAssumption == Policies \subseteq SUBSET {"steer", "enqueue"} \ {{}}
ASSUME OperationAssumption == OpIds \cap RunIds = {} /\ NoRun \notin OpIds

VARIABLES
  ops, acceptance, \* the store
  pass,            \* the pump's pass
  wire,            \* admissions sent and not yet seen by the engine
  delivered,       \* operation -> generation at which the engine took it
  stopping,        \* fences of the Stop All requests in progress
  silenced         \* fences whose Stop All reported success

AdmissionIds == RunIds \cup OpIds
NotAdmitted  == NoRun
INSTANCE PendingOperations

pumpVars    == <<ops, acceptance, pass, wire, delivered, stopping, silenced>>
systemVars  == <<allVars, pumpVars>>

NoPass == [at |-> "none", session |-> NoRun, op |-> NoRun, run |-> NoRun, stale |-> FALSE]
Pass   == [at : {"asking", "status", "busy", "idle", "next", "steer", "resteer", "recover",
                "first", "accept"},
           session : Sessions, op : OpIds \cup {NoRun}, run : RunIds \cup {NoRun},
           stale : BOOLEAN]

-----------------------------------------------------------------------------
(* The engine's side of an admission. *)

AdmissionArrives(o) ==
  /\ o \in wire
  /\ wire' = wire \ {o}
  /\ IF o \in DOMAIN delivered
     THEN UNCHANGED <<delivered, engine>>
     ELSE /\ delivered' = Put(delivered, o, generation)
          /\ engine' = [engine EXCEPT ![ops[o].session].pending = @ \cup {o}]
  /\ UNCHANGED <<vars, probe, thread, stopped, proxied, history, restarts, stops,
                 ops, acceptance, pass, stopping, silenced>>

(* The turn of an operation; its last message was created during the turn.   *)
OperationEnds(s, o, outcome) ==
  /\ o \in engine[s].pending
  /\ \E stamp \in delivered[o] .. generation :
       /\ stamp >= engine[s].stamp
       /\ engine' = [engine EXCEPT ![s] =
            [pending |-> @.pending \ {o}, stamp |-> stamp, evidence |-> outcome]]
       /\ history' = [history EXCEPT !.ended[s][outcome] = stamp]
  /\ UNCHANGED <<vars, probe, thread, stopped, proxied, restarts, stops, pumpVars>>

-----------------------------------------------------------------------------
(* The pass. *)

PassAt(points)  == pass.at \in points /\ MayRun(PumpSlot)
Fresh           == ~ pass.stale /\ acceptance.enabled
PassGoes(p)     == pass' = p /\ thread' = NoRun
PassGoesOn(p)   == pass' = p /\ thread' = PumpSlot
PassEnds        == PassGoes(NoPass)
OnlyPump        == UNCHANGED <<starts, aborts, probe, externalVars, restarts, stops,
                               delivered, stopping, silenced>>

(* Mutant: a session is visited only for what has not been admitted yet. *)
PassBeginsForWaiting(s) ==
  /\ pass.at = "none" /\ thread = NoRun
  /\ acceptance.enabled
  /\ InState(s, "pending") \cup InState(s, "dispatching") # {}
  /\ PassGoes([NoPass EXCEPT !.at = "asking", !.session = s])
  /\ UNCHANGED <<ops, acceptance, wire>> /\ NoChange /\ OnlyPump

(* wake, liveSessionKeys, and the request for the status. *)
PassBegins(s) ==
  /\ pass.at = "none" /\ thread = NoRun
  /\ acceptance.enabled
  /\ \E o \in LiveOps : ops[o].session = s
  /\ PassGoes([NoPass EXCEPT !.at = "asking", !.session = s])
  /\ UNCHANGED <<ops, acceptance, wire>> /\ NoChange /\ OnlyPump

(* getSessionStatus.  An idle engine whose active run has no final response  *)
(* of its own is busy to the pump; without a run, or with one that is        *)
(* aborting, the messages are not read.                                      *)
PassReadsStatus ==
  /\ PassAt({"asking"})
  /\ \E v \in StatusRead(pass.session) :
       PassGoes([pass EXCEPT !.at = IF v = "idle" THEN "status" ELSE "busy"])
  /\ UNCHANGED <<ops, acceptance, wire>> /\ NoChange /\ OnlyPump

NeedsEvidence(s) == s \in DOMAIN runs /\ runs[s].status # "aborting"

(* Mutant: an idle engine is enough. *)
PassTrustsIdle ==
  /\ PassAt({"status"})
  /\ PassGoes([pass EXCEPT !.at = "idle"])
  /\ UNCHANGED <<ops, acceptance, wire>> /\ NoChange /\ OnlyPump

PassReadsEvidence ==
  LET s == pass.session IN
  /\ PassAt({"status"})
  /\ NeedsEvidence(s)
  /\ PassGoes([pass EXCEPT !.at =
       IF EvidenceRead(s, runs[s].id) = "completed" THEN "idle" ELSE "busy"])
  /\ UNCHANGED <<ops, acceptance, wire>> /\ NoChange /\ OnlyPump

PassReadFails ==
  /\ \/ PassAt({"asking"})
     \/ PassAt({"status"}) /\ NeedsEvidence(pass.session)
  /\ pass.stale \/ "read_failure" \in Environment
  /\ PassEnds
  /\ UNCHANGED <<ops, acceptance, wire>> /\ NoChange /\ OnlyPump

(* The session is idle to the pump. *)
PassIdle == PassAt({"idle"}) \/ (PassAt({"status"}) /\ ~ NeedsEvidence(pass.session))

(* A pass that finds the gate or lifecycleGeneration moved does nothing.     *)
PassGivesUp ==
  /\ PassAt({"busy"}) \/ PassIdle
  /\ ~ Fresh
  /\ PassEnds
  /\ UNCHANGED <<ops, acceptance, wire>> /\ NoChange /\ OnlyPump

Sends(at, o, r) ==
  /\ PassGoes([pass EXCEPT !.at = at, !.op = o, !.run = r])
  /\ wire' = wire \cup {o}

(* A busy session: the active run is running, idle marks are taken back, and *)
(* a steer is admitted: one whose outcome is unknown, or the first waiting   *)
(* unless it is within its grace period.                                     *)
PassFindsBusy ==
  LET s     == pass.session
      run   == IF s \in DOMAIN runs THEN runs[s].id ELSE NoRun
      steer == OfMode(InState(s, "dispatching"), "steer")
      next  == OfMode(InState(s, "pending"), "steer")
  IN
  /\ PassAt({"busy"}) /\ Fresh
  /\ IF run # NoRun THEN ObserveActivity(s, run, "running") ELSE NoChange
  /\ \/ /\ acceptance.steer
        /\ \E o \in steer : IsFirst(o, steer) /\ Sends("resteer", o, run)
        /\ ClearIdle(s)
     \/ /\ acceptance.steer /\ steer = {}
        /\ \E o \in next :
             /\ IsFirst(o, next)
             /\ Sends("steer", o, run)
             /\ ops' = [Unmarked(InState(s, "admitted")) EXCEPT ![o].state = "dispatching"]
        /\ UNCHANGED acceptance
     \/ /\ ~ acceptance.steer \/ steer = {}
        /\ PassEnds
        /\ ClearIdle(s)
        /\ UNCHANGED wire
  /\ OnlyPump

(* An idle session with a run: it is reconciled, and only when that cleared  *)
(* it does the pass go on, in the same turn of the event loop.               *)
PassReconciles ==
  LET s == pass.session
      r == runs[pass.session].id
  IN
  /\ PassIdle /\ Fresh
  /\ s \in DOMAIN runs
  /\ ReconcileAuthoritativeIdle(s, r)
  /\ IF Clearable(s, r)
     THEN PassGoesOn([pass EXCEPT !.at = "next"]) /\ ops' = CompletedAs({r})
     ELSE PassEnds /\ UNCHANGED ops
  /\ UNCHANGED <<acceptance, wire>> /\ OnlyPump

(* The bound leaves no identity for another reservation of the pump. *)
NoRunLeft == PumpRuns \subseteq DOMAIN rows

(* An idle session without a run.  Admitted operations are completed by two  *)
(* idle samples, in order, and the first one still unconfirmed ends the      *)
(* pass.  Then an operation of unknown outcome is sent again; else the first *)
(* waiting steer, else the first waiting enqueue, is claimed and sent, the   *)
(* latter with a run reserved for it.                                        *)
PassContinues ==
  LET s          == pass.session
      admitted   == InState(s, "admitted")
      unaged     == {o \in admitted : ops[o].idle # "aged"}
      unfinished == {o \in InState(s, "dispatching") : acceptance[ops[o].mode]}
      mode       == IF acceptance.steer /\ OfMode(InState(s, "pending"), "steer") # {}
                    THEN "steer" ELSE "enqueue"
      waiting    == IF acceptance[mode] THEN OfMode(InState(s, "pending"), mode) ELSE {}
      claimed(o) == [Moved(admitted, "completed") EXCEPT ![o].state = "dispatching"]
  IN
  /\ \/ PassIdle /\ Fresh /\ s \notin DOMAIN runs
     \/ PassAt({"next"})
  /\ \/ \E o \in unaged :
          /\ IsFirst(o, unaged)
          /\ ops' = [Moved({q \in admitted \ unaged : ops[q].seq < ops[o].seq}, "completed")
                       EXCEPT ![o].idle = "recent"]
          /\ PassEnds /\ NoChange /\ UNCHANGED wire
     \/ /\ unaged = {}
        /\ \E o \in unfinished : IsFirst(o, unfinished) /\ Sends("recover", o, NoRun)
        /\ ops' = Moved(admitted, "completed")
        /\ NoChange
     \/ /\ unaged = {} /\ unfinished = {}
        /\ \E o \in waiting :
             /\ IsFirst(o, waiting)
             /\ ops' = claimed(o)
             /\ \/ mode = "steer" /\ NoChange /\ Sends("first", o, NoRun)
                \/ /\ mode = "enqueue"
                   /\ \E r \in PumpRuns : ReserveStart(s, r) /\ Sends("first", o, r)
                \/ /\ mode = "enqueue" /\ "refusal" \in Environment
                   /\ generation < MaxGeneration
                   /\ ReserveStartFails(s)
                   /\ PassEnds /\ UNCHANGED wire
     \/ /\ unaged = {} /\ unfinished = {}
        /\ waiting = {} \/ (mode = "enqueue" /\ NoRunLeft)
        /\ ops' = Moved(admitted, "completed")
        /\ PassEnds /\ NoChange /\ UNCHANGED wire
  /\ UNCHANGED acceptance /\ OnlyPump

-----------------------------------------------------------------------------
(* The answer to an admission. *)

Answered == pass.op \in DOMAIN delivered \ wire
Admitting  == {"steer", "resteer", "recover", "first"}
AdmittedAs == IF pass.run = NoRun THEN pass.op ELSE pass.run

(* A success that finds lifecycleGeneration moved is left for a later pass:  *)
(* the operation stays dispatching, and the run reserved for it as it is.    *)
StaleSuccess ==
  /\ PassAt(Admitting)
  /\ Answered
  /\ pass.stale
  /\ PassEnds
  /\ UNCHANGED <<ops, acceptance, wire>> /\ NoChange /\ OnlyPump

SteerAdmitted ==
  /\ PassAt({"steer", "resteer"})
  /\ Answered
  /\ ~ pass.stale
  /\ MarkAdmitted(pass.op, AdmittedAs)
  /\ PassEnds
  /\ UNCHANGED wire /\ NoChange /\ OnlyPump

(* Mutant: startedAt is taken when the dispatch is accepted. *)
FirstAdmittedRestamped ==
  /\ PassAt({"first"})
  /\ Answered
  /\ ~ pass.stale
  /\ MarkAdmitted(pass.op, AdmittedAs)
  /\ IF Holds(pass.session, pass.run)
     THEN /\ AllocateGeneration
          /\ rows' = [rows EXCEPT ![pass.run].gen = generation + 1, ![pass.run].status = "running"]
          /\ runs' = [runs EXCEPT ![pass.session].gen = generation + 1,
                                  ![pass.session].status = "running"]
          /\ UNCHANGED <<feed, outbox>>
     ELSE NoChange
  /\ PassEnds
  /\ UNCHANGED wire /\ OnlyPump

FirstAdmitted ==
  /\ PassAt({"first"})
  /\ Answered
  /\ ~ pass.stale
  /\ MarkAdmitted(pass.op, AdmittedAs)
  /\ IF pass.run = NoRun THEN NoChange ELSE AcceptStart(pass.session, pass.run)
  /\ PassEnds
  /\ UNCHANGED wire /\ OnlyPump

(* A recovered enqueue gets a run only now; reserveStart throws when the     *)
(* session has been taken.                                                   *)
RecoveryAdmitted ==
  LET s == pass.session IN
  /\ PassAt({"recover"})
  /\ Answered
  /\ ~ pass.stale
  /\ \/ /\ ops[pass.op].mode = "steer"
        /\ MarkAdmitted(pass.op, pass.op)
        /\ PassEnds /\ NoChange
     \/ /\ ops[pass.op].mode = "enqueue"
        /\ \E r \in PumpRuns :
             /\ ReserveStart(s, r)
             /\ MarkAdmitted(pass.op, r)
             /\ PassGoesOn([pass EXCEPT !.at = "accept", !.run = r])
     \/ /\ ops[pass.op].mode = "enqueue"
        /\ s \in DOMAIN runs \/ NoRunLeft
        /\ PassEnds /\ NoChange /\ Refused
  /\ UNCHANGED wire /\ OnlyPump

RecoveryAccepted ==
  /\ PassAt({"accept"})
  /\ AcceptStart(pass.session, pass.run)
  /\ PassEnds
  /\ UNCHANGED <<ops, acceptance, wire>> /\ OnlyPump

(* The run reserved for a first admission is rolled back, unless that write  *)
(* fails too.                                                                *)
RunRolledBack ==
  \/ RollbackStart(pass.session, pass.run)
  \/ "refusal" \in Environment /\ NoChange

(* A local write after the admission fails: markAdmitted, or acceptStart     *)
(* behind it.  The run of a first admission is rolled back, the run of a     *)
(* recovery stays reserved.                                                  *)
AdmissionUnrecorded ==
  LET written(id) == MarkAdmitted(pass.op, id) \/ Refused IN
  /\ "unrecorded" \in Environment
  /\ PassAt(Admitting)
  /\ Answered
  /\ ~ pass.stale
  /\ \/ pass.at = "first" /\ pass.run # NoRun /\ written(pass.run) /\ RunRolledBack
     \/ /\ pass.at = "recover" /\ ops[pass.op].mode = "enqueue"
        /\ \E r \in PumpRuns : ReserveStart(pass.session, r) /\ written(r)
     \/ (pass.run = NoRun \/ pass.at # "first") /\ NoChange /\ Refused
  /\ PassEnds
  /\ UNCHANGED wire /\ OnlyPump

(* The request fails: refused, aborted, timed out or answered with nonsense. *)
(* The operation stays dispatching.  An abort or a timeout leaves the        *)
(* request on the wire.                                                      *)
AdmissionFails ==
  /\ PassAt(Admitting)
  /\ \/ (pass.stale \/ "lost_response" \in Environment) /\ UNCHANGED wire
     \/ /\ "refusal" \in Environment
        /\ pass.op \in wire \ DOMAIN delivered
        /\ wire' = wire \ {pass.op}
  /\ IF pass.at = "first" /\ pass.run # NoRun THEN RunRolledBack ELSE NoChange
  /\ PassEnds
  /\ UNCHANGED <<ops, acceptance>> /\ OnlyPump

-----------------------------------------------------------------------------
(* Requests to the pump and the store. *)

(* The rest of the system stands still. *)
ControlStands == NoChange /\ UNCHANGED <<starts, aborts, controlVars>>

(* startSessionRun of a remote client that finds the engine busy, at its     *)
(* first read or at the one after the timer, stores the prompt after         *)
(* reporting the activity.  A run replaced before the second read is         *)
(* run_mismatch, and nothing is stored.                                      *)
StartIsStored(p, o, mode) ==
  /\ p \in DOMAIN probe /\ probe[p].status # "idle"
  /\ \/ At(p, {"start"}, "status") /\ StartLooks(p)
     \/ Holds(probe[p].session, probe[p].run) /\ StartConfirms(p)
  /\ Create(o, probe[p].session, mode)
  /\ UNCHANGED <<pass, wire, delivered, stopping, silenced>>

ClientCancels(o) ==
  /\ thread = NoRun
  /\ ops[o].state = "pending"
  /\ Cancel(o)
  /\ ControlStands
  /\ UNCHANGED <<pass, wire, delivered, stopping, silenced>>

Superseded == pass' = IF pass.at = "none" THEN pass ELSE [pass EXCEPT !.stale = TRUE]

(* cancelAll: the fence, lifecycleGeneration and the abort of the requests.  *)
StopAllBegins ==
  /\ thread = NoRun
  /\ acceptance.generation < MaxGate
  /\ FenceRemoteAcceptance
  /\ Superseded
  /\ stopping' = stopping \cup {acceptance'.generation}
  /\ ControlStands /\ UNCHANGED <<wire, delivered, silenced>>

(* Mutant: a claim is not deleted when its admission fails. *)
ClaimsKept == {o \in DOMAIN ops : ops[o].state = "dispatching"}

(* preAdmissionClaims: the operation that the pass in progress claimed and   *)
(* is admitting.                                                             *)
PreAdmissionClaims == IF pass.at \in {"first", "steer"} THEN {pass.op} ELSE {}

(* Mutant: the stop does not wait for the pass in progress. *)
StopAllEndsAtOnce(fence) ==
  /\ thread = NoRun
  /\ fence \in stopping
  /\ CancelAllPendingRemote(fence, PreAdmissionClaims)
  /\ stopping' = stopping \ {fence}
  /\ silenced' = IF FenceHolds(fence) /\ \A o \in DOMAIN ops : ops'[o].state # "dispatching"
                 THEN silenced \cup {fence} ELSE silenced
  /\ ControlStands /\ UNCHANGED <<pass, wire, delivered>>

(* The pass has settled.  A dispatching operation left makes it an error. *)
StopAllEnds(fence) ==
  /\ thread = NoRun
  /\ fence \in stopping
  /\ pass.at = "none"
  /\ CancelAllPendingRemote(fence, PreAdmissionClaims)
  /\ stopping' = stopping \ {fence}
  /\ silenced' = IF FenceHolds(fence) /\ \A o \in DOMAIN ops : ops'[o].state # "dispatching"
                 THEN silenced \cup {fence} ELSE silenced
  /\ ControlStands /\ UNCHANGED <<pass, wire, delivered>>

(* The pass has not settled within the stop timeout: an error. *)
StopAllTimesOut(fence) ==
  /\ thread = NoRun
  /\ fence \in stopping
  /\ pass.at # "none"
  /\ stopping' = stopping \ {fence}
  /\ ControlStands /\ UNCHANGED <<ops, acceptance, pass, wire, delivered, silenced>>

(* enable: only a policy that disables a mode supersedes the pass.           *)
PolicyEnabled(policy) ==
  /\ thread = NoRun
  /\ acceptance.generation < MaxGate
  /\ IF \E mode \in Modes : acceptance[mode] /\ mode \notin policy
     THEN Superseded ELSE UNCHANGED pass
  /\ EnableRemoteAcceptance("steer" \in policy, "enqueue" \in policy)
  /\ ControlStands /\ UNCHANGED <<wire, delivered, stopping, silenced>>

OperationAges(o) ==
  /\ MarkAges(o)
  /\ ControlStands
  /\ UNCHANGED <<pass, wire, delivered, stopping, silenced>>

-----------------------------------------------------------------------------
(* The steps of the rest of the system.  A run settled by the observer, a    *)
(* hint or a start (finalizeClearedRun) completes what was admitted as it; a *)
(* run rolled back does not.  The identities of the pump are not drawn.      *)
ControlMoves ==
  /\ HandlerNext
  /\ ops' = CompletedAs({r \in OpenRuns : rows'[r].reason \in RunOutcome})
  /\ UNCHANGED <<acceptance, pass, wire, delivered, stopping, silenced>>

EverythingRestarts ==
  /\ ServerRestarts
  /\ Startup
  /\ pass' = NoPass
  /\ stopping' = {}
  /\ UNCHANGED <<wire, delivered, silenced>>

PumpInit ==
  /\ ControlInit
  /\ StoreInit
  /\ pass = NoPass
  /\ wire = {}
  /\ delivered = [o \in {} |-> {}]
  /\ stopping = {}
  /\ silenced = {}

PassDecides ==
  \/ PassGivesUp \/ PassFindsBusy \/ PassReconciles \/ PassContinues
PassAnswered ==
  \/ StaleSuccess \/ SteerAdmitted \/ FirstAdmitted \/ RecoveryAdmitted
  \/ RecoveryAccepted
PassStep ==
  \/ PassReadsStatus \/ PassReadsEvidence \/ PassReadFails
  \/ PassDecides \/ PassAnswered
  \/ AdmissionUnrecorded \/ AdmissionFails

PumpNext ==
  \/ ControlMoves
  \/ EverythingRestarts
  \/ PassStep
  \/ \E s \in Sessions : PassBegins(s)
  \/ \E p \in RequestSlots, o \in OpIds, mode \in RemoteModes : StartIsStored(p, o, mode)
  \/ \E o \in wire : AdmissionArrives(o)
  \/ \E o \in DOMAIN ops : ClientCancels(o) \/ OperationAges(o)
  \/ \E s \in Sessions, o \in OpIds, outcome \in EngineOutcomes : OperationEnds(s, o, outcome)
  \/ StopAllBegins
  \/ \E fence \in stopping : StopAllEnds(fence) \/ StopAllTimesOut(fence)
  \/ \E policy \in Policies : PolicyEnabled(policy)

PumpSpec == PumpInit /\ [][PumpNext]_systemVars

(* The pump is a timer that rearms itself; its requests are answered, or     *)
(* aborted after ten seconds; the grace period of a steer ends; the engine   *)
(* receives what is on the wire and its turns end.  Reads, admissions and    *)
(* local writes may fail or come too late, not for ever (SF).  Nobody has to *)
(* open the gate.                                                            *)
PumpFairness ==
  /\ Fairness
  /\ \A s \in Sessions : WF_systemVars(PassBegins(s))
  /\ WF_systemVars(PassStep)
  /\ SF_systemVars(PassReadsStatus)
  /\ SF_systemVars(PassReadsEvidence)
  /\ SF_systemVars(PassFindsBusy /\ pass'.at = "steer")
  /\ SF_systemVars(PassAnswered)
  /\ SF_systemVars(AdmissionArrives(pass.op))
  /\ \A o \in OpIds :
       /\ SF_systemVars(AdmissionArrives(o))
       /\ WF_systemVars(OperationAges(o))
       /\ \A s \in Sessions :
            WF_systemVars(\E outcome \in EngineOutcomes : OperationEnds(s, o, outcome))
  /\ \A fence \in 1 .. MaxGate :
       WF_systemVars(StopAllEnds(fence) \/ StopAllTimesOut(fence))

FairPumpSpec == PumpSpec /\ PumpFairness

-----------------------------------------------------------------------------
(* Properties. *)

(* Every variable of the pump has its type, and the pass knows the operation *)
(* it is admitting.                                                          *)
PumpTypeOK ==
  /\ StoreTypeOK
  /\ pass = NoPass \/ pass \in Pass
  /\ wire \subseteq DOMAIN ops
  /\ DOMAIN delivered \subseteq DOMAIN ops
  /\ stopping \subseteq 1 .. acceptance.generation
  /\ silenced \subseteq 1 .. acceptance.generation

(* A prompt is delivered once, in the order of its lane, or withdrawn, never *)
(* both, whatever is lost, retried, stopped or restarted in between.         *)
Queue ==
  INSTANCE PromptQueue WITH
    Prompts   <- OpIds,
    Lanes     <- Sessions \X Modes,
    lane      <- [o \in DOMAIN ops |-> <<ops[o].session, ops[o].mode>>],
    place     <- [o \in DOMAIN ops |-> ops[o].seq],
    delivered <- DOMAIN delivered,
    withdrawn <- {o \in DOMAIN ops : ops[o].state = "cancelled"}

ImplementsQueue == Queue!QueueSpec

(* A Stop All that reported success left nothing that can still reach the    *)
(* engine: until the gate is opened again no operation waits or is being     *)
(* dispatched, and no admission is on the wire for the first time.  An       *)
(* admission in flight when the stop came makes it report an error instead.  *)
StopAllIsTruthful ==
  acceptance.generation \in silenced =>
    /\ \A o \in DOMAIN ops : ops[o].state \notin {"pending", "dispatching"}
    /\ wire \subseteq DOMAIN delivered

(* A run that an operation was admitted as can be told to have ended: when   *)
(* the engine has nothing left to do in the session, the run has a final     *)
(* message of its own, without which neither the observer nor the pump ever  *)
(* closes it.                                                                *)
AdmittedRunHasEvidence ==
  \A o \in DOMAIN ops :
    LET s == ops[o].session IN
    /\ ops[o].state = "admitted"
    /\ Holds(s, ops[o].admittedId)
    /\ runs[s].status \notin {"starting", "aborting"}
    /\ engine[s].pending = {}
    => EvidenceRead(s, ops[o].admittedId) # "null"

(* While remote control stays on, every stored prompt is admitted and        *)
(* completed, or cancelled.                                                  *)
OperationsSettle ==
  \A o \in OpIds :
    o \in LiveOps ~> (o \notin LiveOps \/ ~ acceptance.enabled)
=============================================================================
