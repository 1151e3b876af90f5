--------------------------- MODULE SessionControl ---------------------------
(***************************************************************************)
(* The run routes of the server (routes/sessions.ts) and its one-second    *)
(* lifecycle observer (server.ts), composed with the coordinator, the      *)
(* journal and the OpenCode engine they ask about a session.               *)
(*                                                                         *)
(* JavaScript runs one handler at a time, so a step is what a handler does *)
(* between two awaits.  What it read before an await (a status, a message, *)
(* a copy of the active run) is kept in its probe and used after other     *)
(* handlers, the engine and the clock have moved on.                       *)
(*                                                                         *)
(* The engine is external.  It takes prompts, works on each and leaves in   *)
(* the session's last assistant message the evidence that                  *)
(* currentRunTerminalStatus reads; while it works it may report idle (just *)
(* before a turn begins, between two steps of it, between a delegate's end *)
(* and the parent's next step).  Creation times are compared through the   *)
(* generation counter: a message stamped g was created while g was the     *)
(* last generation allocated.                                              *)
(***************************************************************************)
EXTENDS SessionMutation

CONSTANTS
  RequestSlots,    \* start and observation requests in flight
  ObserverSlots,   \* passes of the lifecycle observer in flight
  NoRun,           \* a probe with no run, no handler that goes on
  Environment,     \* what the clients and the engine may do in this instance
  EngineOutcomes,  \* outcomes of a turn in this instance
  RouteRuns,       \* bound: identities the routes' reservations draw
  MaxRestarts,     \* bound: restarts of the server
  MaxStops         \* bound: abort requests ever made

ASSUME SlotAssumption == RequestSlots \cap ObserverSlots = {}
ASSUME RouteAssumption == RouteRuns \subseteq RunIds
ASSUME NoRunAssumption == NoRun \notin RunIds
ASSUME BoundAssumption == MaxRestarts \in Nat /\ MaxStops \in Nat
ASSUME OutcomeAssumption == EngineOutcomes \subseteq RunOutcome
ASSUME EnvironmentAssumption ==
  Environment \subseteq
    {"refusal",       \* a dispatch or a journal write fails
     "lost_response", \* the engine acted, the caller sees an error
     "unrecorded",    \* a local write fails after the engine acted
     "engine_loss",   \* the engine restarts and forgets its turn
     "read_failure",  \* a read of the engine fails
     "client_hint",   \* a client reports idle or completed
     "client_report", \* a client reports failed, aborted or activity
     "proxied"}       \* a command or shell request goes through the proxy

VARIABLES
  probe,           \* slot -> what its handler read before its await
  thread,          \* slot of a handler that goes on without an await, or NoRun
  engine,          \* session -> the engine's view of it
  stopped,         \* abort tickets the engine answered true
  proxied,         \* runs reserved for a proxied command or shell request
  history,         \* what happened, for the properties
  restarts, stops  \* counters for the bounds

externalVars == <<engine, stopped, proxied, history>>
controlVars  == <<probe, thread, externalVars, restarts, stops>>
allVars      == <<vars, controlVars>>

Slots  == RequestSlots \cup ObserverSlots
Kinds  == {"start", "idle", "completed", "observer"}
Engine == [pending : SUBSET RunIds, stamp : Nat, evidence : RunOutcome \cup {"null"}]
(* taken: the engine took the prompt.  accepted: its request saw it accepted. *)
(* halted: the engine accepted an abort.  reported: a client said how the run *)
(* ended.  ended: session -> outcome -> stamp of its last turn with it.       *)
History == [taken : SUBSET RunIds, accepted : SUBSET RunIds, halted : SUBSET RunIds,
            reported : SUBSET RunIds,
            ended : [Sessions -> [RunOutcome -> Nat]]]
Probe  == [kind : Kinds, at : {"asking", "status", "evidence", "wait", "second", "reserve"},
           session : Sessions, run : RunIds \cup {NoRun}, aborting : BOOLEAN,
           status : EngineActivity \cup {"idle"}, evidence : RunOutcome \cup {"null"}]

-----------------------------------------------------------------------------
(* The engine. *)

EngineTakes(t) ==
  /\ t \in starts
  /\ t.run \notin history.taken
  /\ history' = [history EXCEPT !.taken = @ \cup {t.run}]
  /\ engine' = [engine EXCEPT ![t.session].pending = @ \cup {t.run}]
  /\ UNCHANGED <<vars, probe, thread, stopped, proxied, restarts, stops>>

(* The last message of the turn was created at some point of it. *)
EngineFinishes(s, r, outcome) ==
  /\ r \in engine[s].pending
  /\ \E stamp \in rows[r].gen .. generation :
       /\ stamp >= engine[s].stamp
       /\ engine' = [engine EXCEPT ![s] =
            [pending |-> @.pending \ {r}, stamp |-> stamp, evidence |-> outcome]]
       /\ history' = [history EXCEPT !.ended[s][outcome] = stamp]
  /\ UNCHANGED <<vars, probe, thread, stopped, proxied, restarts, stops>>

EngineAnswersAbort(t) ==
  /\ t \in aborts \ stopped
  /\ stopped' = stopped \cup {t}
  /\ history' = [history EXCEPT !.halted = @ \cup {t.run}]
  /\ UNCHANGED <<vars, probe, thread, engine, proxied, restarts, stops>>

EngineLost(s) ==
  /\ "engine_loss" \in Environment
  /\ engine[s].pending # {}
  /\ engine' = [engine EXCEPT ![s].pending = {}]
  /\ UNCHANGED <<vars, probe, thread, stopped, proxied, history, restarts, stops>>

(* readEngineSessionStatus: what a read of the engine may return now. *)
StatusRead(s) == {"idle"} \cup (IF engine[s].pending = {} THEN {} ELSE EngineActivity)

(* Mutant: the message's creation time is not compared with startedAt. *)
EvidenceOfAnyRun(s, r) == engine[s].evidence

(* currentRunTerminalStatus: a message older than the run proves nothing.    *)
EvidenceRead(s, r) ==
  IF engine[s].stamp >= rows[r].gen THEN engine[s].evidence ELSE "null"

-----------------------------------------------------------------------------
(* Handlers.  A slot is free when it has no probe. *)

Free(p)          == p \notin DOMAIN probe
At(p, kinds, at) == p \in DOMAIN probe /\ probe[p].kind \in kinds /\ probe[p].at = at
MayRun(p)        == thread \in {NoRun, p}
Move(p, q)       == probe' = Put(probe, p, q) /\ thread' = NoRun
End(p)           == probe' = Drop(probe, p) /\ thread' = NoRun
GoOn(p, q)       == probe' = Put(probe, p, q) /\ thread' = p
Quiet            == NoChange /\ UNCHANGED RequestVars
OnlyHandler      == UNCHANGED <<externalVars, restarts, stops>>

(* A probe about run r of session s, nothing read yet. *)
Ask(kind, at, s, r) ==
  [kind |-> kind, at |-> at, session |-> s, run |-> r, aborting |-> FALSE,
   status |-> "idle", evidence |-> "null"]

(* reconcileWorkspaceActiveRuns copies the active runs; starting is skipped. *)
ObserverLooks(p, s) ==
  /\ Free(p) /\ p \in ObserverSlots /\ MayRun(p)
  /\ s \in DOMAIN runs
  /\ runs[s].status # "starting"
  /\ Move(p, [Ask("observer", "asking", s, runs[s].id) EXCEPT
                !.aborting = runs[s].status = "aborting"])
  /\ Quiet /\ OnlyHandler

(* Mutant: the renderer's idle or completed is believed. *)
ClientHintsBelieved(p, s, r, hint) ==
  /\ "client_hint" \in Environment
  /\ Free(p) /\ p \in RequestSlots /\ MayRun(p)
  /\ Holds(s, r)
  /\ ObserveTerminal(s, r, "completed")
  /\ UNCHANGED <<RequestVars, probe, thread>>
  /\ OnlyHandler

(* observeSessionRun for an idle or completed hint.  An abort already        *)
(* reserved is reported idle at once; otherwise the engine is asked.         *)
ClientHints(p, s, r, hint) ==
  /\ "client_hint" \in Environment
  /\ Free(p) /\ p \in RequestSlots /\ MayRun(p)
  /\ Holds(s, r)
  /\ \/ /\ runs[s].status = "aborting"
        /\ ObserveIdle(s, r)
        /\ UNCHANGED <<RequestVars, probe, thread>>
     \/ /\ runs[s].status # "aborting"
        /\ Move(p, Ask(hint, "asking", s, r))
        /\ Quiet
  /\ OnlyHandler

(* observeSessionRun for any other status: it is taken as it comes.  A run   *)
(* reported aborting is aborting with no abort of the engine on its way.     *)
ClientReports(s, r, status) ==
  /\ "client_report" \in Environment
  /\ thread = NoRun
  /\ Observe(s, r, status)
  /\ history' = [history EXCEPT !.reported = IF status \in RunOutcome THEN @ \cup {r} ELSE @]
  /\ UNCHANGED <<RequestVars, probe, thread, engine, stopped, proxied, restarts, stops>>

(* startSessionRun reads the engine before anything else. *)
StartReads(p, s) ==
  /\ Free(p) /\ p \in RequestSlots /\ MayRun(p)
  /\ \E v \in StatusRead(s) :
       Move(p, [Ask("start", "status", s, NoRun) EXCEPT !.status = v])
  /\ Quiet /\ OnlyHandler

ReadsStatus(p) ==
  /\ At(p, Kinds, "asking") /\ MayRun(p)
  /\ \E v \in StatusRead(probe[p].session) :
       Move(p, [probe[p] EXCEPT !.at = "status", !.status = v])
  /\ Quiet /\ OnlyHandler

(* The last messages are read when the engine was idle and the copy of the   *)
(* run was not aborting.                                                     *)
ReadsEvidence(p) ==
  /\ At(p, {"idle", "completed", "observer"}, "status") /\ MayRun(p)
  /\ probe[p].status = "idle"
  /\ ~ probe[p].aborting
  /\ Move(p, [probe[p] EXCEPT !.at = "evidence",
                              !.evidence = EvidenceRead(probe[p].session, probe[p].run)])
  /\ Quiet /\ OnlyHandler

(* A failed read ends the pass, the hint or the start: without a status      *)
(* nothing is decided, without messages there is no evidence.                *)
ReadFails(p) ==
  /\ "read_failure" \in Environment
  /\ MayRun(p)
  /\ \/ At(p, Kinds, "asking") \/ At(p, Kinds, "wait")
     \/ At(p, Kinds \ {"start"}, "status") /\ probe[p].status = "idle" /\ ~ probe[p].aborting
  /\ End(p)
  /\ Quiet /\ OnlyHandler

(* Mutant: an idle engine settles the run, with or without evidence. *)
ObserverActsOnIdle(p) ==
  LET q == probe[p] IN
  /\ At(p, {"observer"}, "status") \/ At(p, {"observer"}, "evidence")
  /\ MayRun(p)
  /\ \/ q.status # "idle" /\ ObserveActivity(q.session, q.run, q.status)
     \/ q.status = "idle" /\ ReconcileAuthoritativeIdle(q.session, q.run)
  /\ End(p)
  /\ UNCHANGED RequestVars /\ OnlyHandler

(* The observer, and the hints, act on what they read. *)
ObserverActs(p) ==
  LET q == probe[p] IN
  /\ At(p, {"observer"}, "status") \/ At(p, {"observer"}, "evidence")
  /\ MayRun(p)
  /\ \/ q.status # "idle" /\ ObserveActivity(q.session, q.run, q.status)
     \/ /\ q.status = "idle" /\ q.at = "evidence" /\ q.evidence \in {"failed", "aborted"}
        /\ ObserveTerminal(q.session, q.run, q.evidence)
     \/ /\ q.status = "idle"
        /\ q.aborting \/ (q.at = "evidence" /\ q.evidence = "completed")
        /\ ReconcileAuthoritativeIdle(q.session, q.run)
     \/ q.status = "idle" /\ q.at = "evidence" /\ q.evidence = "null" /\ NoChange
  /\ End(p)
  /\ UNCHANGED RequestVars /\ OnlyHandler

HintActs(p) ==
  LET q == probe[p] IN
  /\ \/ At(p, {"idle", "completed"}, "status") /\ q.status # "idle"
     \/ At(p, {"idle", "completed"}, "evidence")
  /\ MayRun(p)
  /\ \/ q.status # "idle" /\ ObserveActivity(q.session, q.run, q.status)
     \/ q.status = "idle" /\ q.evidence \in {"failed", "aborted"}
        /\ ObserveTerminal(q.session, q.run, q.evidence)
     \/ q.status = "idle" /\ q.evidence = "completed" /\ q.kind = "completed"
        /\ ObserveTerminal(q.session, q.run, "completed")
     \/ q.status = "idle" /\ q.evidence = "completed" /\ q.kind = "idle"
        /\ ReconcileAuthoritativeIdle(q.session, q.run)
     \/ q.status = "idle" /\ q.evidence = "null" /\ NoChange
  /\ End(p)
  /\ UNCHANGED RequestVars /\ OnlyHandler

(* The bounds leave no room for another reservation. *)
AtBound == \/ generation >= MaxGeneration
           \/ Cardinality(starts) = MaxRequests
           \/ RouteRuns \subseteq DOMAIN rows

(* The start ends in reserveStart: this contender dispatches, or the session *)
(* is busy.                                                                  *)
Reserves(p, s) ==
  /\ End(p)
  /\ \/ \E r \in RouteRuns : BeginStart(s, r)
     \/ "refusal" \in Environment /\ BeginStartFails(s)
     \/ (s \in DOMAIN runs \/ AtBound) /\ Quiet

(* A start that has just cleared the session goes on to reserve it before    *)
(* any other handler runs.                                                   *)
ReservesNext(p, s) == GoOn(p, Ask("start", "reserve", s, NoRun)) /\ UNCHANGED RequestVars

(* reconcileAuthoritativeIdle would clear the run; would ask for a second    *)
(* sample.                                                                   *)
Clearable(s, r) ==
  /\ Holds(s, r)
  /\ \/ runs[s].status = "aborting" /\ runs[s].abortAccepted
     \/ runs[s].status \notin {"starting", "aborting"} /\ runs[s].idle = "aged"
Unconfirmed(s, r) ==
  /\ Holds(s, r)
  /\ runs[s].status \notin {"starting", "aborting"}
  /\ runs[s].idle # "aged"

(* startSessionRun after its status read.  Idle with a run that is not       *)
(* aborting: read the evidence (an await, up to StartDecides).  Idle with a  *)
(* run that is aborting: one reconciliation, then the reservation.  Idle     *)
(* with no run: the reservation.  Busy: report the activity and refuse.      *)
StartLooks(p) ==
  LET q == probe[p]
      s == probe[p].session
  IN
  /\ At(p, {"start"}, "status") /\ MayRun(p)
  /\ \/ /\ q.status = "idle" /\ s \in DOMAIN runs /\ runs[s].status # "aborting"
        /\ \E e \in {EvidenceRead(s, runs[s].id)}
                    \cup (IF "read_failure" \in Environment THEN {"null"} ELSE {}) :
             Move(p, [Ask("start", "evidence", s, runs[s].id) EXCEPT !.evidence = e])
        /\ Quiet
     \/ /\ q.status = "idle" /\ s \in DOMAIN runs /\ runs[s].status = "aborting"
        /\ ReconcileAuthoritativeIdle(s, runs[s].id)
        /\ IF runs[s].abortAccepted THEN ReservesNext(p, s)
                                    ELSE End(p) /\ UNCHANGED RequestVars
     \/ q.status = "idle" /\ s \notin DOMAIN runs /\ Reserves(p, s)
     \/ /\ q.status # "idle"
        /\ IF s \in DOMAIN runs THEN ObserveActivity(s, runs[s].id, q.status) ELSE NoChange
        /\ End(p) /\ UNCHANGED RequestVars
  /\ OnlyHandler

(* After the evidence.  A run replaced meanwhile is run_mismatch.            *)
StartDecides(p) ==
  LET q == probe[p]
      s == probe[p].session
      r == probe[p].run
  IN
  /\ At(p, {"start"}, "evidence") /\ MayRun(p)
  /\ \/ /\ q.evidence \in {"failed", "aborted"}
        /\ ObserveTerminal(s, r, q.evidence)
        /\ IF Holds(s, r) THEN ReservesNext(p, s) ELSE End(p) /\ UNCHANGED RequestVars
     \/ /\ q.evidence = "completed"
        /\ ReconcileAuthoritativeIdle(s, r)
        /\ \/ Clearable(s, r) /\ ReservesNext(p, s)
           \/ /\ Unconfirmed(s, r)
              /\ Move(p, Ask("start", "wait", s, r)) /\ UNCHANGED RequestVars
           \/ /\ ~ Clearable(s, r) /\ ~ Unconfirmed(s, r)
              /\ End(p) /\ UNCHANGED RequestVars
     \/ q.evidence = "null" /\ Reserves(p, s)
  /\ OnlyHandler

(* The timer of the second sample fires and the engine is read again. *)
StartRereads(p) ==
  /\ At(p, {"start"}, "wait") /\ MayRun(p)
  /\ \E v \in StatusRead(probe[p].session) :
       Move(p, [probe[p] EXCEPT !.at = "second", !.status = v])
  /\ Quiet /\ OnlyHandler

(* A run settled meanwhile is forgiven only when no other run took the       *)
(* session.                                                                  *)
StartConfirms(p) ==
  LET q == probe[p]
      s == probe[p].session
      r == probe[p].run
  IN
  /\ At(p, {"start"}, "second") /\ MayRun(p)
  /\ \/ /\ q.status = "idle" /\ s \in DOMAIN runs
        /\ ReconcileAuthoritativeIdle(s, r)
        /\ IF Clearable(s, r) THEN ReservesNext(p, s) ELSE End(p) /\ UNCHANGED RequestVars
     \/ q.status = "idle" /\ s \notin DOMAIN runs /\ Reserves(p, s)
     \/ /\ q.status # "idle"
        /\ ObserveActivity(s, r, q.status)
        /\ End(p) /\ UNCHANGED RequestVars
  /\ OnlyHandler

StartReserves(p) ==
  /\ At(p, {"start"}, "reserve") /\ thread = p
  /\ Reserves(p, probe[p].session)
  /\ OnlyHandler

(* proxyOpencodeRequest reserves a command or shell request without reading  *)
(* the engine, and keeps it starting until the upstream request settles.     *)
ProxyReserves(s, r) ==
  /\ "proxied" \in Environment
  /\ thread = NoRun
  /\ BeginStart(s, r)
  /\ proxied' = proxied \cup {r}
  /\ UNCHANGED <<probe, thread, engine, stopped, history, restarts, stops>>

-----------------------------------------------------------------------------
(* The dispatched requests come back. *)

PromptAccepted(t) ==
  /\ thread = NoRun
  /\ t.run \in history.taken \ proxied
  /\ FinishStart(t)
  /\ history' = [history EXCEPT !.accepted = @ \cup {t.run}]
  /\ UNCHANGED <<probe, thread, engine, stopped, proxied, restarts, stops>>

PromptFailed(t) ==
  /\ thread = NoRun
  /\ t.run \notin proxied
  /\ IF t.run \in history.taken THEN "lost_response" \in Environment
                              ELSE "refusal" \in Environment
  /\ AbandonStart(t)
  /\ UNCHANGED controlVars

(* releaseExecutionRun, whether the upstream request succeeded or failed.    *)
(* A successful one has run its turn to the end.                             *)
ProxySettles(t) ==
  /\ thread = NoRun
  /\ t.run \in proxied
  /\ \/ t.run \in history.taken \ engine[t.session].pending
     \/ t.run \in engine[t.session].pending /\ "lost_response" \in Environment
     \/ t.run \notin history.taken /\ "refusal" \in Environment
  /\ AbandonStart(t)
  /\ UNCHANGED controlVars

StopRequested(s, r, c) ==
  /\ thread = NoRun
  /\ stops < MaxStops
  /\ BeginAbort(s, r, c)
  /\ stops' = stops + 1
  /\ UNCHANGED <<probe, thread, externalVars, restarts>>

StopAccepted(t) ==
  /\ thread = NoRun
  /\ t \in stopped
  /\ FinishAbort(t)
  /\ stopped' = stopped \ {t}
  /\ UNCHANGED <<probe, thread, engine, proxied, history, restarts, stops>>

StopFailed(t) ==
  /\ thread = NoRun
  /\ IF t \in stopped THEN "lost_response" \in Environment ELSE "refusal" \in Environment
  /\ AbandonAbort(t)
  /\ stopped' = stopped \ {t}
  /\ UNCHANGED <<probe, thread, engine, proxied, history, restarts, stops>>

ClockTicks(s) == TimePasses(s) /\ UNCHANGED controlVars

(* An abort pending at a restart counts as accepted (initialRuns). *)
ServerRestarts ==
  /\ restarts < MaxRestarts
  /\ restarts' = restarts + 1
  /\ Restart
  /\ probe' = [p \in {} |-> {}]
  /\ thread' = NoRun
  /\ stopped' = {}
  /\ history' = [history EXCEPT
       !.halted = @ \cup {r \in OpenRuns : rows[r].status = "aborting"}]
  /\ UNCHANGED <<engine, proxied, stops>>

ControlInit ==
  /\ Init
  /\ probe = [p \in {} |-> {}]
  /\ thread = NoRun
  /\ engine = [s \in Sessions |-> [pending |-> {}, stamp |-> 0, evidence |-> "null"]]
  /\ stopped = {}
  /\ proxied = {}
  /\ history = [taken |-> {}, accepted |-> {}, halted |-> {}, reported |-> {},
                ended |-> [s \in Sessions |-> [o \in RunOutcome |-> 0]]]
  /\ restarts = 0
  /\ stops = 0

EngineStep(s) ==
  \/ \E r \in RunIds, outcome \in EngineOutcomes : EngineFinishes(s, r, outcome)
  \/ EngineLost(s)

ProbeStep(p) ==
  \/ ReadsStatus(p)
  \/ ReadsEvidence(p)
  \/ ReadFails(p)
  \/ ObserverActs(p)
  \/ HintActs(p)
  \/ StartLooks(p)
  \/ StartDecides(p)
  \/ StartRereads(p)
  \/ StartConfirms(p)
  \/ StartReserves(p)

HandlerNext ==
  \/ \E s \in Sessions :
       \/ EngineStep(s)
       \/ ClockTicks(s)
       \/ \E p \in ObserverSlots : ObserverLooks(p, s)
       \/ \E p \in RequestSlots :
            \/ StartReads(p, s)
            \/ \E r \in RunIds, hint \in {"idle", "completed"} : ClientHints(p, s, r, hint)
       \/ \E r \in RunIds :
            \/ \E status \in ReportedStatus \ {"idle", "completed"} : ClientReports(s, r, status)
            \/ r \in RouteRuns /\ ProxyReserves(s, r)
            \/ \E c \in AbortCommands : StopRequested(s, r, c)
  \/ \E p \in Slots : ProbeStep(p)
  \/ \E t \in starts :
       \/ EngineTakes(t)
       \/ PromptAccepted(t)
       \/ PromptFailed(t)
       \/ ProxySettles(t)
  \/ \E t \in aborts : EngineAnswersAbort(t) \/ StopAccepted(t) \/ StopFailed(t)

ControlNext == HandlerNext \/ ServerRestarts

ControlSpec == ControlInit /\ [][ControlNext]_allVars

-----------------------------------------------------------------------------
(* Fairness.  The observer is a setInterval that never stops and every pass  *)
(* ends (its reads time out after five seconds); timers fire; a dispatched   *)
(* request is answered; the engine takes what it is sent, and its turns end. *)
(* A read of the observer may fail, not forever (SF).  Nothing is assumed of *)
(* clients: nobody has to start, stop, hint or report.                       *)

Fairness ==
  /\ \A s \in Sessions :
       /\ WF_allVars(ClockTicks(s))
       /\ \A r \in RunIds :
            WF_allVars(\E outcome \in EngineOutcomes : EngineFinishes(s, r, outcome))
       /\ \A p \in ObserverSlots : WF_allVars(ObserverLooks(p, s))
  /\ \A p \in Slots : WF_allVars(ProbeStep(p))
  /\ \A p \in ObserverSlots :
       /\ SF_allVars(ReadsStatus(p))
       /\ SF_allVars(ReadsEvidence(p))
  /\ \A t \in StartTicket :
       /\ WF_allVars(EngineTakes(t))
       /\ WF_allVars(PromptAccepted(t) \/ PromptFailed(t) \/ ProxySettles(t))
  /\ \A r \in RunIds :
       /\ WF_allVars(\E t \in aborts : t.run = r /\ EngineAnswersAbort(t))
       /\ WF_allVars(\E t \in aborts : t.run = r /\ (StopAccepted(t) \/ StopFailed(t)))

FairControlSpec == ControlSpec /\ Fairness

-----------------------------------------------------------------------------
(* Properties. *)

(* Every variable has its type. *)
ControlTypeOK ==
  /\ TypeOK
  /\ DOMAIN probe \subseteq Slots
  /\ \A p \in DOMAIN probe : probe[p] \in Probe
  /\ thread \in Slots \cup {NoRun}
  /\ engine \in [Sessions -> Engine]
  /\ stopped \subseteq aborts
  /\ proxied \subseteq RunIds
  /\ history \in History
  /\ restarts \in 0 .. MaxRestarts
  /\ stops \in 0 .. MaxStops

(* The durable outcome of a run is never invented: a run closed completed,   *)
(* failed or aborted has an assistant message created after its reservation  *)
(* that says so, or an abort the engine accepted (a run that a restart finds *)
(* aborting counts as such), or a client that reported failed or aborted.    *)
(* No client can make a run completed.  The message is read in one step and  *)
(* the row closed in a later one, by whichever of the observer, a hint or a  *)
(* start got there, while the run is aborted, rolled back, replaced or       *)
(* restored in between.                                                      *)
OutcomeHasEvidence ==
  \A r \in DOMAIN rows :
    rows[r].reason \in RunOutcome =>
      \/ history.ended[rows[r].session][rows[r].reason] >= rows[r].gen
      \/ rows[r].reason = "aborted" /\ r \in history.halted
      \/ rows[r].reason \in {"failed", "aborted"} /\ r \in history.reported

(* No two prompts are live in one session of the engine: a start is admitted *)
(* only when the prompt of every earlier run of the session has ended.       *)
OneLivePrompt == \A s \in Sessions : Cardinality(engine[s].pending) <= 1

(* A run whose prompt the engine took and that left starting is settled,     *)
(* with no client looking at it, whether it is stopped, its reads fail or    *)
(* the server restarts.                                                      *)
AcceptedRunsSettle ==
  \A s \in Sessions, r \in RunIds :
    (Holds(s, r) /\ runs[s].status # "starting" /\ r \in history.taken) ~> ~ Holds(s, r)
=============================================================================
