------------------------ MODULE SessionControlProofs ------------------------
(***************************************************************************)
(* Theorems about the run routes, the observer, the proxy and the engine,  *)
(* composed with the coordinator and its journal; for every set of         *)
(* sessions, runs and handlers and every bound.                            *)
(*                                                                         *)
(* A handler acts on what it read some awaits ago.  Each argument is about *)
(* what a probe carries that stays true while everything else moves on.    *)
(***************************************************************************)
EXTENDS SessionControl, RunLifecycleProofs, FiniteSetTheorems

-----------------------------------------------------------------------------
(* Types. *)

(* The control's share of the types. *)
ProbesTyped ==
  /\ DOMAIN probe \subseteq Slots
  /\ \A p \in DOMAIN probe : probe[p] \in Probe

ControlOK ==
  /\ ProbesTyped
  /\ thread \in Slots \cup {NoRun}
  /\ engine \in [Sessions -> Engine]
  /\ stopped \subseteq aborts
  /\ proxied \subseteq RunIds
  /\ history \in History
  /\ restarts \in 0 .. MaxRestarts
  /\ stops \in 0 .. MaxStops

(* What a probe is about: a start at its first or last step, nothing yet or *)
(* no more; otherwise a run that was reserved, in that run's session.       *)
ProbesNameRuns ==
  \A p \in DOMAIN probe :
    \/ probe[p].kind = "start" /\ probe[p].at \in {"status", "reserve"}
    \/ /\ probe[p].run \in DOMAIN rows
       /\ rows[probe[p].run].session = probe[p].session

(* Who dispatches a prompt does it for a run that was reserved. *)
TicketsNameRuns == \A t \in starts : t.run \in DOMAIN rows

(* What handlers rely on: what they read is typed, what they name exists.   *)
EvidenceTyped == \A s \in Sessions : engine[s].evidence \in RunOutcome \cup {"null"}

Core == Inv /\ ProbesTyped /\ ProbesNameRuns /\ TicketsNameRuns /\ EvidenceTyped

Base == Core /\ ControlOK

-----------------------------------------------------------------------------
(* Evidence. *)

(* What is recorded of the messages of a session's turns. *)
EngineRecorded ==
  \A s \in Sessions :
    /\ \A o \in RunOutcome : history.ended[s][o] <= engine[s].stamp
    /\ engine[s].evidence # "null" => history.ended[s][engine[s].evidence] = engine[s].stamp

(* The session has had a message with outcome o created after r's reservation. *)
Ended(s, r, o) == history.ended[s][o] >= rows[r].gen

(* What a probe has seen, has been. *)
ProbesSaw ==
  \A p \in DOMAIN probe :
    /\ probe[p].evidence # "null" =>
         /\ probe[p].at = "evidence"
         /\ Ended(probe[p].session, probe[p].run, probe[p].evidence)
    /\ probe[p].at \in {"wait", "second"} => Ended(probe[p].session, probe[p].run, "completed")

(* An abort counts as accepted when the engine accepted one. *)
AbortsHalted ==
  /\ \A t \in stopped : t.run \in history.halted
  /\ \A s \in DOMAIN runs : runs[s].abortAccepted => runs[s].id \in history.halted

(* A pass that saw the run aborting settles it without a message: by then an *)
(* idle sample of a run that goes on has a message behind it.                *)
SamplesSeen ==
  \A p \in DOMAIN probe :
    probe[p].aborting =>
      /\ p \in ObserverSlots
      /\ LET s == probe[p].session
             r == probe[p].run
         IN  Holds(s, r) /\ runs[s].status # "aborting" /\ runs[s].idle # "null"
               => Ended(s, r, "completed")

EvidenceOK ==
  EngineRecorded /\ ProbesSaw /\ AbortsHalted /\ SamplesSeen /\ OutcomeHasEvidence

(* The interval of the observer does not begin a pass while one is in       *)
(* progress.  The code does not see to it; see the README.                  *)
OneObserverPass == \A p, q \in ObserverSlots : p = q

-----------------------------------------------------------------------------
(* Prompts. *)

(* Nothing is lost on the way, no client reports how a run ended and nobody *)
(* stops one.                                                               *)
Undisturbed == MaxStops = 0 /\ Environment \cap {"lost_response", "client_report"} = {}

NobodyStops ==
  /\ aborts = {}
  /\ \A s \in DOMAIN runs : runs[s].status # "aborting"
  /\ \A p \in DOMAIN probe : ~ probe[p].aborting

(* The engine took r's prompt and is not working on it any more. *)
Through(s, r) == r \in history.taken \ engine[s].pending

(* The engine works for the active run only. *)
WorksForActive ==
  \A s \in Sessions : \A r \in engine[s].pending : r \in history.taken /\ Holds(s, r)

(* A prompt is sent once, and until it is taken its run is the session's. *)
SendersHold ==
  /\ \A t, u \in starts : t.run = u.run => t = u
  /\ \A t \in starts : t.run \in history.taken \/ Holds(t.session, t.run)
  /\ history.taken \subseteq DOMAIN rows

(* A message after the active run's reservation is one of its own turn. *)
EvidenceIsOwn ==
  /\ \A s \in Sessions : engine[s].stamp <= generation
  /\ \A s \in DOMAIN runs : engine[s].stamp >= runs[s].gen => Through(s, runs[s].id)

(* What a probe has seen is of a turn that is over. *)
ProbesSawEnd ==
  \A p \in DOMAIN probe :
    /\ probe[p].evidence # "null" \/ probe[p].at \in {"wait", "second"}
    /\ Holds(probe[p].session, probe[p].run)
    => Through(probe[p].session, probe[p].run)

PromptOK == NobodyStops /\ WorksForActive /\ SendersHold /\ EvidenceIsOwn /\ ProbesSawEnd

-----------------------------------------------------------------------------
(* What the handlers and requests do to coordinator and journal. *)

(* An operation that a handler calls without a request of its own. *)
Observes ==
  /\ \E s \in Sessions, r \in RunIds :
       \/ \E status \in ReportedStatus : Observe(s, r, status)
       \/ ReconcileAuthoritativeIdle(s, r)
  /\ UNCHANGED RequestVars

Acts == [Next]_vars \/ Observes

(* It keeps the invariant of the coordinator and is of one of the classes. *)
LEMMA ActsKeep ==
  ASSUME Inv, Acts
  PROVE  Inv' /\ Step
<1>1. CASE [Next]_vars
  BY <1>1, NextInv, Steps
<1>2. CASE Observes
  <2>1. StateOK' /\ Step
    BY <1>2, ObserveKeeps, ReconcileKeeps, ObserveSteps, ReconcileSteps DEF Observes, Inv
  <2> QED BY <1>2, <2>1 DEF Observes, RequestVars, TicketsOK, Inv
<1> QED BY <1>1, <1>2 DEF Acts

(* The shapes in which handlers call the coordinator. *)
LEMMA QuietActs == ASSUME Quiet PROVE Acts
BY DEF Quiet, NoChange, RequestVars, Acts, vars, journalVars

LEMMA ActivityActs ==
  ASSUME NEW s \in Sessions, NEW r \in RunIds, NEW status \in EngineActivity,
         ObserveActivity(s, r, status), UNCHANGED RequestVars
  PROVE  Acts
<1>1. status \in ReportedStatus /\ status \in ActiveStatus /\ status \notin RunOutcome /\ status # "idle"
  BY ActivityAssumption DEF ReportedStatus, ActiveStatus, RunOutcome
<1>2. Observe(s, r, status)
  BY <1>1 DEF Observe
<1> QED BY <1>1, <1>2 DEF Acts, Observes

LEMMA IdleActs ==
  ASSUME NEW s \in Sessions, NEW r \in RunIds, ObserveIdle(s, r), UNCHANGED RequestVars
  PROVE  Acts
<1>1. "idle" \notin RunOutcome /\ "idle" \notin ActiveStatus
  BY DEF RunOutcome, ActiveStatus
<1>2. Observe(s, r, "idle")
  BY <1>1 DEF Observe
<1> QED BY <1>2 DEF Acts, Observes, ReportedStatus

LEMMA TerminalActs ==
  ASSUME NEW s \in Sessions, NEW r \in RunIds, NEW outcome \in RunOutcome,
         ObserveTerminal(s, r, outcome), UNCHANGED RequestVars
  PROVE  Acts
<1>1. outcome # "idle" /\ outcome \notin ActiveStatus
  BY DEF RunOutcome, ActiveStatus
<1>2. Observe(s, r, outcome)
  BY <1>1 DEF Observe
<1> QED BY <1>2 DEF Acts, Observes, ReportedStatus

LEMMA ReconcileActs ==
  ASSUME NEW s \in Sessions, NEW r \in RunIds,
         ReconcileAuthoritativeIdle(s, r), UNCHANGED RequestVars
  PROVE  Acts
BY DEF Acts, Observes

LEMMA ReservesActs ==
  ASSUME NEW p, NEW s \in Sessions, Reserves(p, s)
  PROVE  Acts
<1>1. CASE \E r \in RouteRuns : BeginStart(s, r)
  BY <1>1, RouteAssumption DEF Acts, Next
<1>2. CASE BeginStartFails(s)
  BY <1>2 DEF Acts, Next
<1>3. CASE Quiet
  BY <1>3, QuietActs
<1> QED BY <1>1, <1>2, <1>3 DEF Reserves

(* A probe is typed, and where it names a run the run is one. *)
LEMMA ProbeFacts ==
  ASSUME Core, NEW p \in DOMAIN probe
  PROVE  /\ p \in Slots /\ probe[p] \in Probe /\ probe[p].session \in Sessions
         /\ probe[p].kind # "start" \/ probe[p].at \notin {"status", "reserve"}
            => /\ probe[p].run \in DOMAIN rows /\ probe[p].run \in RunIds
               /\ rows[probe[p].run].session = probe[p].session
BY DEF Core, ProbesTyped, ProbesNameRuns, Probe, Inv, StateOK, JournalTypeOK

(* Every step of the control calls the coordinator in one of these shapes. *)
LEMMA ControlActs ==
  ASSUME Core, [ControlNext]_allVars
  PROVE  Acts
<1>1. ASSUME NEW s \in Sessions, EngineStep(s) \/ ClockTicks(s)
      PROVE  Acts
  BY <1>1 DEF EngineStep, EngineFinishes, EngineLost, ClockTicks, Acts, Next
<1>2. ASSUME NEW s \in Sessions, NEW p, ObserverLooks(p, s) \/ StartReads(p, s)
      PROVE  Acts
  BY <1>2, QuietActs DEF ObserverLooks, StartReads
<1>3. ASSUME NEW s \in Sessions, NEW p, NEW r \in RunIds, NEW hint, ClientHints(p, s, r, hint)
      PROVE  Acts
  BY <1>3, QuietActs, IdleActs DEF ClientHints
<1>4. ASSUME NEW s \in Sessions, NEW r \in RunIds, NEW status \in ReportedStatus, ClientReports(s, r, status)
      PROVE  Acts
  BY <1>4 DEF ClientReports, Acts, Observes
<1>5. ASSUME NEW s \in Sessions, NEW r \in RunIds, ProxyReserves(s, r)
      PROVE  Acts
  BY <1>5 DEF ProxyReserves, Acts, Next
<1>6. ASSUME NEW s \in Sessions, NEW r \in RunIds, NEW c \in AbortCommands, StopRequested(s, r, c)
      PROVE  Acts
  BY <1>6 DEF StopRequested, Acts, Next
<1>7. ASSUME NEW p \in Slots, ProbeStep(p)
      PROVE  Acts
  <2>1. p \in DOMAIN probe
    BY <1>7 DEF ProbeStep, ReadsStatus, ReadsEvidence, ReadFails, ObserverActs, HintActs,
         StartLooks, StartDecides, StartRereads, StartConfirms, StartReserves, At
  <2> DEFINE q == probe[p]
  <2>2. /\ q \in Probe /\ q.session \in Sessions
        /\ q.kind # "start" \/ q.at \notin {"status", "reserve"} => q.run \in RunIds
    BY <2>1, ProbeFacts
  <2>3. q.status = "idle" \/ q.status \in EngineActivity
    BY <2>2 DEF Probe
  <2>4. CASE ReadsStatus(p) \/ ReadsEvidence(p) \/ ReadFails(p) \/ StartRereads(p)
    BY <2>4, QuietActs DEF ReadsStatus, ReadsEvidence, ReadFails, StartRereads
  <2>5. CASE ObserverActs(p)
    <3>1. q.run \in RunIds
      BY <2>2, <2>5 DEF ObserverActs, At
    <3>2. UNCHANGED RequestVars
      BY <2>5 DEF ObserverActs
    <3>3. \/ q.status # "idle" /\ ObserveActivity(q.session, q.run, q.status)
          \/ q.evidence \in {"failed", "aborted"} /\ ObserveTerminal(q.session, q.run, q.evidence)
          \/ ReconcileAuthoritativeIdle(q.session, q.run)
          \/ Quiet
      BY <2>5 DEF ObserverActs, Quiet
    <3> QED BY <3>1, <3>2, <3>3, <2>2, <2>3, ActivityActs, TerminalActs, ReconcileActs, QuietActs
            DEF RunOutcome
  <2>6. CASE HintActs(p)
    <3>1. q.run \in RunIds
      BY <2>2, <2>6 DEF HintActs, At
    <3>2. UNCHANGED RequestVars
      BY <2>6 DEF HintActs
    <3>3. \/ q.status # "idle" /\ ObserveActivity(q.session, q.run, q.status)
          \/ \E o \in RunOutcome : ObserveTerminal(q.session, q.run, o)
          \/ ReconcileAuthoritativeIdle(q.session, q.run)
          \/ Quiet
      BY <2>6 DEF HintActs, Quiet, RunOutcome
    <3> QED BY <3>1, <3>2, <3>3, <2>2, <2>3, ActivityActs, TerminalActs, ReconcileActs, QuietActs
  <2>7. CASE StartLooks(p)
    <3>1. ASSUME q.session \in DOMAIN runs PROVE runs[q.session].id \in RunIds
      BY <3>1, MirroredRun DEF Base, Core, Inv, Run
    <3>2. \/ Quiet
          \/ /\ q.session \in DOMAIN runs /\ UNCHANGED RequestVars
             /\ ReconcileAuthoritativeIdle(q.session, runs[q.session].id)
          \/ Reserves(p, q.session)
          \/ /\ q.session \in DOMAIN runs /\ UNCHANGED RequestVars /\ q.status # "idle"
             /\ ObserveActivity(q.session, runs[q.session].id, q.status)
      BY <2>7 DEF StartLooks, ReservesNext, Quiet
    <3> QED BY <3>1, <3>2, <2>2, <2>3, ActivityActs, ReconcileActs, QuietActs, ReservesActs
  <2>8. CASE StartDecides(p)
    <3>1. q.run \in RunIds
      BY <2>2, <2>8 DEF StartDecides, At
    <3>2. \/ /\ UNCHANGED RequestVars
             /\ \/ \E o \in RunOutcome : ObserveTerminal(q.session, q.run, o)
                \/ ReconcileAuthoritativeIdle(q.session, q.run)
          \/ Reserves(p, q.session)
      BY <2>8 DEF StartDecides, ReservesNext, RunOutcome
    <3> QED BY <3>1, <3>2, <2>2, TerminalActs, ReconcileActs, ReservesActs
  <2>9. CASE StartConfirms(p)
    <3>1. q.run \in RunIds
      BY <2>2, <2>9 DEF StartConfirms, At
    <3>2. \/ /\ UNCHANGED RequestVars
             /\ \/ q.status # "idle" /\ ObserveActivity(q.session, q.run, q.status)
                \/ ReconcileAuthoritativeIdle(q.session, q.run)
          \/ Reserves(p, q.session)
      BY <2>9 DEF StartConfirms, ReservesNext
    <3> QED BY <3>1, <3>2, <2>2, <2>3, ActivityActs, ReconcileActs, ReservesActs
  <2>10. CASE StartReserves(p)
    BY <2>10, <2>2, ReservesActs DEF StartReserves
  <2> QED BY <1>7, <2>4, <2>5, <2>6, <2>7, <2>8, <2>9, <2>10 DEF ProbeStep
<1>8. ASSUME NEW t \in starts, EngineTakes(t) \/ PromptAccepted(t) \/ PromptFailed(t) \/ ProxySettles(t)
      PROVE  Acts
  BY <1>8 DEF EngineTakes, PromptAccepted, PromptFailed, ProxySettles, Acts, Next
<1>9. ASSUME NEW t \in aborts, EngineAnswersAbort(t) \/ StopAccepted(t) \/ StopFailed(t)
      PROVE  Acts
  BY <1>9 DEF EngineAnswersAbort, StopAccepted, StopFailed, Acts, Next
<1>10. CASE ServerRestarts
  BY <1>10 DEF ServerRestarts, Acts, Next
<1>11. CASE UNCHANGED allVars
  BY <1>11 DEF allVars, Acts
<1> QED BY <1>1, <1>2, <1>3, <1>4, <1>5, <1>6, <1>7, <1>8, <1>9, <1>10, <1>11
        DEF ControlNext, HandlerNext

-----------------------------------------------------------------------------
(* Types are kept. *)

(* A row keeps its session and its fence, and its reason once it has one. *)
RowStays(r) ==
  /\ r \in DOMAIN rows'
  /\ rows'[r].session = rows[r].session
  /\ rows'[r].gen = rows[r].gen
  /\ rows[r].reason = "null" \/ rows'[r].reason = rows[r].reason

LEMMA RowsStay ==
  ASSUME StateOK, Step
  PROVE  \A r \in DOMAIN rows : RowStays(r)
<1>1. CASE Progresses
  BY <1>1 DEF Progresses, SameRows, SameRow, RowStays
<1>2. ASSUME NEW s \in DOMAIN runs, NEW reason \in Ending, Closes(s, reason)
      PROVE  \A r \in DOMAIN rows : RowStays(r)
  <2>1. rows[runs[s].id].reason = "null"
    BY MirroredRun
  <2> QED BY <1>2, <2>1 DEF Closes, SameRow, RowStays
<1>3. ASSUME NEW s \in Sessions, NEW r \in RunIds, Opens(s, r)
      PROVE  \A q \in DOMAIN rows : RowStays(q)
  BY <1>3 DEF Opens, RowStays
<1> QED BY <1>1, <1>2, <1>3 DEF Step

(* A probe of these is well typed and names a reserved run. *)
Sound(q) ==
  /\ q \in Probe
  /\ \/ q.kind = "start" /\ q.at \in {"status", "reserve"}
     \/ q.run \in DOMAIN rows /\ rows[q.run].session = q.session

ProbesSound == ProbesTyped /\ ProbesNameRuns

LEMMA SoundProbe ==
  ASSUME Core, NEW p \in DOMAIN probe
  PROVE  p \in Slots /\ Sound(probe[p])
BY DEF Core, ProbesTyped, ProbesNameRuns, Sound

(* Probes stay sound when sound ones are put in and others taken out. *)
LEMMA ProbesPut ==
  ASSUME Core, Step, NEW p \in Slots, NEW q, Sound(q), probe' = Put(probe, p, q)
  PROVE  ProbesSound'
<1>1. \A r \in DOMAIN rows : RowStays(r)
  BY RowsStay DEF Base, Core, Inv
<1>2. /\ DOMAIN probe' = DOMAIN probe \cup {p} /\ probe'[p] = q
      /\ \A x \in DOMAIN probe : x # p => probe'[x] = probe[x]
  BY DEF Put
<1>3. \A x \in DOMAIN probe' : x \in Slots /\ Sound(probe'[x])
  BY <1>2, SoundProbe
<1> QED BY <1>1, <1>3 DEF ProbesSound, ProbesTyped, ProbesNameRuns, Sound, RowStays

LEMMA ProbesDrop ==
  ASSUME Core, Step, NEW p, probe' = Drop(probe, p) \/ probe' = probe \/ DOMAIN probe' = {}
  PROVE  ProbesSound'
<1>1. \A r \in DOMAIN rows : RowStays(r)
  BY RowsStay DEF Base, Core, Inv
<1>2. \A x \in DOMAIN probe' : x \in DOMAIN probe /\ probe'[x] = probe[x]
  BY DEF Drop
<1>3. \A x \in DOMAIN probe' : x \in Slots /\ Sound(probe'[x])
  BY <1>2, SoundProbe
<1> QED BY <1>1, <1>3 DEF ProbesSound, ProbesTyped, ProbesNameRuns, Sound, RowStays

(* The run of a session is one a probe may name. *)
LEMMA SoundAsk ==
  ASSUME Core, NEW kind \in Kinds, NEW s \in Sessions, NEW r \in RunIds \cup {NoRun},
         NEW at \in {"asking", "status", "evidence", "wait", "second", "reserve"}
  PROVE  /\ Ask(kind, at, s, r) \in Probe
         /\ Holds(s, r) => Sound(Ask(kind, at, s, r))
         /\ kind = "start" /\ at \in {"status", "reserve"} => Sound(Ask(kind, at, s, r))
<1>1. Ask(kind, at, s, r) \in Probe
  BY DEF Ask, Probe
<1>2. Holds(s, r) => r \in DOMAIN rows /\ rows[r].session = s
  BY MirroredRun DEF Holds, Base, Core, Inv
<1> QED BY <1>1, <1>2 DEF Ask, Sound

(* What a handler may read of the engine. *)
LEMMA Readings ==
  ASSUME Core, NEW s \in Sessions, NEW r \in DOMAIN rows
  PROVE  /\ StatusRead(s) \subseteq EngineActivity \cup {"idle"}
         /\ EvidenceRead(s, r) \in RunOutcome \cup {"null"}
BY DEF StatusRead, EvidenceRead, Core, EvidenceTyped

(* Probes are sound after every step. *)
LEMMA ProbesKept ==
  ASSUME Core, [ControlNext]_allVars
  PROVE  ProbesSound'
<1> USE DEF Slots, Kinds
<1>0. Inv' /\ Step
  BY ControlActs, ActsKeep DEF Core
<1>1. CASE UNCHANGED probe
  BY <1>0, <1>1, ProbesDrop
<1>2. CASE ServerRestarts
  BY <1>0, <1>2, ProbesDrop DEF ServerRestarts
<1>3. ASSUME NEW s \in Sessions, NEW p \in Slots, ObserverLooks(p, s)
      PROVE  ProbesSound'
  <2> DEFINE ask == Ask("observer", "asking", s, runs[s].id)
             q == [ask EXCEPT !.aborting = runs[s].status = "aborting"]
  <2>1. s \in DOMAIN runs /\ runs[s].id \in RunIds
    BY <1>3, MirroredRun DEF ObserverLooks, Base, Core, Inv, Run
  <2>2. Sound(ask)
    BY <2>1, SoundAsk DEF Holds
  <2>3. Sound(q)
    BY <2>2 DEF Sound, Probe
  <2> HIDE DEF q
  <2>4. probe' = Put(probe, p, q)
    BY <1>3 DEF ObserverLooks, Move, q
  <2> QED BY <1>0, <2>3, <2>4, ProbesPut
<1>4. ASSUME NEW s \in Sessions, NEW p \in Slots, StartReads(p, s)
      PROVE  ProbesSound'
  <2> DEFINE ask == Ask("start", "status", s, NoRun)
  <2>1. Sound(ask)
    BY SoundAsk
  <2>2. StatusRead(s) \subseteq EngineActivity \cup {"idle"}
    BY DEF StatusRead
  <2> HIDE DEF ask
  <2>3. PICK v \in EngineActivity \cup {"idle"} : probe' = Put(probe, p, [ask EXCEPT !.status = v])
    BY <1>4, <2>2 DEF StartReads, Move, ask
  <2>4. Sound([ask EXCEPT !.status = v])
    BY <2>1 DEF Sound, Probe
  <2> QED BY <1>0, <2>3, <2>4, ProbesPut
<1>5. ASSUME NEW s \in Sessions, NEW p \in Slots, NEW r \in RunIds, NEW hint \in {"idle", "completed"},
             ClientHints(p, s, r, hint)
      PROVE  ProbesSound'
  <2> DEFINE ask == Ask(hint, "asking", s, r)
  <2>1. Holds(s, r) /\ (probe' = probe \/ probe' = Put(probe, p, ask))
    <3> HIDE DEF ask
    <3>1. \/ UNCHANGED <<RequestVars, probe, thread>>
          \/ Move(p, ask)
      BY <1>5 DEF ClientHints, ask
    <3> QED BY <1>5, <3>1 DEF ClientHints, Move
  <2>2. Holds(s, r) => Sound(Ask(hint, "asking", s, r))
    BY SoundAsk
  <2> QED BY <1>0, <2>1, <2>2, ProbesPut, ProbesDrop
<1>6. ASSUME NEW p \in Slots, ProbeStep(p)
      PROVE  ProbesSound'
  <2> DEFINE q == probe[p]
             s == q.session
  <2>1. p \in DOMAIN probe
    BY <1>6 DEF ProbeStep, ReadsStatus, ReadsEvidence, ReadFails, ObserverActs, HintActs,
         StartLooks, StartDecides, StartRereads, StartConfirms, StartReserves, At
  <2>2. /\ Sound(q) /\ q \in Probe /\ s \in Sessions
        /\ q.kind # "start" \/ q.at \notin {"status", "reserve"}
           => q.run \in DOMAIN rows /\ q.run \in RunIds
    BY <2>1, SoundProbe, ProbeFacts
  <2>3. CASE probe' = Drop(probe, p)
    BY <1>0, <2>3, ProbesDrop
  <2>4. CASE \E ask : Sound(ask) /\ probe' = Put(probe, p, ask)
    BY <1>0, <2>4, ProbesPut
  <2>5. CASE ReadsStatus(p)
    <3>1. StatusRead(s) \subseteq EngineActivity \cup {"idle"}
      BY DEF StatusRead
    <3>2. PICK v \in EngineActivity \cup {"idle"} :
            probe' = Put(probe, p, [q EXCEPT !.at = "status", !.status = v])
      BY <2>5, <3>1 DEF ReadsStatus, Move
    <3>3. Sound([q EXCEPT !.at = "status", !.status = v])
      BY <2>2 DEF Sound, Probe
    <3> QED BY <3>2, <3>3, <2>4
  <2>6. CASE ReadsEvidence(p)
    <3>1. EvidenceRead(s, q.run) \in RunOutcome \cup {"null"} /\ q.kind # "start"
      BY <2>2, <2>6, Readings DEF ReadsEvidence, At
    <3>2. probe' = Put(probe, p, [q EXCEPT !.at = "evidence", !.evidence = EvidenceRead(s, q.run)])
      BY <2>6 DEF ReadsEvidence, Move
    <3>3. Sound([q EXCEPT !.at = "evidence", !.evidence = EvidenceRead(s, q.run)])
      BY <2>2, <3>1 DEF Sound, Probe
    <3> QED BY <3>2, <3>3, <2>4
  <2>7. CASE StartRereads(p)
    <3>1. StatusRead(s) \subseteq EngineActivity \cup {"idle"}
      BY DEF StatusRead
    <3>2. PICK v \in EngineActivity \cup {"idle"} :
            probe' = Put(probe, p, [q EXCEPT !.at = "second", !.status = v])
      BY <2>7, <3>1 DEF StartRereads, Move
    <3>3. q.at = "wait"
      BY <2>7 DEF StartRereads, At
    <3>4. Sound([q EXCEPT !.at = "second", !.status = v])
      BY <2>2, <3>3 DEF Sound, Probe
    <3> QED BY <3>2, <3>4, <2>4
  <2>8. CASE ReadFails(p) \/ ObserverActs(p) \/ HintActs(p) \/ StartReserves(p)
    <3>1. probe' = Drop(probe, p)
      BY <2>8 DEF ReadFails, ObserverActs, HintActs, StartReserves, Reserves, End
    <3> QED BY <3>1, <2>3
  <2>9. Sound(Ask("start", "reserve", s, NoRun))
    BY <2>2, SoundAsk
  <2>10. CASE StartLooks(p)
    <3>1. \/ probe' = Drop(probe, p)
          \/ probe' = Put(probe, p, Ask("start", "reserve", s, NoRun))
          \/ /\ s \in DOMAIN runs
             /\ \E e \in {EvidenceRead(s, runs[s].id), "null"} :
                  probe' = Put(probe, p, [Ask("start", "evidence", s, runs[s].id) EXCEPT !.evidence = e])
      BY <2>10 DEF StartLooks, Reserves, ReservesNext, End, Move, GoOn
    <3>2. ASSUME s \in DOMAIN runs, NEW e \in {EvidenceRead(s, runs[s].id), "null"}
          PROVE  Sound([Ask("start", "evidence", s, runs[s].id) EXCEPT !.evidence = e])
      <4>1. runs[s].id \in RunIds /\ runs[s].id \in DOMAIN rows
        BY <3>2, MirroredRun DEF Base, Core, Inv, Run
      <4>2. Sound(Ask("start", "evidence", s, runs[s].id)) /\ e \in RunOutcome \cup {"null"}
        BY <2>2, <3>2, <4>1, SoundAsk, Readings DEF Holds
      <4> QED BY <4>2 DEF Sound, Probe
    <3> QED BY <3>1, <3>2, <2>3, <2>4, <2>9
  <2>11. CASE StartDecides(p)
    <3>1. \/ probe' = Drop(probe, p)
          \/ probe' = Put(probe, p, Ask("start", "reserve", s, NoRun))
          \/ probe' = Put(probe, p, Ask("start", "wait", s, q.run)) /\ Holds(s, q.run)
      BY <2>11 DEF StartDecides, Reserves, ReservesNext, End, Move, GoOn, Unconfirmed
    <3>2. Holds(s, q.run) => Sound(Ask("start", "wait", s, q.run))
      BY <2>2, <2>11, SoundAsk DEF StartDecides, At
    <3> QED BY <3>1, <3>2, <2>3, <2>4, <2>9
  <2>12. CASE StartConfirms(p)
    <3>1. \/ probe' = Drop(probe, p)
          \/ probe' = Put(probe, p, Ask("start", "reserve", s, NoRun))
      BY <2>12 DEF StartConfirms, Reserves, ReservesNext, End, Move, GoOn
    <3> QED BY <3>1, <2>3, <2>4, <2>9
  <2> QED BY <1>6, <2>5, <2>6, <2>7, <2>8, <2>10, <2>11, <2>12 DEF ProbeStep
<1>7. ASSUME NEW s \in Sessions,
             \/ EngineStep(s) \/ ClockTicks(s)
             \/ \E r \in RunIds, status \in ReportedStatus : ClientReports(s, r, status)
             \/ \E r \in RunIds : ProxyReserves(s, r)
             \/ \E r \in RunIds, c \in AbortCommands : StopRequested(s, r, c)
      PROVE  UNCHANGED probe
  BY <1>7 DEF EngineStep, EngineFinishes, EngineLost, ClockTicks, controlVars, ClientReports,
              ProxyReserves, StopRequested
<1>8. ASSUME NEW t, \/ EngineTakes(t) \/ PromptAccepted(t) \/ PromptFailed(t) \/ ProxySettles(t)
                    \/ EngineAnswersAbort(t) \/ StopAccepted(t) \/ StopFailed(t)
      PROVE  UNCHANGED probe
  BY <1>8 DEF EngineTakes, PromptAccepted, PromptFailed, ProxySettles, EngineAnswersAbort,
              StopAccepted, StopFailed, controlVars
<1>9. CASE UNCHANGED allVars
  BY <1>1, <1>9 DEF allVars, controlVars
<1> QED BY <1>1, <1>2, <1>3, <1>4, <1>5, <1>6, <1>7, <1>8, <1>9 DEF ControlNext, HandlerNext

(* A handler's step leaves the engine, the record of what happened and the  *)
(* bounds alone.                                                            *)
Handles(p) == thread' \in {p, NoRun, thread} /\ OnlyHandler

LEMMA ProbeStepHandles ==
  ASSUME NEW p, ProbeStep(p)
  PROVE  Handles(p) /\ p \in DOMAIN probe
BY DEF ProbeStep, ReadsStatus, ReadsEvidence, ReadFails, ObserverActs, HintActs, StartLooks,
       StartDecides, StartRereads, StartConfirms, StartReserves, Reserves, ReservesNext,
       End, Move, GoOn, Handles, At

(* The rest of the types, step by step. *)
LEMMA ControlKept ==
  ASSUME Base, [ControlNext]_allVars
  PROVE  ControlOK'
<1> USE DEF ControlOK
<1>0. ProbesTyped' /\ ControlOK /\ TicketsOK
  BY ProbesKept DEF ProbesSound, Base, Core, Inv
<1>1. ASSUME NEW p \in Slots, Handles(p), UNCHANGED aborts
      PROVE  ControlOK'
  BY <1>0, <1>1 DEF Handles, OnlyHandler, externalVars
<1>2. ASSUME NEW p, ProbeStep(p) PROVE UNCHANGED aborts
  BY <1>2 DEF ProbeStep, ReadsStatus, ReadsEvidence, ReadFails, ObserverActs, HintActs, StartLooks,
       StartDecides, StartRereads, StartConfirms, StartReserves, Reserves, ReservesNext,
       Quiet, RequestVars, BeginStart, BeginStartFails
<1>3. ASSUME NEW s \in Sessions, NEW p \in Slots,
             \/ ObserverLooks(p, s) \/ StartReads(p, s)
             \/ \E r \in RunIds, hint \in {"idle", "completed"} : ClientHints(p, s, r, hint)
      PROVE  ControlOK'
  <2>1. Handles(p)
    BY <1>3 DEF ObserverLooks, StartReads, ClientHints, Handles, Move
  <2>2. UNCHANGED aborts
    BY <1>3 DEF ObserverLooks, StartReads, ClientHints, Quiet, RequestVars
  <2> QED BY <1>1, <2>1, <2>2
<1>4. ASSUME NEW s \in Sessions, NEW r \in RunIds, NEW outcome \in RunOutcome, EngineFinishes(s, r, outcome)
      PROVE  ControlOK'
  <2>1. PICK stamp \in rows[r].gen .. generation :
          /\ stamp >= engine[s].stamp
          /\ engine' = [engine EXCEPT ![s] =
               [pending |-> @.pending \ {r}, stamp |-> stamp, evidence |-> outcome]]
          /\ history' = [history EXCEPT !.ended[s][outcome] = stamp]
    BY <1>4 DEF EngineFinishes
  <2>2. engine[s] \in Engine /\ stamp \in Nat
    BY <1>0, <2>1 DEF Engine
  <2>3. engine' \in [Sessions -> Engine]
    BY <1>0, <2>1, <2>2 DEF Engine
  <2>4. [history.ended[s] EXCEPT ![outcome] = stamp] \in [RunOutcome -> Nat]
    BY <1>0, <2>2 DEF History
  <2>5. [history.ended EXCEPT ![s] = [history.ended[s] EXCEPT ![outcome] = stamp]]
          \in [Sessions -> [RunOutcome -> Nat]]
    BY <1>0, <2>4 DEF History
  <2>6. history' \in History
    BY <1>0, <2>1, <2>5 DEF History
  <2> QED BY <1>0, <1>4, <2>3, <2>6 DEF EngineFinishes, vars
<1>5. ASSUME NEW s \in Sessions, EngineLost(s) \/ ClockTicks(s)
      PROVE  ControlOK'
  <2>1. engine' \in [Sessions -> Engine]
    BY <1>0, <1>5 DEF EngineLost, ClockTicks, controlVars, externalVars, Engine
  <2> QED BY <1>0, <1>5, <2>1 DEF EngineLost, ClockTicks, TimePasses, RequestVars, controlVars, externalVars, vars
<1>6. ASSUME NEW s \in Sessions, NEW r \in RunIds, NEW status \in ReportedStatus, ClientReports(s, r, status)
      PROVE  ControlOK'
  <2>1. history' \in History
    BY <1>0, <1>6 DEF ClientReports, History
  <2> QED BY <1>0, <1>6, <2>1 DEF ClientReports, RequestVars
<1>7. ASSUME NEW s \in Sessions, NEW r \in RunIds, ProxyReserves(s, r)
      PROVE  ControlOK'
  BY <1>0, <1>7 DEF ProxyReserves, BeginStart
<1>8. ASSUME NEW s \in Sessions, NEW r \in RunIds, NEW c \in AbortCommands, StopRequested(s, r, c)
      PROVE  ControlOK'
  BY <1>0, <1>8, BoundAssumption DEF StopRequested, BeginAbort, externalVars
<1>9. ASSUME NEW t \in starts, EngineTakes(t)
      PROVE  ControlOK'
  <2>1. t.session \in Sessions /\ t.run \in RunIds
    BY <1>0 DEF TicketsOK, StartTicket
  <2>2. history' \in History
    BY <1>0, <1>9, <2>1 DEF EngineTakes, History
  <2>3. engine' \in [Sessions -> Engine]
    BY <1>0, <1>9, <2>1 DEF EngineTakes, Engine
  <2> QED BY <1>0, <1>9, <2>2, <2>3 DEF EngineTakes, vars
<1>10. ASSUME NEW t \in starts, PromptAccepted(t)
       PROVE  ControlOK'
  <2>1. t.run \in RunIds
    BY <1>0 DEF TicketsOK, StartTicket
  <2>2. history' \in History
    BY <1>0, <1>10, <2>1 DEF PromptAccepted, History
  <2> QED BY <1>0, <1>10, <2>2 DEF PromptAccepted, FinishStart
<1>11. ASSUME NEW t \in starts, PromptFailed(t) \/ ProxySettles(t)
       PROVE  ControlOK'
  BY <1>0, <1>11 DEF PromptFailed, ProxySettles, AbandonStart, controlVars, externalVars
<1>12. ASSUME NEW t \in aborts, EngineAnswersAbort(t)
       PROVE  ControlOK'
  <2>1. t.run \in RunIds
    BY <1>0 DEF TicketsOK, AbortTicket
  <2>2. history' \in History
    BY <1>0, <1>12, <2>1 DEF EngineAnswersAbort, History
  <2> QED BY <1>0, <1>12, <2>2 DEF EngineAnswersAbort, vars
<1>13. ASSUME NEW t \in aborts, StopAccepted(t) \/ StopFailed(t)
       PROVE  ControlOK'
  BY <1>0, <1>13 DEF StopAccepted, StopFailed, FinishAbort, AbandonAbort
<1>14. CASE ServerRestarts
  <2>1. OpenRuns \subseteq RunIds
    BY DEF OpenRuns, Base, Core, Inv, StateOK, JournalTypeOK
  <2>2. history' \in History
    BY <1>0, <1>14, <2>1 DEF ServerRestarts, History
  <2> QED BY <1>0, <1>14, <2>2, BoundAssumption DEF ServerRestarts, Restart
<1>15. CASE UNCHANGED allVars
  BY <1>0, <1>15 DEF allVars, vars, controlVars, externalVars
<1> QED
  BY <1>1, <1>2, <1>3, <1>4, <1>5, <1>6, <1>7, <1>8, <1>9, <1>10, <1>11, <1>12, <1>13, <1>14, <1>15,
     ProbeStepHandles, OutcomeAssumption DEF ControlNext, HandlerNext, EngineStep, Slots

(* A reservation writes the row of the run it makes a ticket for. *)
LEMMA TicketsKept ==
  ASSUME Core, [ControlNext]_allVars
  PROVE  TicketsNameRuns'
<1>0. Step /\ \A r \in DOMAIN rows : r \in DOMAIN rows'
  BY ControlActs, ActsKeep, RowsStay DEF Base, Core, Inv, RowStays
<1>1. CASE starts' \subseteq starts
  BY <1>0, <1>1 DEF Core, TicketsNameRuns
<1>2. ASSUME NEW s \in Sessions, NEW r \in RunIds, BeginStart(s, r)
      PROVE  TicketsNameRuns'
  <2>1. r \in DOMAIN rows' /\ starts' = starts \cup {[session |-> s, run |-> r]}
    BY <1>2, ReserveOpens DEF BeginStart, Base, Core, Inv, Opens
  <2> QED BY <1>0, <2>1 DEF Core, TicketsNameRuns
<1>3. ASSUME NEW p, NEW s \in Sessions, Reserves(p, s)
      PROVE  TicketsNameRuns'
  BY <1>1, <1>2, <1>3, RouteAssumption DEF Reserves, BeginStartFails, Quiet, RequestVars
<1>4. ASSUME NEW p \in Slots, ProbeStep(p)
      PROVE  TicketsNameRuns'
  <2>1. probe[p].session \in Sessions
    BY <1>4, ProbeStepHandles, ProbeFacts
  <2>2. UNCHANGED starts \/ Reserves(p, probe[p].session)
    BY <1>4 DEF ProbeStep, ReadsStatus, ReadsEvidence, ReadFails, ObserverActs, HintActs, StartLooks,
       StartDecides, StartRereads, StartConfirms, StartReserves, ReservesNext, Quiet, RequestVars
  <2> QED BY <1>1, <1>3, <2>1, <2>2
<1>5. ASSUME NEW s \in Sessions,
             \/ EngineStep(s) \/ ClockTicks(s)
             \/ \E p \in Slots : ObserverLooks(p, s) \/ StartReads(p, s)
             \/ \E p \in Slots, r \in RunIds, hint \in {"idle", "completed"} : ClientHints(p, s, r, hint)
             \/ \E r \in RunIds, status \in ReportedStatus : ClientReports(s, r, status)
             \/ \E r \in RunIds, c \in AbortCommands : StopRequested(s, r, c)
      PROVE  UNCHANGED starts
  BY <1>5 DEF EngineStep, EngineFinishes, EngineLost, ClockTicks, TimePasses, RequestVars, vars,
              ObserverLooks, StartReads, ClientHints, Quiet, ClientReports, StopRequested, BeginAbort
<1>6. ASSUME NEW t, \/ EngineTakes(t) \/ PromptAccepted(t) \/ PromptFailed(t) \/ ProxySettles(t)
                    \/ EngineAnswersAbort(t) \/ StopAccepted(t) \/ StopFailed(t)
      PROVE  starts' \subseteq starts
  BY <1>6 DEF EngineTakes, PromptAccepted, PromptFailed, ProxySettles, EngineAnswersAbort, vars,
              StopAccepted, StopFailed, FinishStart, AbandonStart, FinishAbort, AbandonAbort
<1>7. CASE ServerRestarts \/ UNCHANGED allVars
  BY <1>1, <1>7 DEF ServerRestarts, Restart, allVars, vars
<1>8. ASSUME NEW s \in Sessions, NEW r \in RunIds, ProxyReserves(s, r)
      PROVE  TicketsNameRuns'
  BY <1>2, <1>8 DEF ProxyReserves
<1> QED BY <1>1, <1>4, <1>5, <1>6, <1>7, <1>8 DEF ControlNext, HandlerNext, Slots

(* The ground of everything below. *)
LEMMA InitBase == ControlInit => Base
<1> SUFFICES ASSUME ControlInit PROVE Base
  OBVIOUS
<1>1. Inv /\ DOMAIN probe = {} /\ starts = {}
  BY InitInv DEF ControlInit, Init
<1>2. ControlOK
  BY <1>1, BoundAssumption DEF ControlInit, ControlOK, ProbesTyped, Engine, History
<1>3. EvidenceTyped
  BY <1>2 DEF ControlOK, Engine, EvidenceTyped
<1> QED BY <1>1, <1>2, <1>3 DEF Base, Core, ControlOK, ProbesNameRuns, TicketsNameRuns

LEMMA NextBase == Base /\ [ControlNext]_allVars => Base' /\ Step
<1> SUFFICES ASSUME Base, [ControlNext]_allVars PROVE Base' /\ Step
  OBVIOUS
<1>1. Inv' /\ Step /\ ProbesSound' /\ ControlOK' /\ TicketsNameRuns'
  BY ControlActs, ActsKeep, ProbesKept, ControlKept, TicketsKept DEF Base, Core
<1>2. EvidenceTyped'
  BY <1>1 DEF ControlOK, Engine, EvidenceTyped
<1> QED BY <1>1, <1>2 DEF Base, Core, ProbesSound

LEMMA BaseInvariance == ControlSpec => []Base
<1> QED BY InitBase, NextBase, PTL DEF ControlSpec

(* Every variable of routes, observer, proxy and engine keeps its type, and *)
(* so do coordinator and journal under them.                                *)
THEOREM ControlTypeCorrect == ControlSpec => []ControlTypeOK
<1>1. Base => ControlTypeOK
  BY DEF Base, Core, Inv, StateOK, RunsTypeOK, TicketsOK, TypeOK, ControlOK, ProbesTyped, ControlTypeOK
<1> QED BY <1>1, BaseInvariance, PTL

(* The composition keeps the promise of the coordinator too: every step of  *)
(* a route, the observer or the proxy is of one of the classes.             *)
THEOREM ControlTellsOneStory == ControlSpec => [](FeedOrdered /\ OutcomesAgree)
<1>1. ControlInit => StoryOK
  BY InitStory DEF ControlInit
<1>2. Base /\ StoryOK /\ [ControlNext]_allVars => StoryOK'
  BY NextBase, ProgressKeepsStory, ClosingKeepsStory, ReservationKeepsStory DEF Step, Base, Core, Inv
<1>3. StoryOK => FeedOrdered /\ OutcomesAgree
  BY DEF StoryOK
<1> QED BY <1>1, <1>2, <1>3, BaseInvariance, PTL DEF ControlSpec

(* And the promise of RunLifecycle: however routes, observer, proxy and      *)
(* engine interleave, fail and restart, a session has at most one open run,  *)
(* and a run ends once, published or withdrawn.                              *)
THEOREM ControlKeepsThePromise == ControlSpec => ImplementsLifecycle
<1>1. ControlInit => StoryOK /\ Lifecycle!LifecycleInit
  BY InitStory, InitPromise DEF ControlInit
<1>2. Base /\ StoryOK /\ [ControlNext]_allVars => StoryOK'
  BY NextBase, ProgressKeepsStory, ClosingKeepsStory, ReservationKeepsStory DEF Step, Base, Core, Inv
<1>3. Base /\ StoryOK /\ [ControlNext]_allVars => [Lifecycle!LifecycleNext]_(Lifecycle!lifecycleVars)
  BY NextBase, StepIsPromised DEF Base, Core
<1> QED BY <1>1, <1>2, <1>3, BaseInvariance, PTL
        DEF ControlSpec, ImplementsLifecycle, Lifecycle!LifecycleSpec

-----------------------------------------------------------------------------
(* The operations, seen from evidence and prompts: which of them find a run *)
(* ended, take an abort for accepted or take an idle sample.                *)

(* The run of s goes on, as much accepted as aborted as before. *)
Same(s) == s \in DOMAIN runs /\ runs'[s].id = runs[s].id

NoOutcome ==
  \A r \in DOMAIN rows :
    rows'[r].reason = rows[r].reason \/ rows'[r].reason = "dispatch_failed"

NoAcceptance ==
  \A s \in DOMAIN runs' : runs'[s].abortAccepted => Same(s) /\ runs[s].abortAccepted

NoSample ==
  \A s \in DOMAIN runs' :
    runs'[s].status # "aborting" /\ runs'[s].idle # "null" =>
      Same(s) /\ runs[s].status # "aborting" /\ runs[s].idle # "null"

NoAbort == \A s \in DOMAIN runs' : runs'[s].status = "aborting" => Same(s) /\ runs[s].status = "aborting"

Meek == NoOutcome /\ NoAcceptance /\ NoSample

(* What an update does to the memory. *)
LEMMA AdvanceMemory ==
  ASSUME StateOK, NEW event, NEW s \in DOMAIN runs, NEW next \in Run,
         next.id = runs[s].id, next.gen = runs[s].gen,
         Advance(event, s, next)
  PROVE  /\ NoOutcome
         /\ DOMAIN runs' = DOMAIN runs /\ runs'[s] = next
         /\ \A t \in DOMAIN runs : t # s => runs'[t] = runs[t]
<1>1. NoOutcome
  BY AdvanceProgresses DEF Progresses, SameRows, SameRow, NoOutcome
<1>2. runs' = Put(runs, s, next)
  BY DEF Advance
<1> QED BY <1>1, <1>2 DEF Put

(* What closing a run does to the memory. *)
LEMMA SettleMemory ==
  ASSUME NEW s \in DOMAIN runs, NEW event, NEW reason, Settle(event, s, reason)
  PROVE  /\ NoAcceptance /\ NoSample /\ NoAbort
         /\ DOMAIN runs' = DOMAIN runs \ {s}
BY DEF Settle, Drop, NoAcceptance, NoSample, NoAbort, Same

LEMMA NoChangeMeek ==
  ASSUME UNCHANGED <<rows, runs>>
  PROVE  Meek /\ NoAbort
BY DEF Meek, NoOutcome, NoAcceptance, NoSample, NoAbort, Same

LEMMA BeginStartMeek ==
  ASSUME StateOK, NEW s \in Sessions, NEW r \in RunIds, BeginStart(s, r)
  PROVE  Meek /\ NoAbort /\ Opens(s, r)
<1>1. ReserveStart(s, r) /\ Opens(s, r)
  BY ReserveOpens DEF BeginStart
<1>2. DOMAIN runs' = DOMAIN runs \cup {s} /\ \A t \in DOMAIN runs : runs'[t] = runs[t]
  BY <1>1 DEF Opens
<1>3. runs'[s] = FreshRun(r)
  BY <1>1 DEF ReserveStart, Put
<1>4. ~ runs'[s].abortAccepted /\ runs'[s].idle = "null" /\ runs'[s].status # "aborting"
  BY <1>3 DEF FreshRun
<1>5. NoOutcome
  BY <1>1 DEF Opens, NoOutcome
<1> QED BY <1>1, <1>2, <1>4, <1>5 DEF Meek, NoAcceptance, NoSample, NoAbort, Same

LEMMA AcceptStartMeek ==
  ASSUME StateOK, NEW s, NEW r, AcceptStart(s, r)
  PROVE  Meek /\ NoAbort
<1>1. CASE Holds(s, r) /\ Advance("run_started", s, [runs[s] EXCEPT !.status = "running"])
           /\ runs[s].status = "starting"
  <2> DEFINE next == [runs[s] EXCEPT !.status = "running"]
  <2>1. s \in DOMAIN runs /\ runs[s] \in Run
    BY <1>1, MirroredRun DEF Holds
  <2>2. /\ next \in Run /\ next.id = runs[s].id /\ next.gen = runs[s].gen
        /\ next.abortAccepted = runs[s].abortAccepted /\ next.idle = runs[s].idle
        /\ next.status # "aborting"
    BY <2>1 DEF Run, ActiveStatus
  <2> HIDE DEF next
  <2>3. /\ NoOutcome /\ DOMAIN runs' = DOMAIN runs /\ runs'[s] = next
        /\ \A t \in DOMAIN runs : t # s => runs'[t] = runs[t]
    BY <1>1, <2>1, <2>2, AdvanceMemory DEF next
  <2> QED BY <1>1, <2>2, <2>3 DEF Meek, NoAcceptance, NoSample, NoAbort, Same
<1>2. CASE Holds(s, r) /\ runs' = [runs EXCEPT ![s].idle = "null"] /\ UNCHANGED journalVars
  <2>1. s \in DOMAIN runs /\ runs[s] \in Run
    BY <1>2, MirroredRun DEF Holds
  <2>2. /\ DOMAIN runs' = DOMAIN runs /\ runs'[s] = [runs[s] EXCEPT !.idle = "null"]
        /\ \A t \in DOMAIN runs : t # s => runs'[t] = runs[t]
    BY <1>2, <2>1
  <2>3. /\ runs'[s].id = runs[s].id /\ runs'[s].abortAccepted = runs[s].abortAccepted
        /\ runs'[s].idle = "null" /\ runs'[s].status = runs[s].status
    BY <2>1, <2>2 DEF Run
  <2> QED BY <1>2, <2>2, <2>3
          DEF Meek, NoOutcome, NoAcceptance, NoSample, NoAbort, Same, journalVars
<1>3. CASE NoChange
  BY <1>3, NoChangeMeek DEF NoChange, journalVars
<1> QED BY <1>1, <1>2, <1>3 DEF AcceptStart

LEMMA RollbackStartMeek ==
  ASSUME StateOK, NEW s, NEW r, RollbackStart(s, r) \/ NoChange
  PROVE  Meek /\ NoAbort
<1>1. CASE Holds(s, r) /\ Settle("start_rolled_back", s, "dispatch_failed")
  <2>1. s \in DOMAIN runs /\ runs[s].id \in DOMAIN rows
    BY <1>1, MirroredRun DEF Holds
  <2>2. Closes(s, "dispatch_failed")
    BY <1>1, <2>1, SettleCloses
  <2>3. NoOutcome
    BY <2>2 DEF Closes, SameRow, NoOutcome
  <2> QED BY <1>1, <2>1, <2>3, SettleMemory DEF Meek
<1>2. CASE NoChange
  BY <1>2, NoChangeMeek DEF NoChange, journalVars
<1> QED BY <1>1, <1>2 DEF RollbackStart

LEMMA ReserveAbortMeek ==
  ASSUME StateOK, NEW s, NEW r, NEW c \in AbortCommands, ReserveAbort(s, r, c)
  PROVE  Meek
<1> DEFINE next == [runs[s] EXCEPT !.status = "aborting", !.abortCmd = c,
                                   !.abortAccepted = FALSE, !.idle = "null"]
<1>1. s \in DOMAIN runs /\ runs[s] \in Run
  BY MirroredRun DEF ReserveAbort, Holds
<1>2. /\ next \in Run /\ next.id = runs[s].id /\ next.gen = runs[s].gen
      /\ ~ next.abortAccepted /\ next.idle = "null"
  BY <1>1 DEF Run, ActiveStatus, IdleSample
<1>3. Advance("abort_requested", s, next)
  BY DEF ReserveAbort
<1> HIDE DEF next
<1>4. /\ NoOutcome /\ DOMAIN runs' = DOMAIN runs /\ runs'[s] = next
      /\ \A t \in DOMAIN runs : t # s => runs'[t] = runs[t]
  BY <1>1, <1>2, <1>3, AdvanceMemory
<1> QED BY <1>2, <1>4 DEF Meek, NoAcceptance, NoSample, Same

LEMMA RollbackAbortMeek ==
  ASSUME StateOK, NEW s, NEW r, NEW c, NEW previousStatus \in ActiveStatus,
         RollbackAbort(s, r, c, previousStatus) \/ NoChange
  PROVE  Meek
<1> DEFINE next == [runs[s] EXCEPT !.status = previousStatus, !.abortCmd = NoCommand,
                                   !.idle = "null"]
<1>1. CASE AbortMatches(s, r, c) /\ Advance("abort_rolled_back", s, next)
  <2>1. s \in DOMAIN runs /\ runs[s] \in Run
    BY <1>1, MirroredRun DEF AbortMatches, Holds
  <2>2. /\ next \in Run /\ next.id = runs[s].id /\ next.gen = runs[s].gen
        /\ next.abortAccepted = runs[s].abortAccepted /\ next.idle = "null"
    BY <2>1 DEF Run, AbortCommands, IdleSample
  <2> HIDE DEF next
  <2>3. /\ NoOutcome /\ DOMAIN runs' = DOMAIN runs /\ runs'[s] = next
        /\ \A t \in DOMAIN runs : t # s => runs'[t] = runs[t]
    BY <1>1, <2>1, <2>2, AdvanceMemory
  <2> QED BY <2>2, <2>3 DEF Meek, NoAcceptance, NoSample, Same
<1>2. CASE NoChange
  BY <1>2, NoChangeMeek DEF NoChange, journalVars
<1> QED BY <1>1, <1>2 DEF RollbackAbort

LEMMA ReportMeek ==
  ASSUME StateOK, NEW s, NEW r, NEW status \in ActiveStatus, ObserveActivity(s, r, status)
  PROVE  Meek /\ (status # "aborting" => NoAbort)
<1> DEFINE next == [runs[s] EXCEPT !.observed = @ \/ status # "starting",
                                   !.status = IF @ = "aborting" THEN @ ELSE status,
                                   !.idle = "null"]
<1>1. CASE Holds(s, r) /\ Advance("progress", s, next)
  <2>1. s \in DOMAIN runs /\ runs[s] \in Run
    BY <1>1, MirroredRun DEF Holds
  <2>2. /\ next \in Run /\ next.id = runs[s].id /\ next.gen = runs[s].gen
        /\ next.abortAccepted = runs[s].abortAccepted /\ next.idle = "null"
        /\ status # "aborting" => (next.status = "aborting" => runs[s].status = "aborting")
    BY <2>1 DEF Run, IdleSample
  <2> HIDE DEF next
  <2>3. /\ NoOutcome /\ DOMAIN runs' = DOMAIN runs /\ runs'[s] = next
        /\ \A t \in DOMAIN runs : t # s => runs'[t] = runs[t]
    BY <1>1, <2>1, <2>2, AdvanceMemory
  <2> QED BY <2>1, <2>2, <2>3 DEF Meek, NoAcceptance, NoSample, NoAbort, Same
<1>2. CASE NoChange
  BY <1>2, NoChangeMeek DEF NoChange, journalVars
<1> QED BY <1>1, <1>2 DEF ObserveActivity

(* What the engine reports aborts nothing. *)
LEMMA ActivityMeek ==
  ASSUME StateOK, NEW s, NEW r, NEW status \in EngineActivity, ObserveActivity(s, r, status)
  PROVE  Meek /\ NoAbort
<1>1. status \in ActiveStatus /\ status # "aborting"
  BY ActivityAssumption DEF ActiveStatus
<1> QED BY <1>1, ReportMeek

LEMMA IntervalMeek ==
  ASSUME StateOK, NEW s, IntervalElapses(s)
  PROVE  NoOutcome /\ NoAcceptance /\ NoSample /\ NoAbort
<1>1. s \in DOMAIN runs /\ runs[s] \in Run /\ runs[s].idle = "recent"
  BY MirroredRun DEF IntervalElapses
<1>2. /\ DOMAIN runs' = DOMAIN runs /\ runs'[s] = [runs[s] EXCEPT !.idle = "aged"]
      /\ \A t \in DOMAIN runs : t # s => runs'[t] = runs[t]
  BY <1>1 DEF IntervalElapses
<1>3. /\ runs'[s].id = runs[s].id /\ runs'[s].abortAccepted = runs[s].abortAccepted
      /\ runs'[s].status = runs[s].status
  BY <1>1, <1>2 DEF Run
<1> QED BY <1>1, <1>2, <1>3
        DEF NoOutcome, NoAcceptance, NoSample, NoAbort, Same, IntervalElapses, journalVars

(* The operations that are not meek: what they find, and on what grounds.   *)
LEMMA AcceptAbortMemory ==
  ASSUME StateOK, NEW s, NEW r, NEW c, AcceptAbort(s, r, c)
  PROVE  /\ NoOutcome /\ NoSample
         /\ NoAcceptance \/ \A t \in DOMAIN runs' :
              runs'[t].abortAccepted => Same(t) /\ (runs[t].abortAccepted \/ runs'[t].id = r)
<1> DEFINE next == [runs[s] EXCEPT !.abortAccepted = TRUE]
<1>1. CASE AbortMatches(s, r, c) /\ Advance("abort_accepted", s, next)
  <2>1. s \in DOMAIN runs /\ runs[s] \in Run /\ runs[s].id = r /\ runs[s].status = "aborting"
    BY <1>1, MirroredRun DEF AbortMatches, Holds
  <2>2. /\ next \in Run /\ next.id = runs[s].id /\ next.gen = runs[s].gen
        /\ next.status = "aborting"
    BY <2>1 DEF Run
  <2> HIDE DEF next
  <2>3. /\ NoOutcome /\ DOMAIN runs' = DOMAIN runs /\ runs'[s] = next
        /\ \A t \in DOMAIN runs : t # s => runs'[t] = runs[t]
    BY <1>1, <2>1, <2>2, AdvanceMemory
  <2> QED BY <2>1, <2>2, <2>3 DEF NoAcceptance, NoSample, Same
<1>2. CASE NoChange
  BY <1>2, NoChangeMeek DEF NoChange, journalVars, Meek
<1> QED BY <1>1, <1>2 DEF AcceptAbort

(* A run is closed with an outcome. *)
ClosesAs(s, r, reason) ==
  /\ Holds(s, r)
  /\ NoAcceptance /\ NoSample /\ NoAbort
  /\ DOMAIN runs' = DOMAIN runs \ {s}
  /\ r \in DOMAIN rows
  /\ rows'[r].reason = reason
  /\ \A q \in DOMAIN rows : q # r => rows'[q].reason = rows[q].reason

LEMMA SettleAs ==
  ASSUME StateOK, NEW s, NEW r, Holds(s, r), NEW reason \in RunOutcome,
         Settle("run_terminal", s, reason)
  PROVE  ClosesAs(s, r, reason)
<1>1. s \in DOMAIN runs /\ runs[s].id = r /\ r \in DOMAIN rows
  BY MirroredRun DEF Holds
<1>2. Closes(s, reason)
  BY <1>1, SettleCloses
<1>3. NoAcceptance /\ NoSample /\ NoAbort /\ DOMAIN runs' = DOMAIN runs \ {s}
  BY <1>1, SettleMemory
<1> QED BY <1>1, <1>2, <1>3 DEF Closes, SameRow, ClosesAs

LEMMA TerminalCloses ==
  ASSUME StateOK, NEW s, NEW r, NEW outcome \in RunOutcome, ObserveTerminal(s, r, outcome)
  PROVE  (Meek /\ NoAbort) \/ ClosesAs(s, r, outcome)
<1>1. CASE Holds(s, r) /\ Settle("run_terminal", s, outcome)
  BY <1>1, SettleAs
<1>2. CASE NoChange
  BY <1>2, NoChangeMeek DEF NoChange, journalVars
<1> QED BY <1>1, <1>2 DEF ObserveTerminal

LEMMA IdleCloses ==
  ASSUME StateOK, NEW s, NEW r, runs[s].status = "aborting", ObserveIdle(s, r)
  PROVE  Meek \/ (runs[s].abortAccepted /\ ClosesAs(s, r, "aborted"))
<1>1. CASE Holds(s, r) /\ runs[s].abortAccepted /\ Settle("run_terminal", s, "aborted")
  BY <1>1, SettleAs DEF RunOutcome
<1>2. CASE NoChange
  <2>1. Meek
    BY <1>2, NoChangeMeek DEF NoChange, journalVars
  <2> QED BY <2>1
<1> QED BY <1>1, <1>2 DEF ObserveIdle

(* The first idle sample of a run. *)
Samples(s, r) ==
  /\ Holds(s, r)
  /\ runs[s].status # "aborting"
  /\ NoOutcome /\ NoAcceptance /\ NoAbort
  /\ DOMAIN runs' = DOMAIN runs
  /\ runs'[s].id = r
  /\ \A t \in DOMAIN runs : t # s => runs'[t] = runs[t]

LEMMA ReconcileMemory ==
  ASSUME StateOK, NEW s, NEW r, ReconcileAuthoritativeIdle(s, r)
  PROVE  \/ Meek /\ NoAbort
         \/ Samples(s, r)
         \/ runs[s].status = "aborting" /\ runs[s].abortAccepted /\ ClosesAs(s, r, "aborted")
         \/ runs[s].status # "aborting" /\ runs[s].idle # "null" /\ ClosesAs(s, r, "completed")
<1> DEFINE next == [runs[s] EXCEPT !.idle = "recent"]
<1>1. CASE Holds(s, r) /\ runs[s].status = "aborting" /\ runs[s].abortAccepted
           /\ Settle("run_terminal", s, "aborted")
  BY <1>1, SettleAs DEF RunOutcome
<1>2. CASE Holds(s, r) /\ runs[s].status # "aborting" /\ runs[s].idle = "aged"
           /\ Settle("run_terminal", s, "completed")
  BY <1>2, SettleAs DEF RunOutcome
<1>3. CASE Holds(s, r) /\ runs[s].status # "aborting" /\ Advance("idle_suspected", s, next)
  <2>1. s \in DOMAIN runs /\ runs[s] \in Run /\ runs[s].id = r
    BY <1>3, MirroredRun DEF Holds
  <2>2. /\ next \in Run /\ next.id = runs[s].id /\ next.gen = runs[s].gen
        /\ next.abortAccepted = runs[s].abortAccepted /\ next.status = runs[s].status
    BY <2>1 DEF Run, IdleSample
  <2> HIDE DEF next
  <2>3. /\ NoOutcome /\ DOMAIN runs' = DOMAIN runs /\ runs'[s] = next
        /\ \A t \in DOMAIN runs : t # s => runs'[t] = runs[t]
    BY <1>3, <2>1, <2>2, AdvanceMemory
  <2> QED BY <1>3, <2>1, <2>2, <2>3 DEF Samples, NoAcceptance, NoAbort, Same
<1>4. CASE NoChange
  BY <1>4, NoChangeMeek DEF NoChange, journalVars
<1> QED BY <1>1, <1>2, <1>3, <1>4 DEF ReconcileAuthoritativeIdle

-----------------------------------------------------------------------------
(* What happened has happened. *)

Grows ==
  /\ history.halted \subseteq history'.halted
  /\ history.reported \subseteq history'.reported
  /\ history.taken \subseteq history'.taken
  /\ \A s \in Sessions, o \in RunOutcome : history.ended[s][o] <= history'.ended[s][o]

(* What a step of the engine or of a request changes of the engine and of   *)
(* what happened.                                                           *)
LEMMA HistoryGrows ==
  ASSUME Base, EngineRecorded, [ControlNext]_allVars
  PROVE  Grows /\ EngineRecorded'
<1>0. /\ history \in History /\ engine \in [Sessions -> Engine]
      /\ \A s \in Sessions : engine[s].stamp \in Nat
      /\ \A s \in Sessions, o \in RunOutcome : history.ended[s][o] \in Nat
  BY DEF Base, Core, ControlOK, History, Engine
<1>1. ASSUME history' = history, \A s \in Sessions : engine'[s].stamp = engine[s].stamp /\ engine'[s].evidence = engine[s].evidence
      PROVE  Grows /\ EngineRecorded'
  BY <1>0, <1>1 DEF Grows, EngineRecorded
<1>2. ASSUME history'.ended = history.ended, history.halted \subseteq history'.halted,
             history.reported \subseteq history'.reported, history.taken \subseteq history'.taken,
             \A s \in Sessions : engine'[s].stamp = engine[s].stamp /\ engine'[s].evidence = engine[s].evidence
      PROVE  Grows /\ EngineRecorded'
  BY <1>0, <1>2 DEF Grows, EngineRecorded
<1>3. ASSUME NEW p, Handles(p) PROVE Grows /\ EngineRecorded'
  BY <1>1, <1>3 DEF Handles, OnlyHandler, externalVars
<1>4. ASSUME NEW s \in Sessions, NEW p,
             \/ ObserverLooks(p, s) \/ StartReads(p, s)
             \/ \E r \in RunIds, hint \in {"idle", "completed"} : ClientHints(p, s, r, hint)
      PROVE  Handles(p)
  BY <1>4 DEF ObserverLooks, StartReads, ClientHints, Handles, Move
<1>5. ASSUME NEW s \in Sessions, NEW r \in RunIds, NEW outcome \in RunOutcome, EngineFinishes(s, r, outcome)
      PROVE  Grows /\ EngineRecorded'
  <2>1. PICK stamp \in rows[r].gen .. generation :
          /\ stamp >= engine[s].stamp
          /\ engine' = [engine EXCEPT ![s] =
               [pending |-> @.pending \ {r}, stamp |-> stamp, evidence |-> outcome]]
          /\ history' = [history EXCEPT !.ended[s][outcome] = stamp]
    BY <1>5 DEF EngineFinishes
  <2>2. /\ engine'[s].stamp = stamp /\ engine'[s].evidence = outcome
        /\ \A t \in Sessions : t # s => engine'[t] = engine[t]
    BY <1>0, <2>1
  <2>3. /\ history'.halted = history.halted /\ history'.reported = history.reported
        /\ history'.taken = history.taken
        /\ history'.ended[s][outcome] = stamp
        /\ \A t \in Sessions, o \in RunOutcome :
             t # s \/ o # outcome => history'.ended[t][o] = history.ended[t][o]
    <3>1. history.ended \in [Sessions -> [RunOutcome -> Nat]]
      BY <1>0 DEF History
    <3>2. history'.ended = [history.ended EXCEPT ![s] = [history.ended[s] EXCEPT ![outcome] = stamp]]
      BY <1>0, <2>1 DEF History
    <3>3. history'.ended[s] = [history.ended[s] EXCEPT ![outcome] = stamp]
      BY <3>1, <3>2
    <3>4. \A t \in Sessions : t # s => history'.ended[t] = history.ended[t]
      BY <3>1, <3>2
    <3>5. history.ended[s] \in [RunOutcome -> Nat]
      BY <3>1
    <3>6. history'.ended[s][outcome] = stamp
      BY <3>3, <3>5
    <3>7. \A o \in RunOutcome : o # outcome => history'.ended[s][o] = history.ended[s][o]
      BY <3>3, <3>5
    <3> QED BY <1>0, <2>1, <3>4, <3>6, <3>7 DEF History
  <2>4. \A o \in RunOutcome : history.ended[s][o] <= stamp
    <3>1. \A o \in RunOutcome : history.ended[s][o] <= engine[s].stamp
      BY DEF EngineRecorded
    <3> QED BY <1>0, <2>1, <3>1
  <2>5. Grows
    BY <1>0, <2>3, <2>4 DEF Grows
  <2>6. EngineRecorded'
    <3> SUFFICES ASSUME NEW t \in Sessions
                 PROVE  /\ \A o \in RunOutcome : history'.ended[t][o] <= engine'[t].stamp
                        /\ engine'[t].evidence # "null"
                           => history'.ended[t][engine'[t].evidence] = engine'[t].stamp
      BY DEF EngineRecorded
    <3>1. CASE t = s
      BY <2>1, <2>2, <2>3, <2>4, <3>1
    <3>2. CASE t # s
      <4>1. engine[t].evidence \in RunOutcome \cup {"null"}
        BY <1>0 DEF Engine
      <4> QED BY <2>2, <2>3, <3>2, <4>1 DEF EngineRecorded
    <3> QED BY <3>1, <3>2
  <2> QED BY <2>5, <2>6
<1>6. ASSUME NEW s \in Sessions, EngineLost(s) \/ ClockTicks(s)
      PROVE  Grows /\ EngineRecorded'
  <2>1. history' = history /\ \A t \in Sessions : engine'[t].stamp = engine[t].stamp /\ engine'[t].evidence = engine[t].evidence
    BY <1>0, <1>6 DEF EngineLost, ClockTicks, controlVars, externalVars, Engine
  <2> QED BY <1>1, <2>1
<1>7. ASSUME NEW t \in starts, EngineTakes(t)
      PROVE  Grows /\ EngineRecorded'
  <2>1. \A s \in Sessions : engine'[s].stamp = engine[s].stamp /\ engine'[s].evidence = engine[s].evidence
    BY <1>0, <1>7 DEF EngineTakes, Engine
  <2>2. history'.ended = history.ended /\ history'.halted = history.halted
        /\ history'.reported = history.reported /\ history'.taken = history.taken \cup {t.run}
    BY <1>0, <1>7 DEF EngineTakes, History
  <2> QED BY <1>2, <2>1, <2>2
<1>8. ASSUME NEW s \in Sessions, NEW r \in RunIds,
             \/ \E status \in ReportedStatus : ClientReports(s, r, status)
             \/ ProxyReserves(s, r) \/ \E c \in AbortCommands : StopRequested(s, r, c)
      PROVE  Grows /\ EngineRecorded'
  <2>1. engine' = engine
    BY <1>8 DEF ClientReports, ProxyReserves, StopRequested, externalVars
  <2>2. \/ history' = history
        \/ \E S : history' = [history EXCEPT !.reported = @ \cup S]
    <3>1. ASSUME NEW status, ClientReports(s, r, status)
          PROVE  history' = history \/ history' = [history EXCEPT !.reported = @ \cup {r}]
      BY <1>0, <3>1 DEF ClientReports, History
    <3> QED BY <1>8, <3>1 DEF ProxyReserves, StopRequested, externalVars
  <2> QED BY <1>0, <1>1, <1>2, <2>1, <2>2 DEF History
<1>9. ASSUME NEW t, PromptAccepted(t) \/ PromptFailed(t) \/ ProxySettles(t) \/ EngineAnswersAbort(t)
                    \/ StopAccepted(t) \/ StopFailed(t)
      PROVE  Grows /\ EngineRecorded'
  <2>1. engine' = engine
    BY <1>9 DEF PromptAccepted, PromptFailed, ProxySettles, EngineAnswersAbort, StopAccepted,
         StopFailed, controlVars, externalVars
  <2>2. \/ history' = history
        \/ history' = [history EXCEPT !.accepted = @ \cup {t.run}]
        \/ history' = [history EXCEPT !.halted = @ \cup {t.run}]
    BY <1>9 DEF PromptAccepted, PromptFailed, ProxySettles, EngineAnswersAbort, StopAccepted,
         StopFailed, controlVars, externalVars
  <2>3. history'.ended = history.ended /\ history.halted \subseteq history'.halted
        /\ history'.reported = history.reported /\ history'.taken = history.taken
    BY <1>0, <2>2 DEF History
  <2> QED BY <1>2, <2>1, <2>3
<1>10. CASE ServerRestarts
  <2>1. history'.ended = history.ended /\ history.halted \subseteq history'.halted
        /\ history'.reported = history.reported /\ history'.taken = history.taken
    BY <1>0, <1>10 DEF ServerRestarts, History
  <2> QED BY <1>2, <1>10, <2>1 DEF ServerRestarts
<1>11. CASE UNCHANGED allVars
  BY <1>1, <1>11 DEF allVars, controlVars, externalVars
<1> QED BY <1>3, <1>4, <1>5, <1>6, <1>7, <1>8, <1>9, <1>10, <1>11, ProbeStepHandles, OutcomeAssumption
        DEF ControlNext, HandlerNext, EngineStep

(* A message after a run's reservation stays one. *)
LEMMA EndedStays ==
  ASSUME Base, Base', Step, Grows, NEW s \in Sessions, NEW r \in DOMAIN rows, NEW o \in RunOutcome,
         Ended(s, r, o)
  PROVE  Ended(s, r, o)'
<1>1. /\ history.ended[s][o] \in Nat /\ history'.ended[s][o] \in Nat
      /\ history.ended[s][o] <= history'.ended[s][o]
  BY DEF Base, Core, ControlOK, History, Grows
<1>2. rows'[r].gen = rows[r].gen /\ rows[r].gen \in Nat
  BY RowsStay, Typed DEF Base, Core, Inv, RowStays, Row
<1> QED BY <1>1, <1>2 DEF Ended

(* The evidence a handler is given is of a message after the reservation. *)
LEMMA EvidenceEnded ==
  ASSUME Base, EngineRecorded, NEW s \in Sessions, NEW r \in DOMAIN rows, EvidenceRead(s, r) # "null"
  PROVE  Ended(s, r, EvidenceRead(s, r))
<1>1. EvidenceRead(s, r) = engine[s].evidence /\ engine[s].stamp >= rows[r].gen
  BY DEF EvidenceRead
<1> QED BY <1>1 DEF EngineRecorded, Ended

(* A probe of these carries only what has been. *)
Saw(q) ==
  /\ q.evidence # "null" => q.at = "evidence" /\ Ended(q.session, q.run, q.evidence)
  /\ q.at \in {"wait", "second"} => Ended(q.session, q.run, "completed")

LEMMA SawStays ==
  ASSUME Base, Base', Step, Grows, NEW q, Sound(q), Saw(q)
  PROVE  Saw(q)'
<1>1. /\ q.session \in Sessions /\ q.evidence \in RunOutcome \cup {"null"}
      /\ q.at \in {"evidence", "wait", "second"} => q.run \in DOMAIN rows
  BY DEF Sound, Probe
<1>2. q.evidence # "null" => q.at = "evidence" /\ Ended(q.session, q.run, q.evidence)'
  BY <1>1, EndedStays DEF Saw
<1>3. q.at \in {"wait", "second"} => Ended(q.session, q.run, "completed")'
  BY <1>1, EndedStays DEF Saw, RunOutcome
<1> QED BY <1>2, <1>3 DEF Saw

(* A probe that carries evidence, at first or second hand. *)
Knows(q) == q.evidence # "null" \/ q.at \in {"wait", "second"}

(* What the step of a handler leaves in its slot: nothing, or a probe that   *)
(* carries what has been, read now or by the probe before it, and is about   *)
(* an aborting run only if the one before was.                               *)
Leaves(p, q) ==
  /\ Sound(q) /\ Saw(q)
  /\ q.aborting => p \in DOMAIN probe /\ probe[p].aborting /\ probe[p].session = q.session /\ probe[p].run = q.run
  /\ Knows(q) => \/ q.evidence # "null" /\ q.evidence = EvidenceRead(q.session, q.run)
                 \/ /\ p \in DOMAIN probe /\ Knows(probe[p])
                    /\ probe[p].session = q.session /\ probe[p].run = q.run
  /\ probe' = Put(probe, p, q)

LEMMA ProbeStepLeaves ==
  ASSUME Base, EngineRecorded, ProbesSaw, NEW p \in Slots, ProbeStep(p)
  PROVE  probe' = Drop(probe, p) \/ \E q : Leaves(p, q)
<1> DEFINE q == probe[p]
           s == q.session
<1>1. p \in DOMAIN probe
  BY ProbeStepHandles
<1>2. /\ Sound(q) /\ q \in Probe /\ s \in Sessions /\ Saw(q)
      /\ q.kind # "start" \/ q.at \notin {"status", "reserve"}
         => q.run \in DOMAIN rows /\ q.run \in RunIds
  BY <1>1, SoundProbe, ProbeFacts DEF Base, ProbesSaw, Saw
<1>3. ASSUME NEW r \in RunIds \cup {NoRun}, NEW kind \in Kinds,
             NEW at \in {"asking", "status", "evidence", "wait", "second", "reserve"}
      PROVE  /\ Ask(kind, at, s, r).run = r /\ Ask(kind, at, s, r).session = s
             /\ Ask(kind, at, s, r).at = at /\ ~ Ask(kind, at, s, r).aborting
             /\ Ask(kind, at, s, r).evidence = "null" /\ Ask(kind, at, s, r) \in Probe
  BY <1>2, SoundAsk DEF Base, Ask
<1>4. CASE probe' = Put(probe, p, Ask("start", "reserve", s, NoRun))
  <2> DEFINE ask == Ask("start", "reserve", s, NoRun)
  <2>1. Sound(ask) /\ ask.evidence = "null" /\ ask.at = "reserve" /\ ~ ask.aborting
    BY <1>2, <1>3, SoundAsk DEF Base, Kinds
  <2> HIDE DEF ask
  <2>2. Leaves(p, ask)
    BY <2>1, <1>4 DEF Leaves, Saw, Knows, ask
  <2> QED BY <2>2
<1>5. CASE ReadFails(p) \/ ObserverActs(p) \/ HintActs(p) \/ StartReserves(p)
  BY <1>5 DEF ReadFails, ObserverActs, HintActs, StartReserves, Reserves, End
<1>6. CASE ReadsStatus(p)
  <2>1. StatusRead(s) \subseteq EngineActivity \cup {"idle"}
    BY DEF StatusRead
  <2>2. PICK v \in EngineActivity \cup {"idle"} :
          probe' = Put(probe, p, [q EXCEPT !.at = "status", !.status = v])
    BY <1>6, <2>1 DEF ReadsStatus, Move
  <2> DEFINE new == [q EXCEPT !.at = "status", !.status = v]
  <2>3. q.at = "asking"
    BY <1>6 DEF ReadsStatus, At
  <2>4. /\ new \in Probe /\ new.at = "status" /\ new.evidence = q.evidence
        /\ new.run = q.run /\ new.session = s /\ new.aborting = q.aborting /\ new.kind = q.kind
    BY <1>2 DEF Probe
  <2>5. Sound(new) /\ Saw(new)
    BY <1>2, <2>3, <2>4 DEF Sound, Saw
  <2> HIDE DEF new
  <2>6. Leaves(p, new)
    BY <1>1, <2>2, <2>4, <2>5 DEF Leaves, Saw, Knows, new
  <2> QED BY <2>6
<1>7. CASE ReadsEvidence(p)
  <2> DEFINE e == EvidenceRead(s, q.run)
             new == [q EXCEPT !.at = "evidence", !.evidence = e]
  <2>1. q.at = "status" /\ q.kind # "start" /\ probe' = Put(probe, p, new)
    BY <1>7 DEF ReadsEvidence, At, Move
  <2>2. q.run \in DOMAIN rows /\ rows[q.run].session = s /\ e \in RunOutcome \cup {"null"}
    BY <1>2, <2>1, Readings DEF Base, Sound
  <2>3. e # "null" => Ended(s, q.run, e)
    BY <1>2, <2>2, EvidenceEnded
  <2> HIDE DEF e
  <2>4. /\ new \in Probe /\ new.at = "evidence" /\ new.evidence = e
        /\ new.run = q.run /\ new.session = s /\ new.aborting = q.aborting
    BY <1>2, <2>2 DEF Probe
  <2>5. Sound(new) /\ Saw(new)
    BY <2>2, <2>3, <2>4 DEF Sound, Saw
  <2> HIDE DEF new
  <2>6. Leaves(p, new)
    BY <1>1, <2>1, <2>4, <2>5 DEF Leaves, Knows, e
  <2> QED BY <2>6
<1>8. CASE StartRereads(p)
  <2>1. StatusRead(s) \subseteq EngineActivity \cup {"idle"}
    BY DEF StatusRead
  <2>2. PICK v \in EngineActivity \cup {"idle"} :
          probe' = Put(probe, p, [q EXCEPT !.at = "second", !.status = v])
    BY <1>8, <2>1 DEF StartRereads, Move
  <2> DEFINE new == [q EXCEPT !.at = "second", !.status = v]
  <2>3. q.at = "wait"
    BY <1>8 DEF StartRereads, At
  <2>4. /\ new \in Probe /\ new.at = "second" /\ new.evidence = q.evidence
        /\ new.run = q.run /\ new.session = s /\ new.aborting = q.aborting
    BY <1>2 DEF Probe
  <2>5. Sound(new) /\ Saw(new)
    BY <1>2, <2>3, <2>4 DEF Sound, Saw
  <2> HIDE DEF new
  <2>6. Leaves(p, new)
    BY <1>1, <2>2, <2>3, <2>4, <2>5 DEF Leaves, Knows, new
  <2> QED BY <2>6
<1>9. CASE StartLooks(p)
  <2>1. \/ probe' = Drop(probe, p)
        \/ probe' = Put(probe, p, Ask("start", "reserve", s, NoRun))
        \/ /\ s \in DOMAIN runs
           /\ \E e \in {EvidenceRead(s, runs[s].id), "null"} :
                probe' = Put(probe, p, [Ask("start", "evidence", s, runs[s].id) EXCEPT !.evidence = e])
    BY <1>9 DEF StartLooks, Reserves, ReservesNext, End, Move, GoOn
  <2>2. ASSUME s \in DOMAIN runs, NEW e \in {EvidenceRead(s, runs[s].id), "null"},
               probe' = Put(probe, p, [Ask("start", "evidence", s, runs[s].id) EXCEPT !.evidence = e])
        PROVE  \E new : Leaves(p, new)
    <3> DEFINE ask == Ask("start", "evidence", s, runs[s].id)
               new == [ask EXCEPT !.evidence = e]
    <3>1. runs[s].id \in RunIds /\ runs[s].id \in DOMAIN rows /\ rows[runs[s].id].session = s
      BY <2>2, MirroredRun DEF Base, Core, Inv, Run
    <3>2. e \in RunOutcome \cup {"null"} /\ (e # "null" => Ended(s, runs[s].id, e))
      BY <1>2, <2>2, <3>1, EvidenceEnded, Readings DEF Base
    <3>3. ask \in Probe /\ ask.run = runs[s].id /\ ask.session = s /\ ask.at = "evidence" /\ ~ ask.aborting
      BY <1>3, <3>1 DEF Kinds
    <3> HIDE DEF ask
    <3>4. /\ new \in Probe /\ new.at = "evidence" /\ new.evidence = e
          /\ new.run = runs[s].id /\ new.session = s /\ ~ new.aborting
      BY <3>2, <3>3 DEF Probe
    <3>5. Sound(new) /\ Saw(new)
      BY <3>1, <3>2, <3>4 DEF Sound, Saw
    <3> HIDE DEF new
    <3>6. Leaves(p, new)
      BY <2>2, <3>4, <3>5 DEF Leaves, Knows, new, ask
    <3> QED BY <3>6
  <2> QED BY <1>4, <2>1, <2>2
<1>10. CASE StartDecides(p)
  <2>1. \/ probe' = Drop(probe, p)
        \/ probe' = Put(probe, p, Ask("start", "reserve", s, NoRun))
        \/ /\ probe' = Put(probe, p, Ask("start", "wait", s, q.run))
           /\ Holds(s, q.run) /\ q.evidence = "completed"
    BY <1>10 DEF StartDecides, Reserves, ReservesNext, End, Move, GoOn, Unconfirmed
  <2>2. ASSUME Holds(s, q.run), q.evidence = "completed",
               probe' = Put(probe, p, Ask("start", "wait", s, q.run))
        PROVE  \E new : Leaves(p, new)
    <3> DEFINE ask == Ask("start", "wait", s, q.run)
    <3>1. q.run \in RunIds /\ Ended(s, q.run, "completed")
      BY <1>2, <1>10, <2>2 DEF StartDecides, At, Saw
    <3>2. ask.run = q.run /\ ask.session = s /\ ask.at = "wait" /\ ~ ask.aborting /\ ask.evidence = "null"
      BY <1>3, <3>1 DEF Kinds
    <3>3. Sound(ask)
      BY <1>2, <2>2, <3>1, SoundAsk DEF Base, Kinds
    <3> HIDE DEF ask
    <3>4. Leaves(p, ask)
      BY <1>1, <2>2, <3>1, <3>2, <3>3 DEF Leaves, Saw, Knows, ask
    <3> QED BY <3>4
  <2> QED BY <1>4, <2>1, <2>2
<1>11. CASE StartConfirms(p)
  <2>1. \/ probe' = Drop(probe, p)
        \/ probe' = Put(probe, p, Ask("start", "reserve", s, NoRun))
    BY <1>11 DEF StartConfirms, Reserves, ReservesNext, End, Move, GoOn
  <2> QED BY <1>4, <2>1
<1> QED BY <1>5, <1>6, <1>7, <1>8, <1>9, <1>10, <1>11 DEF ProbeStep

-----------------------------------------------------------------------------
(* Evidence is kept. *)

(* Why a run may be closed with an outcome. *)
Evident(s, r, o) ==
  \/ Ended(s, r, o)
  \/ o = "aborted" /\ r \in history.halted
  \/ o \in {"failed", "aborted"} /\ r \in history.reported

(* A probe about a run that was aborting was there before, or it is still.  *)
Fade ==
  \A p \in DOMAIN probe' :
    probe'[p].aborting =>
      \/ /\ p \in DOMAIN probe /\ probe[p].aborting
         /\ probe'[p].session = probe[p].session /\ probe'[p].run = probe[p].run
      \/ /\ p \in ObserverSlots
         /\ probe'[p].session \in DOMAIN runs' /\ runs'[probe'[p].session].status = "aborting"

(* Who is told that the engine accepted its abort. *)
StopsHalted == \A t \in stopped' : t \in stopped \/ t.run \in history'.halted

(* What is common to all steps. *)
Carried ==
  Base /\ Base' /\ Step /\ EvidenceOK /\ Grows /\ StopsHalted

LEMMA HaltedStays ==
  ASSUME Carried,
         \A s \in DOMAIN runs' : runs'[s].abortAccepted =>
           (Same(s) /\ runs[s].abortAccepted) \/ runs'[s].id \in history'.halted
  PROVE  AbortsHalted'
BY DEF Carried, EvidenceOK, AbortsHalted, StopsHalted, Grows, Same

LEMMA SamplesStay ==
  ASSUME Carried, Fade,
         \A s \in DOMAIN runs' :
           runs'[s].status # "aborting" /\ runs'[s].idle # "null" =>
             \/ Same(s) /\ runs[s].status # "aborting" /\ runs[s].idle # "null"
             \/ Ended(s, runs[s].id, "completed")'
  PROVE  SamplesSeen'
<1> SUFFICES ASSUME NEW p \in DOMAIN probe', probe'[p].aborting,
                    NEW s, s = probe'[p].session, NEW r, r = probe'[p].run
             PROVE  /\ p \in ObserverSlots
                    /\ Holds(s, r)' /\ runs'[s].status # "aborting" /\ runs'[s].idle # "null"
                       => Ended(s, r, "completed")'
  BY DEF SamplesSeen
<1>0. CASE p \in ObserverSlots /\ runs'[s].status = "aborting"
  BY <1>0
<1> SUFFICES ASSUME p \in DOMAIN probe, probe[p].aborting, s = probe[p].session, r = probe[p].run
             PROVE  /\ p \in ObserverSlots
                    /\ Holds(s, r)' /\ runs'[s].status # "aborting" /\ runs'[s].idle # "null"
                       => Ended(s, r, "completed")'
  BY <1>0 DEF Fade
<1>2. /\ p \in ObserverSlots
      /\ Holds(s, r) /\ runs[s].status # "aborting" /\ runs[s].idle # "null" => Ended(s, r, "completed")
  BY DEF Carried, EvidenceOK, SamplesSeen
<1>3. s \in Sessions
  BY SoundProbe DEF Base, Carried, Sound, Probe
<1> SUFFICES ASSUME s \in DOMAIN runs', runs'[s].id = r,
                    runs'[s].status # "aborting", runs'[s].idle # "null"
             PROVE  Ended(s, r, "completed")'
  BY <1>2 DEF Holds
<1>4. CASE Same(s) /\ runs[s].status # "aborting" /\ runs[s].idle # "null"
  <2>1. Holds(s, r) /\ Ended(s, r, "completed")
    BY <1>2, <1>4 DEF Same, Holds
  <2>2. r \in DOMAIN rows
    BY <2>1, MirroredRun DEF Holds, Carried, Base, Core, Inv
  <2> QED BY <1>3, <2>1, <2>2, EndedStays DEF Carried, RunOutcome
<1>5. CASE Ended(s, runs[s].id, "completed")'
  BY <1>5
<1> QED BY <1>4, <1>5

LEMMA OutcomesStay ==
  ASSUME Carried,
         \A r \in DOMAIN rows :
           \/ rows'[r].reason \in {rows[r].reason, "dispatch_failed"}
           \/ Evident(rows[r].session, r, rows[r].reason)'
  PROVE  OutcomeHasEvidence'
<1> SUFFICES ASSUME NEW r \in DOMAIN rows', NEW o \in RunOutcome, rows'[r].reason = o,
                    NEW s, rows'[r].session = s
             PROVE  Evident(s, r, o)'
  BY DEF OutcomeHasEvidence, Evident, Ended
<1>1. CASE r \notin DOMAIN rows
  <2>1. rows'[r].reason = "null"
    <3>1. CASE \E t \in Sessions, q \in RunIds : Opens(t, q)
      BY <1>1, <3>1 DEF Opens
    <3>2. CASE DOMAIN rows' = DOMAIN rows
      BY <1>1, <3>2
    <3> QED BY <3>1, <3>2 DEF Carried, Step, Progresses, SameRows, Closes
  <2> QED BY <2>1 DEF RunOutcome
<1>2. CASE r \in DOMAIN rows
  <2>1. rows[r].session = s /\ s \in Sessions
    BY <1>2, RowsStay, Typed DEF Carried, Base, Core, Inv, RowStays, Row
  <2>2. CASE rows[r].reason = o
    <3>1. Evident(s, r, o)
      BY <1>2, <2>1, <2>2 DEF Carried, EvidenceOK, OutcomeHasEvidence, Evident, Ended
    <3>2. CASE Ended(s, r, o)
      BY <1>2, <2>1, <3>2, EndedStays DEF Carried, Evident
    <3>3. CASE o = "aborted" /\ r \in history.halted
      BY <3>3 DEF Evident, Carried, Grows
    <3>4. CASE o \in {"failed", "aborted"} /\ r \in history.reported
      BY <3>4 DEF Evident, Carried, Grows
    <3> QED BY <3>1, <3>2, <3>3, <3>4 DEF Evident
  <2>3. CASE rows'[r].reason = "dispatch_failed"
    BY <2>3 DEF RunOutcome
  <2>4. CASE Evident(rows[r].session, r, rows[r].reason)'
    BY <2>4
  <2> QED BY <1>2, <2>2, <2>3, <2>4
<1> QED BY <1>1, <1>2

Grounds == AbortsHalted /\ SamplesSeen /\ OutcomeHasEvidence

LEMMA MeekKeeps ==
  ASSUME Carried, Fade, Meek
  PROVE  Grounds'
<1>1. AbortsHalted'
  BY HaltedStays DEF Meek, NoAcceptance
<1>2. SamplesSeen'
  BY SamplesStay DEF Meek, NoSample
<1>3. OutcomeHasEvidence'
  BY OutcomesStay DEF Meek, NoOutcome
<1> QED BY <1>1, <1>2, <1>3 DEF Grounds

LEMMA ClosingKeeps ==
  ASSUME Carried, Fade, NEW s, NEW r, NEW o \in RunOutcome, ClosesAs(s, r, o), Evident(s, r, o)'
  PROVE  Grounds'
<1>1. AbortsHalted'
  BY HaltedStays DEF ClosesAs, NoAcceptance
<1>2. SamplesSeen'
  BY SamplesStay DEF ClosesAs, NoSample
<1>3. rows[r].session = s /\ rows'[r].reason = o /\ \A q \in DOMAIN rows : q # r => rows'[q].reason = rows[q].reason
  BY MirroredRun DEF ClosesAs, Holds, Carried, Base, Core, Inv
<1>4. rows'[r].session = s
  BY <1>3, RowsStay DEF ClosesAs, Carried, Base, Core, Inv, RowStays
<1>5. Evident(rows[r].session, r, rows[r].reason)'
  BY <1>3, <1>4
<1>6. OutcomeHasEvidence'
  BY <1>3, <1>5, OutcomesStay
<1> QED BY <1>1, <1>2, <1>6 DEF Grounds

LEMMA SamplingKeeps ==
  ASSUME Carried, NEW s \in Sessions, NEW r, Samples(s, r),
         \/ Fade /\ Ended(s, r, "completed")
         \/ \A p \in DOMAIN probe' : ~ probe'[p].aborting
  PROVE  Grounds'
<1>1. AbortsHalted'
  BY HaltedStays DEF Samples, NoAcceptance
<1>2. OutcomeHasEvidence'
  BY OutcomesStay DEF Samples, NoOutcome
<1>3. CASE Fade /\ Ended(s, r, "completed")
  <2>1. r \in DOMAIN rows
    BY MirroredRun DEF Samples, Holds, Carried, Base, Core, Inv
  <2>2. Ended(s, r, "completed")'
    BY <1>3, <2>1, EndedStays DEF Carried, RunOutcome
  <2>3. SamplesSeen'
    BY <1>3, <2>2, SamplesStay DEF Samples, Same
  <2> QED BY <1>1, <1>2, <2>3 DEF Grounds
<1>4. CASE \A p \in DOMAIN probe' : ~ probe'[p].aborting
  <2>1. SamplesSeen'
    BY <1>4 DEF SamplesSeen
  <2> QED BY <1>1, <1>2, <2>1 DEF Grounds
<1> QED BY <1>3, <1>4

(* What a handler that begins puts in its slot: nothing has been read. *)
Begins(p, q) ==
  /\ q.evidence = "null" /\ q.at \in {"asking", "status"}
  /\ probe' = Put(probe, p, q)
  /\ \/ ~ q.aborting
     \/ /\ p \in ObserverSlots /\ runs' = runs
        /\ q.session \in DOMAIN runs /\ runs[q.session].status = "aborting"

(* What becomes of the probes in a step. *)
ProbesMove ==
  \/ \A p \in DOMAIN probe' : p \in DOMAIN probe /\ probe'[p] = probe[p]
  \/ \E p \in Slots : \E q : Begins(p, q)
  \/ \E p \in Slots : \E q : Leaves(p, q)

LEMMA HandlersMove ==
  ASSUME Base, EngineRecorded, ProbesSaw, [ControlNext]_allVars
  PROVE  ProbesMove
<1> USE DEF Slots
<1>1. CASE \/ UNCHANGED probe \/ DOMAIN probe' = {} \/ \E p : probe' = Drop(probe, p)
  BY <1>1 DEF ProbesMove, Drop
<1>2. CASE ServerRestarts \/ UNCHANGED allVars
  BY <1>1, <1>2 DEF ServerRestarts, allVars, controlVars
<1>3. ASSUME NEW s \in Sessions, NEW p \in ObserverSlots, ObserverLooks(p, s)
      PROVE  ProbesMove
  <2> DEFINE ask == Ask("observer", "asking", s, runs[s].id)
             q == [ask EXCEPT !.aborting = runs[s].status = "aborting"]
  <2>1. s \in DOMAIN runs /\ runs[s].id \in RunIds
    BY <1>3, MirroredRun DEF ObserverLooks, Base, Core, Inv, Run
  <2>2. ask \in Probe /\ ask.evidence = "null" /\ ask.at = "asking" /\ ask.session = s
    BY <2>1, SoundAsk DEF Base, Kinds, Ask
  <2>3. /\ q.evidence = "null" /\ q.at = "asking" /\ q.session = s
        /\ q.aborting = (runs[s].status = "aborting")
    BY <2>2 DEF Probe
  <2> HIDE DEF q
  <2>4. probe' = Put(probe, p, q) /\ runs' = runs
    BY <1>3 DEF ObserverLooks, Move, Quiet, NoChange, q
  <2>5. Begins(p, q)
    BY <2>1, <2>3, <2>4 DEF Begins
  <2> QED BY <2>5 DEF ProbesMove
<1>4. ASSUME NEW s \in Sessions, NEW p \in Slots, StartReads(p, s)
      PROVE  ProbesMove
  <2> DEFINE ask == Ask("start", "status", s, NoRun)
  <2>1. ask \in Probe /\ ask.evidence = "null" /\ ask.at = "status" /\ ~ ask.aborting
    BY SoundAsk DEF Base, Kinds, Ask
  <2> HIDE DEF ask
  <2>2. PICK v : probe' = Put(probe, p, [ask EXCEPT !.status = v])
    BY <1>4 DEF StartReads, Move, ask
  <2> DEFINE q == [ask EXCEPT !.status = v]
  <2>3. q.evidence = "null" /\ q.at = "status" /\ ~ q.aborting
    BY <2>1 DEF Probe
  <2> HIDE DEF q
  <2>4. Begins(p, q)
    BY <2>2, <2>3 DEF Begins, q
  <2> QED BY <2>4 DEF ProbesMove
<1>5. ASSUME NEW s \in Sessions, NEW p \in Slots, NEW r \in RunIds, NEW hint \in {"idle", "completed"},
             ClientHints(p, s, r, hint)
      PROVE  ProbesMove
  <2> DEFINE q == Ask(hint, "asking", s, r)
  <2>1. q.evidence = "null" /\ q.at = "asking" /\ ~ q.aborting
    BY DEF Ask
  <2> HIDE DEF q
  <2>2. UNCHANGED <<RequestVars, probe, thread>> \/ Move(p, q)
    BY <1>5 DEF ClientHints, q
  <2>3. CASE Move(p, q)
    <3>1. Begins(p, q)
      BY <2>1, <2>3 DEF Begins, Move
    <3> QED BY <3>1 DEF ProbesMove
  <2> QED BY <1>1, <2>2, <2>3
<1>6. ASSUME NEW p \in Slots, ProbeStep(p)
      PROVE  ProbesMove
  BY <1>1, <1>6, ProbeStepLeaves DEF ProbesMove
<1>7. ASSUME NEW s \in Sessions,
             \/ EngineStep(s) \/ ClockTicks(s)
             \/ \E r \in RunIds, status \in ReportedStatus : ClientReports(s, r, status)
             \/ \E r \in RunIds : ProxyReserves(s, r)
             \/ \E r \in RunIds, c \in AbortCommands : StopRequested(s, r, c)
      PROVE  UNCHANGED probe
  BY <1>7 DEF EngineStep, EngineFinishes, EngineLost, ClockTicks, controlVars, ClientReports,
              ProxyReserves, StopRequested
<1>8. ASSUME NEW t, \/ EngineTakes(t) \/ PromptAccepted(t) \/ PromptFailed(t) \/ ProxySettles(t)
                    \/ EngineAnswersAbort(t) \/ StopAccepted(t) \/ StopFailed(t)
      PROVE  UNCHANGED probe
  BY <1>8 DEF EngineTakes, PromptAccepted, PromptFailed, ProxySettles, EngineAnswersAbort,
              StopAccepted, StopFailed, controlVars
<1> QED BY <1>1, <1>2, <1>3, <1>4, <1>5, <1>6, <1>7, <1>8 DEF ControlNext, HandlerNext

(* What probes have seen stays true. *)
LEMMA SawKept ==
  ASSUME Base, Base', Step, Grows, ProbesSaw, ProbesMove
  PROVE  ProbesSaw'
<1>0. \A p \in DOMAIN probe : Sound(probe[p]) /\ Saw(probe[p])
  BY SoundProbe DEF Base, ProbesSaw, Saw
<1> SUFFICES ASSUME NEW p \in DOMAIN probe', NEW q, q = probe'[p] PROVE Saw(q)'
  BY DEF ProbesSaw, Saw
<1>1. CASE p \in DOMAIN probe /\ probe'[p] = probe[p]
  BY <1>0, <1>1, SawStays
<1>2. ASSUME NEW x \in Slots, NEW new, Begins(x, new) PROVE Saw(q)'
  <2>1. CASE p = x
    BY <1>2, <2>1 DEF Begins, Put, Saw
  <2>2. CASE p # x
    BY <1>1, <1>2, <2>2 DEF Begins, Put
  <2> QED BY <2>1, <2>2
<1>3. ASSUME NEW x \in Slots, NEW new, Leaves(x, new) PROVE Saw(q)'
  <2>1. CASE p = x
    <3>1. q = new /\ Sound(new) /\ Saw(new)
      BY <1>3, <2>1 DEF Leaves, Put
    <3> QED BY <3>1, SawStays
  <2>2. CASE p # x
    BY <1>1, <1>3, <2>2 DEF Leaves, Put
  <2> QED BY <2>1, <2>2
<1> QED BY <1>1, <1>2, <1>3 DEF ProbesMove

(* A pass that begins on an aborting run changes nothing in memory. *)
LEMMA ProbesFade ==
  ASSUME ProbesMove
  PROVE  Fade
<1>1. ASSUME NEW p \in Slots, NEW q, Begins(p, q) PROVE Fade
  BY <1>1 DEF Begins, Fade, Put
<1>2. ASSUME NEW p \in Slots, NEW q, Leaves(p, q) PROVE Fade
  BY <1>2 DEF Leaves, Fade, Put
<1>3. CASE \A p \in DOMAIN probe' : p \in DOMAIN probe /\ probe'[p] = probe[p]
  BY <1>3 DEF Fade
<1> QED BY <1>1, <1>2, <1>3 DEF ProbesMove

(* A reconciliation on the ground of a message, or of an accepted abort. *)
LEMMA ReconcileKeepsGrounds ==
  ASSUME Carried, Fade, NEW s \in Sessions, NEW r, ReconcileAuthoritativeIdle(s, r),
         \/ Ended(s, r, "completed")
         \/ /\ \A p \in DOMAIN probe' : ~ probe'[p].aborting
            /\ Holds(s, r) /\ runs[s].status # "aborting" /\ runs[s].idle # "null"
               => Ended(s, r, "completed")
         \/ runs[s].status = "aborting" /\ Holds(s, r)
  PROVE  Grounds'
<1>1. CASE Meek
  BY <1>1, MeekKeeps
<1>2. CASE Samples(s, r)
  BY <1>2, SamplingKeeps DEF Samples
<1>3. CASE runs[s].abortAccepted /\ ClosesAs(s, r, "aborted")
  <2>1. r \in history'.halted
    BY <1>3 DEF ClosesAs, Holds, Carried, EvidenceOK, AbortsHalted, Grows
  <2>2. Evident(s, r, "aborted")'
    BY <2>1 DEF Evident
  <2> QED BY <1>3, <2>2, ClosingKeeps DEF RunOutcome
<1>4. CASE runs[s].status # "aborting" /\ runs[s].idle # "null" /\ ClosesAs(s, r, "completed")
  <2>1. Holds(s, r) /\ r \in DOMAIN rows
    BY <1>4 DEF ClosesAs
  <2>2. Ended(s, r, "completed")
    BY <1>4, <2>1
  <2>3. Ended(s, r, "completed")'
    BY <2>1, <2>2, EndedStays DEF Carried, RunOutcome
  <2>4. Evident(s, r, "completed")'
    BY <2>3 DEF Evident
  <2> QED BY <1>4, <2>4, ClosingKeeps DEF RunOutcome
<1> QED BY <1>1, <1>2, <1>3, <1>4, ReconcileMemory DEF Carried, Base, Core, Inv

(* A run closed as a message says. *)
LEMMA TerminalKeepsGrounds ==
  ASSUME Carried, Fade, NEW s \in Sessions, NEW r, NEW o \in RunOutcome, ObserveTerminal(s, r, o),
         r \in DOMAIN rows => Evident(s, r, o)'
  PROVE  Grounds'
<1>1. CASE Meek
  BY <1>1, MeekKeeps
<1>2. CASE ClosesAs(s, r, o)
  BY <1>2, ClosingKeeps DEF ClosesAs
<1> QED BY <1>1, <1>2, TerminalCloses DEF Carried, Base, Core, Inv

-----------------------------------------------------------------------------
(* Outcomes are evidenced, step by step. *)

(* What holds of every step before its outcomes are looked at. *)
LEMMA AllCarried ==
  ASSUME Base, EvidenceOK, [ControlNext]_allVars
  PROVE  Carried /\ Fade /\ EngineRecorded' /\ ProbesSaw'
<1>1. Base' /\ Step
  BY NextBase
<1>2. Grows /\ EngineRecorded'
  BY HistoryGrows DEF EvidenceOK
<1>3. ProbesMove
  BY HandlersMove DEF EvidenceOK
<1>4. ProbesSaw'
  BY <1>1, <1>2, <1>3, SawKept DEF EvidenceOK
<1>5. Fade
  BY <1>3, ProbesFade
<1>6. StopsHalted
  <2>1. ASSUME NEW t \in aborts, EngineAnswersAbort(t)
        PROVE  StopsHalted
    BY <2>1 DEF EngineAnswersAbort, StopsHalted, Base, ControlOK, History
  <2>2. CASE stopped' \subseteq stopped
    BY <2>2 DEF StopsHalted
  <2>3. ASSUME NEW p, Handles(p)
        PROVE  StopsHalted
    BY <2>2, <2>3 DEF Handles, OnlyHandler, externalVars
  <2>4. CASE ServerRestarts \/ UNCHANGED allVars
    BY <2>2, <2>4 DEF ServerRestarts, allVars, controlVars, externalVars
  <2>5. ASSUME NEW s \in Sessions,
               \/ EngineStep(s) \/ ClockTicks(s)
               \/ \E p \in ObserverSlots : ObserverLooks(p, s)
               \/ \E p \in RequestSlots :
                    \/ StartReads(p, s)
                    \/ \E r \in RunIds, hint \in {"idle", "completed"} : ClientHints(p, s, r, hint)
               \/ \E r \in RunIds :
                    \/ \E status \in ReportedStatus \ {"idle", "completed"} : ClientReports(s, r, status)
                    \/ r \in RouteRuns /\ ProxyReserves(s, r)
                    \/ \E c \in AbortCommands : StopRequested(s, r, c)
        PROVE  StopsHalted
    BY <2>2, <2>5 DEF EngineStep, EngineFinishes, EngineLost, ClockTicks, ObserverLooks, StartReads,
         ClientHints, ClientReports, ProxyReserves, StopRequested, OnlyHandler, controlVars, externalVars
  <2>6. ASSUME NEW t, EngineTakes(t) \/ PromptAccepted(t) \/ PromptFailed(t) \/ ProxySettles(t)
                      \/ StopAccepted(t) \/ StopFailed(t)
        PROVE  StopsHalted
    BY <2>2, <2>6 DEF EngineTakes, PromptAccepted, PromptFailed, ProxySettles, StopAccepted,
         StopFailed, controlVars, externalVars
  <2> QED BY <2>1, <2>3, <2>4, <2>5, <2>6, ProbeStepHandles DEF ControlNext, HandlerNext
<1> QED BY <1>1, <1>2, <1>4, <1>5, <1>6 DEF Carried

LEMMA ReservesMeek ==
  ASSUME StateOK, NEW p, NEW s \in Sessions, Reserves(p, s)
  PROVE  Meek /\ NoAbort
<1>1. CASE \E r \in RouteRuns : BeginStart(s, r)
  BY <1>1, BeginStartMeek, RouteAssumption
<1>2. CASE BeginStartFails(s) \/ Quiet
  BY <1>2, NoChangeMeek DEF BeginStartFails, ReserveStartFails, Quiet, NoChange, journalVars
<1> QED BY <1>1, <1>2 DEF Reserves

(* What a probe has seen is still so when its handler acts on it. *)
LEMMA SeenEvidence ==
  ASSUME Carried, NEW p \in DOMAIN probe, NEW q, q = probe[p],
         NEW o \in RunOutcome,
         \/ q.evidence = o
         \/ o = "completed" /\ q.at \in {"wait", "second"}
  PROVE  /\ Ended(q.session, q.run, o)
         /\ q.run \in DOMAIN rows => Evident(q.session, q.run, o)'
<1>1. Ended(q.session, q.run, o)
  BY DEF Carried, EvidenceOK, ProbesSaw, RunOutcome
<1>2. q.session \in Sessions
  BY ProbeFacts DEF Base, Carried
<1>3. ASSUME q.run \in DOMAIN rows
      PROVE  Evident(q.session, q.run, o)'
  BY <1>1, <1>2, <1>3, EndedStays DEF Carried, Evident
<1> QED BY <1>1, <1>3

LEMMA ObserverKeepsGrounds ==
  ASSUME OneObserverPass, Carried, Fade, NEW p \in Slots, ObserverActs(p)
  PROVE  Grounds'
<1>0. PICK q : q = probe[p]
  OBVIOUS
<1>1. p \in DOMAIN probe /\ q.kind = "observer"
  BY <1>0 DEF ObserverActs, At
<1>2. q \in Probe /\ q.session \in Sessions /\ q.run \in DOMAIN rows /\ q.run \in RunIds
  BY <1>0, <1>1, ProbeFacts DEF Base, Carried
<1>3. StateOK
  BY DEF Carried, Base, Core, Inv
<1>4. CASE q.status # "idle" /\ ObserveActivity(q.session, q.run, q.status)
  <2>1. q.status \in EngineActivity
    BY <1>2, <1>4 DEF Probe
  <2> QED BY <1>3, <1>4, <2>1, ActivityMeek, MeekKeeps
<1>5. CASE q.evidence \in {"failed", "aborted"} /\ ObserveTerminal(q.session, q.run, q.evidence)
  <2>1. q.evidence \in RunOutcome
    BY <1>5 DEF RunOutcome
  <2>2. Evident(q.session, q.run, q.evidence)'
    BY <1>0, <1>1, <1>2, <2>1, SeenEvidence
  <2> QED BY <1>2, <1>5, <2>1, <2>2, TerminalKeepsGrounds
<1>6. CASE q.evidence = "completed" /\ ReconcileAuthoritativeIdle(q.session, q.run)
  <2>1. Ended(q.session, q.run, "completed")
    BY <1>0, <1>1, <1>6, SeenEvidence DEF RunOutcome
  <2> QED BY <1>2, <1>6, <2>1, ReconcileKeepsGrounds
<1>7. CASE q.aborting /\ ReconcileAuthoritativeIdle(q.session, q.run)
  <2>1. /\ p \in ObserverSlots
        /\ Holds(q.session, q.run) /\ runs[q.session].status # "aborting" /\ runs[q.session].idle # "null"
           => Ended(q.session, q.run, "completed")
    BY <1>0, <1>1, <1>7 DEF Carried, EvidenceOK, SamplesSeen
  <2>2. probe' = Drop(probe, p)
    BY DEF ObserverActs, End
  <2>3. ASSUME NEW x \in DOMAIN probe' PROVE ~ probe'[x].aborting
    <3>1. x \in DOMAIN probe /\ x # p /\ probe'[x] = probe[x]
      BY <2>2, <2>3 DEF Drop
    <3>2. probe[x].aborting => x \in ObserverSlots
      BY <3>1 DEF Carried, EvidenceOK, SamplesSeen
    <3> QED BY <2>1, <3>1, <3>2 DEF OneObserverPass
  <2> QED BY <1>2, <1>7, <2>1, <2>3, ReconcileKeepsGrounds
<1>8. CASE NoChange
  BY <1>8, NoChangeMeek, MeekKeeps DEF NoChange, journalVars
<1> QED BY <1>0, <1>4, <1>5, <1>6, <1>7, <1>8 DEF ObserverActs

LEMMA HintKeepsGrounds ==
  ASSUME Carried, Fade, NEW p \in Slots, HintActs(p)
  PROVE  Grounds'
<1>0. PICK q : q = probe[p]
  OBVIOUS
<1>1. p \in DOMAIN probe /\ q.kind # "start"
  BY <1>0 DEF HintActs, At
<1>2. q \in Probe /\ q.session \in Sessions /\ q.run \in DOMAIN rows /\ q.run \in RunIds
  BY <1>0, <1>1, ProbeFacts DEF Base, Carried
<1>3. StateOK
  BY DEF Carried, Base, Core, Inv
<1>4. CASE q.status # "idle" /\ ObserveActivity(q.session, q.run, q.status)
  <2>1. q.status \in EngineActivity
    BY <1>2, <1>4 DEF Probe
  <2> QED BY <1>3, <1>4, <2>1, ActivityMeek, MeekKeeps
<1>5. ASSUME NEW o \in RunOutcome, q.evidence = o, ObserveTerminal(q.session, q.run, o)
      PROVE  Grounds'
  <2>2. Evident(q.session, q.run, o)'
    BY <1>0, <1>1, <1>2, <1>5, SeenEvidence
  <2> QED BY <1>2, <1>5, <2>2, TerminalKeepsGrounds
<1>6. CASE q.evidence = "completed" /\ ReconcileAuthoritativeIdle(q.session, q.run)
  <2>1. Ended(q.session, q.run, "completed")
    BY <1>0, <1>1, <1>6, SeenEvidence DEF RunOutcome
  <2> QED BY <1>2, <1>6, <2>1, ReconcileKeepsGrounds
<1>8. CASE NoChange
  BY <1>8, NoChangeMeek, MeekKeeps DEF NoChange, journalVars
<1> QED BY <1>0, <1>4, <1>5, <1>6, <1>8 DEF HintActs, RunOutcome

LEMMA StartKeepsGrounds ==
  ASSUME Carried, Fade, NEW p \in Slots,
         StartLooks(p) \/ StartDecides(p) \/ StartConfirms(p) \/ StartReserves(p)
  PROVE  Grounds'
<1>0. PICK q, s, r : q = probe[p] /\ s = q.session /\ r = q.run
  OBVIOUS
<1>1. p \in DOMAIN probe /\ q.kind = "start"
  BY <1>0 DEF StartLooks, StartDecides, StartConfirms, StartReserves, At
<1>2. q \in Probe /\ s \in Sessions
  BY <1>0, <1>1, ProbeFacts DEF Base, Carried
<1>3. StateOK
  BY DEF Carried, Base, Core, Inv
<1>4. CASE Meek
  BY <1>4, MeekKeeps
<1>5. CASE Quiet \/ NoChange \/ Reserves(p, s)
  <2>1. Meek
    BY <1>2, <1>3, <1>5, ReservesMeek, NoChangeMeek DEF Quiet, NoChange, journalVars
  <2> QED BY <2>1, <1>4
<1>6. ASSUME NEW x, q.status # "idle" /\ ObserveActivity(s, x, q.status)
      PROVE  Grounds'
  <2>1. q.status \in EngineActivity
    BY <1>2, <1>6 DEF Probe
  <2> QED BY <1>3, <1>4, <1>6, <2>1, ActivityMeek
<1>7. ASSUME s \in DOMAIN runs, runs[s].status = "aborting", ReconcileAuthoritativeIdle(s, runs[s].id)
      PROVE  Grounds'
  BY <1>2, <1>7, ReconcileKeepsGrounds DEF Holds
<1>8. ASSUME NEW o \in RunOutcome, q.evidence = o, ObserveTerminal(s, r, o)
      PROVE  Grounds'
  <2>1. r \in DOMAIN rows => Evident(s, r, o)'
    BY <1>0, <1>1, <1>8, SeenEvidence
  <2> QED BY <1>2, <1>8, <2>1, TerminalKeepsGrounds
<1>9. ASSUME q.evidence = "completed" \/ q.at = "second", ReconcileAuthoritativeIdle(s, r)
      PROVE  Grounds'
  <2>1. Ended(s, r, "completed")
    BY <1>0, <1>1, <1>9, SeenEvidence DEF RunOutcome
  <2> QED BY <1>2, <1>9, <2>1, ReconcileKeepsGrounds
<1>10. CASE StartLooks(p)
  BY <1>0, <1>5, <1>6, <1>7, <1>10 DEF StartLooks
<1>11. CASE StartDecides(p)
  BY <1>0, <1>5, <1>8, <1>9, <1>11 DEF StartDecides, RunOutcome
<1>12. CASE StartConfirms(p)
  BY <1>0, <1>5, <1>6, <1>9, <1>12 DEF StartConfirms, At
<1>13. CASE StartReserves(p)
  BY <1>0, <1>5, <1>13 DEF StartReserves
<1> QED BY <1>10, <1>11, <1>12, <1>13

(* The requests and the clients. *)
LEMMA ClientKeepsGrounds ==
  ASSUME Carried, Fade, NEW s \in Sessions, NEW r \in RunIds,
         \/ \E p, hint : ClientHints(p, s, r, hint)
         \/ \E status \in ReportedStatus \ {"idle", "completed"} : ClientReports(s, r, status)
  PROVE  Grounds'
<1>1. StateOK
  BY DEF Carried, Base, Core, Inv
<1>2. CASE Quiet
  BY <1>2, NoChangeMeek, MeekKeeps DEF Quiet, NoChange, journalVars
<1>3. CASE Holds(s, r) /\ runs[s].status = "aborting" /\ ObserveIdle(s, r)
  <2>1. CASE Meek
    BY <2>1, MeekKeeps
  <2>2. CASE runs[s].abortAccepted /\ ClosesAs(s, r, "aborted")
    <3>1. r \in history'.halted
      BY <1>3, <2>2 DEF Carried, EvidenceOK, AbortsHalted, Grows, Holds
    <3>2. Evident(s, r, "aborted")'
      BY <3>1 DEF Evident
    <3> QED BY <2>2, <3>2, ClosingKeeps DEF RunOutcome
  <2> QED BY <1>1, <1>3, <2>1, <2>2, IdleCloses
<1>4. ASSUME NEW status \in ReportedStatus \ {"idle", "completed"}, ClientReports(s, r, status)
      PROVE  Grounds'
  <2>1. Observe(s, r, status)
    BY <1>4 DEF ClientReports
  <2>2. CASE status \in RunOutcome
    <3>1. ObserveTerminal(s, r, status)
      BY <1>4, <2>1, <2>2 DEF Observe, RunOutcome, ActiveStatus
    <3>2. r \in history'.reported /\ status \in {"failed", "aborted"}
      BY <1>4, <2>2 DEF ClientReports, RunOutcome, Carried, Base, ControlOK, History
    <3>3. Evident(s, r, status)'
      BY <3>2 DEF Evident
    <3> QED BY <2>2, <3>1, <3>3, TerminalKeepsGrounds
  <2>3. CASE status \in EngineActivity \cup {"starting", "aborting"}
    <3>1. status \notin RunOutcome /\ status # "idle" /\ status \in ActiveStatus
      BY <2>3, ActivityAssumption DEF RunOutcome, ActiveStatus
    <3>2. ObserveActivity(s, r, status)
      BY <2>1, <3>1 DEF Observe
    <3> QED BY <1>1, <3>1, <3>2, ReportMeek, MeekKeeps
  <2> QED BY <1>4, <2>2, <2>3 DEF ReportedStatus
<1>5. ASSUME NEW p, NEW hint, ClientHints(p, s, r, hint) PROVE Grounds'
  BY <1>2, <1>3, <1>5 DEF ClientHints
<1> QED BY <1>4, <1>5

LEMMA RequestKeepsGrounds ==
  ASSUME Carried, Fade, NEW t,
         \/ t \in starts /\ \/ EngineTakes(t) \/ PromptAccepted(t)
                            \/ PromptFailed(t) \/ ProxySettles(t)
         \/ t \in aborts /\ (EngineAnswersAbort(t) \/ StopAccepted(t) \/ StopFailed(t))
  PROVE  Grounds'
<1>1. StateOK
  BY DEF Carried, Base, Core, Inv
<1>2. CASE EngineTakes(t) \/ EngineAnswersAbort(t)
  BY <1>2, NoChangeMeek, MeekKeeps DEF EngineTakes, EngineAnswersAbort, vars
<1>3. CASE PromptAccepted(t)
  BY <1>1, <1>3, AcceptStartMeek, MeekKeeps DEF PromptAccepted, FinishStart
<1>4. CASE PromptFailed(t) \/ ProxySettles(t)
  <2>1. RollbackStart(t.session, t.run) \/ NoChange
    BY <1>4 DEF PromptFailed, ProxySettles, AbandonStart
  <2> QED BY <1>1, <2>1, RollbackStartMeek, MeekKeeps
<1>5. CASE t \in aborts /\ StopFailed(t)
  <2>1. RollbackAbort(t.session, t.run, t.cmd, t.prev) \/ NoChange
    BY <1>5 DEF StopFailed, AbandonAbort
  <2>2. t.prev \in ActiveStatus
    BY <1>5 DEF Carried, Base, Core, Inv, TicketsOK, AbortTicket
  <2> QED BY <1>1, <2>1, <2>2, RollbackAbortMeek, MeekKeeps
<1>6. CASE StopAccepted(t)
  <2>1. AcceptAbort(t.session, t.run, t.cmd) /\ t.run \in history.halted /\ history' = history
    BY <1>6 DEF StopAccepted, FinishAbort, Carried, EvidenceOK, AbortsHalted
  <2>2. /\ NoOutcome /\ NoSample
        /\ NoAcceptance \/ \A s \in DOMAIN runs' :
             runs'[s].abortAccepted => Same(s) /\ (runs[s].abortAccepted \/ runs'[s].id = t.run)
    BY <1>1, <2>1, AcceptAbortMemory
  <2>3. AbortsHalted'
    BY <2>1, <2>2, HaltedStays DEF NoAcceptance
  <2>4. SamplesSeen'
    BY <2>2, SamplesStay DEF NoSample
  <2>5. OutcomeHasEvidence'
    BY <2>2, OutcomesStay DEF NoOutcome
  <2> QED BY <2>3, <2>4, <2>5 DEF Grounds
<1> QED BY <1>2, <1>3, <1>4, <1>5, <1>6

(* A run restored as aborting counts as aborted because the engine was told. *)
LEMMA RestartKeepsGrounds ==
  ASSUME Carried, Fade, ServerRestarts
  PROVE  Grounds'
<1>1. /\ runs' = [s \in {rows[r].session : r \in OpenRuns} |-> Restored(s)]
      /\ rows' = rows /\ DOMAIN probe' = {} /\ stopped' = {}
      /\ history'.halted = history.halted \cup {r \in OpenRuns : rows[r].status = "aborting"}
  BY DEF ServerRestarts, Restart, Restore, journalVars, Carried, Base, ControlOK, History
<1>2. ASSUME NEW s \in DOMAIN runs', runs'[s].abortAccepted
      PROVE  runs'[s].id \in history'.halted
  <2>1. runs'[s] = Restored(s)
    BY <1>1, <1>2
  <2>2. Restored(s).abortAccepted = (rows[Restored(s).id].status = "aborting")
    BY DEF Restored
  <2>3. StateOK'
    BY DEF Carried, Base, Core, Inv
  <2>4. IsOpen(runs[s].id)'
    BY <2>3 DEF StateOK, JournalMirrorsMemory
  <2>5. runs'[s].id \in OpenRuns
    BY <1>1, <2>4 DEF IsOpen, OpenRuns
  <2> QED BY <1>1, <1>2, <2>1, <2>2, <2>5
<1>3. AbortsHalted'
  BY <1>1, <1>2 DEF AbortsHalted
<1>4. SamplesSeen'
  BY <1>1 DEF SamplesSeen
<1>5. OutcomeHasEvidence'
  BY <1>1, OutcomesStay
<1> QED BY <1>3, <1>4, <1>5 DEF Grounds

LEMMA NextEvidence ==
  ASSUME OneObserverPass, Base, EvidenceOK, [ControlNext]_allVars
  PROVE  EvidenceOK'
<1>1. Carried /\ Fade /\ EngineRecorded' /\ ProbesSaw'
  BY AllCarried
<1> SUFFICES Grounds'
  BY <1>1 DEF Grounds, EvidenceOK
<1>2. StateOK
  BY DEF Base, Core, Inv
<1>3. CASE UNCHANGED <<rows, runs>>
  BY <1>1, <1>3, NoChangeMeek, MeekKeeps
<1>4. ASSUME NEW p \in Slots, ProbeStep(p)
      PROVE  Grounds'
  <2>1. CASE ReadsStatus(p) \/ ReadsEvidence(p) \/ ReadFails(p) \/ StartRereads(p)
    BY <1>3, <2>1 DEF ReadsStatus, ReadsEvidence, ReadFails, StartRereads, Quiet, NoChange, journalVars
  <2> QED BY <1>1, <1>4, <2>1, ObserverKeepsGrounds, HintKeepsGrounds, StartKeepsGrounds DEF ProbeStep
<1>5. ASSUME NEW s \in Sessions,
             \/ EngineStep(s) \/ (\E p : ObserverLooks(p, s)) \/ (\E p : StartReads(p, s))
      PROVE  Grounds'
  BY <1>3, <1>5 DEF EngineStep, EngineFinishes, EngineLost, ObserverLooks, StartReads, Quiet,
                    NoChange, journalVars, vars
<1>6. ASSUME NEW s \in Sessions, ClockTicks(s)
      PROVE  Grounds'
  BY <1>1, <1>2, <1>6, IntervalMeek, MeekKeeps DEF ClockTicks, TimePasses, Meek
<1>7. ASSUME NEW s \in Sessions, NEW r \in RunIds, ProxyReserves(s, r)
      PROVE  Grounds'
  BY <1>1, <1>2, <1>7, BeginStartMeek, MeekKeeps DEF ProxyReserves
<1>8. ASSUME NEW s \in Sessions, NEW r \in RunIds, NEW c \in AbortCommands, StopRequested(s, r, c)
      PROVE  Grounds'
  BY <1>1, <1>2, <1>8, ReserveAbortMeek, MeekKeeps DEF StopRequested, BeginAbort
<1>9. CASE ServerRestarts
  BY <1>1, <1>9, RestartKeepsGrounds
<1>10. CASE UNCHANGED allVars
  BY <1>3, <1>10 DEF allVars, vars
<1> QED BY <1>1, <1>4, <1>5, <1>6, <1>7, <1>8, <1>9, <1>10, ClientKeepsGrounds, RequestKeepsGrounds
        DEF ControlNext, HandlerNext

LEMMA InitEvidence == ControlInit => EvidenceOK
BY DEF ControlInit, Init, JournalInit, EvidenceOK, EngineRecorded, ProbesSaw, AbortsHalted,
       SamplesSeen, OutcomeHasEvidence, RunOutcome

(* No outcome is invented: provided the observer's passes do not overlap, a *)
(* run closed completed, failed or aborted has a message of its time, an    *)
(* abort the engine accepted or a client's report behind it, whatever was   *)
(* aborted, rolled back, replaced or restored between the reading and the   *)
(* closing.                                                                 *)
THEOREM OutcomesAreEvidenced ==
  ASSUME OneObserverPass
  PROVE  ControlSpec => []OutcomeHasEvidence
<1>1. Base /\ EvidenceOK /\ [ControlNext]_allVars => EvidenceOK'
  BY NextEvidence
<1>2. EvidenceOK => OutcomeHasEvidence
  BY DEF EvidenceOK
<1> QED BY <1>1, <1>2, InitEvidence, BaseInvariance, PTL DEF ControlSpec

-----------------------------------------------------------------------------
(* Prompts are kept apart. *)

(* What the argument about prompts may lean on. *)
Prompting ==
  /\ Base /\ Base' /\ Step /\ Grows
  /\ EngineRecorded /\ ProbesSaw
  /\ PromptOK

(* Every active run goes on. *)
SameIds == \A s \in DOMAIN runs : s \in DOMAIN runs' /\ runs'[s].id = runs[s].id

(* A run gives its session up. *)
Frees(s, r) == Holds(s, r) /\ runs' = Drop(runs, s)

(* A run that gives its session up has no prompt in the engine, and none on *)
(* its way there.                                                           *)
Released ==
  \A s \in Sessions, r \in RunIds :
    Holds(s, r) /\ ~ Holds(s, r)' =>
      /\ r \notin engine[s].pending
      /\ \A t \in starts' : t.run = r => r \in history.taken

(* A prompt is sent for the run that has just been reserved. *)
Requested ==
  \/ starts' \subseteq starts
  \/ \E s \in Sessions, r \in RunIds :
       Opens(s, r) /\ starts' \subseteq starts \cup {[session |-> s, run |-> r]}

(* A step that the engine has no part in. *)
Ordinary ==
  /\ aborts' = {} /\ NoAbort
  /\ engine' = engine /\ history'.taken = history.taken
  /\ Released /\ Requested

(* The run of a session was its run before, or has just been reserved. *)
LEMMA HeldRuns ==
  ASSUME StateOK, Step, NEW s \in DOMAIN runs'
  PROVE  \/ Same(s) /\ runs'[s].gen = runs[s].gen
         \/ \E r \in RunIds : Opens(s, r) /\ runs'[s].id = r
<1>1. CASE Progresses
  BY <1>1 DEF Progresses, SameRuns, Same
<1>2. ASSUME NEW t \in DOMAIN runs, NEW reason, Closes(t, reason)
      PROVE  Same(s) /\ runs'[s].gen = runs[s].gen
  BY <1>2 DEF Closes, Drop, Same
<1>3. ASSUME NEW t \in Sessions, NEW r \in RunIds, Opens(t, r)
      PROVE  \/ Same(s) /\ runs'[s].gen = runs[s].gen
             \/ Opens(s, r) /\ runs'[s].id = r
  BY <1>3 DEF Opens, Same
<1> QED BY <1>1, <1>2, <1>3 DEF Step

LEMMA StillHeld ==
  ASSUME StateOK, Step, NEW s, NEW r \in DOMAIN rows, Holds(s, r)'
  PROVE  Holds(s, r) /\ runs'[s].gen = runs[s].gen
<1>1. s \in DOMAIN runs' /\ runs'[s].id = r
  BY DEF Holds
<1>2. ~ Opens(s, r)
  BY DEF Opens
<1> QED BY <1>1, <1>2, HeldRuns DEF Same, Holds

(* An ordinary step keeps the engine working for the active runs. *)
LEMMA OrdinaryKeeps ==
  ASSUME Prompting, Ordinary
  PROVE  WorksForActive' /\ SendersHold' /\ EvidenceIsOwn'
<1>0. /\ StateOK /\ StateOK' /\ generation' \in Nat /\ generation \in Nat
      /\ \A s \in Sessions : engine[s].pending \subseteq RunIds /\ engine[s].stamp \in Nat
      /\ \A t \in starts : t.session \in Sessions /\ t.run \in RunIds /\ t.run \in DOMAIN rows
      /\ engine' = engine /\ history'.taken = history.taken
  BY DEF Prompting, Base, Core, Inv, StateOK, JournalTypeOK, ControlOK, Engine, TicketsOK, StartTicket,
         TicketsNameRuns, Ordinary
<1>1. WorksForActive'
  <2> SUFFICES ASSUME NEW s \in Sessions, NEW r \in engine[s].pending
               PROVE  r \in history.taken /\ Holds(s, r)'
    BY <1>0 DEF WorksForActive
  <2>1. r \in history.taken /\ Holds(s, r) /\ r \in RunIds
    BY <1>0 DEF Prompting, PromptOK, WorksForActive
  <2> QED BY <2>1 DEF Ordinary, Released
<1>2. SendersHold'
  <2>1. ASSUME NEW t \in starts, NEW u \in starts, t.run = u.run PROVE t = u
    BY <2>1 DEF Prompting, PromptOK, SendersHold
  <2>2. ASSUME NEW t \in starts, t \in starts', t.run \notin history.taken
        PROVE  Holds(t.session, t.run)'
    BY <1>0, <2>2 DEF Prompting, PromptOK, SendersHold, Ordinary, Released
  <2>3. history.taken \subseteq DOMAIN rows'
    BY RowsStay, <1>0 DEF Prompting, PromptOK, SendersHold, RowStays
  <2>4. CASE starts' \subseteq starts
    BY <1>0, <2>1, <2>2, <2>3, <2>4 DEF SendersHold
  <2>5. ASSUME NEW s \in Sessions, NEW r \in RunIds, Opens(s, r),
               starts' \subseteq starts \cup {[session |-> s, run |-> r]}
        PROVE  SendersHold'
    <3>1. /\ r \notin DOMAIN rows /\ s \in DOMAIN runs' /\ runs'[s].id = r
      BY <2>5 DEF Opens
    <3>2. Holds(s, r)'
      BY <3>1 DEF Holds
    <3>3. \A t \in starts' : t \in starts \/ t = [session |-> s, run |-> r]
      BY <2>5
    <3>4. ASSUME NEW t \in starts', NEW u \in starts', t.run = u.run PROVE t = u
      BY <1>0, <2>1, <3>1, <3>3, <3>4
    <3>5. ASSUME NEW t \in starts' PROVE t.run \in history.taken \/ Holds(t.session, t.run)'
      BY <2>2, <3>2, <3>3
    <3> QED BY <1>0, <2>3, <3>4, <3>5 DEF SendersHold
  <2> QED BY <2>4, <2>5 DEF Ordinary, Requested
<1>3. generation <= generation'
  <2>1. generation' \in {generation, generation + 1}
    <3>1. CASE Progresses
      BY <3>1 DEF Progresses
    <3>2. ASSUME NEW s \in DOMAIN runs, NEW reason, Closes(s, reason)
          PROVE  generation' = generation
      BY <3>2 DEF Closes
    <3>3. ASSUME NEW s \in Sessions, NEW r \in RunIds, Opens(s, r)
          PROVE  generation' = generation + 1
      BY <3>3 DEF Opens
    <3> QED BY <3>1, <3>2, <3>3 DEF Prompting, Step
  <2> QED BY <1>0, <2>1
<1>4. EvidenceIsOwn'
  <2>1. ASSUME NEW s \in Sessions PROVE engine[s].stamp <= generation /\ engine[s].stamp <= generation'
    BY <1>0, <1>3 DEF Prompting, PromptOK, EvidenceIsOwn
  <2>2. ASSUME NEW s \in DOMAIN runs', engine[s].stamp >= runs'[s].gen
        PROVE  Through(s, runs[s].id)'
    <3>1. s \in Sessions
      BY <1>0 DEF StateOK, RunsTypeOK
    <3>2. ASSUME NEW r \in RunIds, Opens(s, r) PROVE FALSE
      BY <1>0, <2>1, <2>2, <3>1, <3>2 DEF Opens
    <3>3. Same(s) /\ runs'[s].gen = runs[s].gen
      BY <1>0, <3>2, HeldRuns DEF Prompting
    <3>4. Through(s, runs[s].id)
      BY <2>2, <3>3 DEF Same, Prompting, PromptOK, EvidenceIsOwn
    <3> QED BY <1>0, <3>3, <3>4 DEF Through, Same
  <2> QED BY <1>0, <2>1, <2>2 DEF EvidenceIsOwn
<1> QED BY <1>1, <1>2, <1>4

(* What a turn that is over leaves is final. *)
ThroughStays == \A s \in Sessions, r \in RunIds : Through(s, r) => Through(s, r)'

LEMMA ProbesSawEndStays ==
  ASSUME Prompting, ProbesMove, ThroughStays
  PROVE  ProbesSawEnd'
<1> SUFFICES ASSUME NEW p \in DOMAIN probe', NEW q, q = probe'[p], Knows(q), Holds(q.session, q.run)'
             PROVE  Through(q.session, q.run)'
  BY DEF ProbesSawEnd, Knows
<1>0. StateOK /\ StateOK' /\ Step
  BY DEF Prompting, Base, Core, Inv
<1>1. ASSUME Sound(q), Saw(q)
      PROVE  /\ q.session \in Sessions /\ q.run \in RunIds /\ q.run \in DOMAIN rows
             /\ Holds(q.session, q.run) /\ runs[q.session].gen = rows[q.run].gen
  <2>1. q.session \in Sessions /\ q.run \in DOMAIN rows /\ q.run \in RunIds
    BY <1>0, <1>1 DEF Sound, Saw, Knows, Probe, StateOK, JournalTypeOK
  <2>2. Holds(q.session, q.run)
    BY <1>0, <2>1, StillHeld
  <2>3. runs[q.session].gen = rows[q.run].gen
    BY <1>0, <2>2, MirroredRun DEF Holds
  <2> QED BY <2>1, <2>2, <2>3
<1>2. ASSUME NEW x \in DOMAIN probe, Knows(probe[x]), probe[x].session = q.session, probe[x].run = q.run,
             Sound(q), Saw(q)
      PROVE  Through(q.session, q.run)'
  <2>1. Through(q.session, q.run)
    BY <1>1, <1>2 DEF Prompting, PromptOK, ProbesSawEnd, Knows
  <2> QED BY <1>1, <1>2, <2>1 DEF ThroughStays
<1>3. CASE p \in DOMAIN probe /\ q = probe[p]
  <2>1. Sound(q) /\ Saw(q)
    BY <1>3, SoundProbe DEF Base, Prompting, ProbesSaw, Saw
  <2> QED BY <1>2, <1>3, <2>1
<1>4. ASSUME NEW x \in Slots, NEW new, Begins(x, new) PROVE Through(q.session, q.run)'
  <2>1. p # x
    BY <1>4 DEF Begins, Put, Knows
  <2> QED BY <1>3, <1>4, <2>1 DEF Begins, Put
<1>5. ASSUME NEW x \in Slots, NEW new, Leaves(x, new) PROVE Through(q.session, q.run)'
  <2>1. CASE p # x
    BY <1>3, <1>5, <2>1 DEF Leaves, Put
  <2>2. CASE p = x
    <3>1. q = new /\ Sound(q) /\ Saw(q)
      BY <1>5, <2>2 DEF Leaves, Put
    <3>2. CASE q.evidence # "null" /\ q.evidence = EvidenceRead(q.session, q.run)
      <4>1. engine[q.session].stamp >= rows[q.run].gen
        BY <3>2 DEF EvidenceRead
      <4>2. Through(q.session, q.run)
        BY <1>1, <3>1, <4>1 DEF Prompting, PromptOK, EvidenceIsOwn, Holds
      <4> QED BY <1>1, <3>1, <4>2 DEF ThroughStays
    <3> QED BY <1>2, <1>5, <2>2, <3>1, <3>2 DEF Leaves
  <2> QED BY <2>1, <2>2
<1> QED BY <1>3, <1>4, <1>5 DEF ProbesMove

(* An ordinary step, and the steps of the engine. *)
LEMMA OrdinaryKeepsPrompts ==
  ASSUME Prompting, Ordinary, ProbesMove
  PROVE  PromptOK'
<1>1. ThroughStays
  BY DEF Ordinary, ThroughStays, Through
<1>2. NobodyStops'
  BY ProbesFade DEF Prompting, PromptOK, NobodyStops, Ordinary, NoAbort, Same, Fade
<1> QED BY <1>1, <1>2, OrdinaryKeeps, ProbesSawEndStays DEF PromptOK

LEMMA TakingKeepsPrompts ==
  ASSUME Prompting, NEW t \in starts, EngineTakes(t), ProbesMove
  PROVE  PromptOK'
<1>1. /\ UNCHANGED <<generation, rows, runs, starts, aborts, probe>>
      /\ t.run \notin history.taken /\ t.session \in Sessions /\ t.run \in RunIds
      /\ t.run \in DOMAIN rows
      /\ history'.taken = history.taken \cup {t.run}
      /\ \A s \in Sessions : engine'[s].stamp = engine[s].stamp
      /\ \A s \in Sessions : s # t.session => engine'[s].pending = engine[s].pending
      /\ engine'[t.session].pending = engine[t.session].pending \cup {t.run}
  BY DEF EngineTakes, vars, Prompting, Base, Core, ControlOK, Engine, History, Inv, TicketsOK, StartTicket,
         TicketsNameRuns
<1>2. Holds(t.session, t.run)
  BY <1>1 DEF Prompting, PromptOK, SendersHold
<1>3. ThroughStays
  BY <1>1 DEF ThroughStays, Through
<1>4. NobodyStops'
  BY <1>1 DEF Prompting, PromptOK, NobodyStops
<1>5. WorksForActive'
  BY <1>1, <1>2 DEF Prompting, PromptOK, WorksForActive, Holds
<1>6. SendersHold'
  BY <1>1 DEF Prompting, PromptOK, SendersHold, Holds
<1>7. EvidenceIsOwn'
  <2>1. ASSUME NEW s \in DOMAIN runs, engine[s].stamp >= runs[s].gen
        PROVE  Through(s, runs[s].id)'
    <3>1. s \in Sessions /\ runs[s].id \in RunIds
      BY <2>1, MirroredRun DEF Prompting, Base, Core, Inv, Run
    <3>2. Through(s, runs[s].id)
      BY <2>1 DEF Prompting, PromptOK, EvidenceIsOwn
    <3> QED BY <1>1, <3>1, <3>2 DEF Through
  <2>2. DOMAIN runs \subseteq Sessions
    BY DEF Prompting, Base, Core, Inv, StateOK, RunsTypeOK
  <2> QED BY <1>1, <2>1, <2>2 DEF Prompting, PromptOK, EvidenceIsOwn
<1> QED BY <1>3, <1>4, <1>5, <1>6, <1>7, ProbesSawEndStays DEF PromptOK

LEMMA EndingKeepsPrompts ==
  ASSUME Prompting, NEW s \in Sessions, EngineStep(s), ProbesMove
  PROVE  PromptOK'
<1>1. /\ UNCHANGED <<generation, rows, runs, starts, aborts, probe>>
      /\ history'.taken = history.taken
      /\ \A x \in Sessions : engine'[x].pending \subseteq engine[x].pending
      /\ \A x \in Sessions : engine'[x].stamp <= generation
      /\ \A x \in Sessions : x # s => engine'[x].stamp = engine[x].stamp
  <2>1. \A x \in Sessions : engine[x].stamp <= generation /\ engine[x].stamp \in Nat
    BY DEF Prompting, PromptOK, EvidenceIsOwn, Base, ControlOK, Engine
  <2>2. CASE EngineLost(s)
    BY <2>1, <2>2 DEF EngineLost, vars, Prompting, Base, ControlOK, Engine
  <2>3. ASSUME NEW r \in RunIds, NEW o \in EngineOutcomes, EngineFinishes(s, r, o)
        PROVE  /\ UNCHANGED <<generation, rows, runs, starts, aborts, probe>>
               /\ history'.taken = history.taken
               /\ \A x \in Sessions : engine'[x].pending \subseteq engine[x].pending
               /\ \A x \in Sessions : engine'[x].stamp <= generation
               /\ \A x \in Sessions : x # s => engine'[x].stamp = engine[x].stamp
    <3>1. PICK stamp \in rows[r].gen .. generation :
            engine' = [engine EXCEPT ![s] = [pending |-> @.pending \ {r}, stamp |-> stamp, evidence |-> o]]
      BY <2>3 DEF EngineFinishes
    <3>2. /\ engine'[s].pending \subseteq engine[s].pending /\ engine'[s].stamp = stamp
          /\ \A x \in Sessions : x # s => engine'[x] = engine[x]
      BY <3>1 DEF Prompting, Base, ControlOK
    <3>3. history'.taken = history.taken
      BY <2>3 DEF EngineFinishes, Prompting, Base, ControlOK, History
    <3> QED BY <2>1, <2>3, <3>1, <3>2, <3>3 DEF EngineFinishes, vars
  <2> QED BY <2>2, <2>3 DEF EngineStep
<1>2. engine'[s].stamp = engine[s].stamp \/ \E r \in engine[s].pending : r \notin engine'[s].pending
  <2>1. CASE EngineLost(s)
    BY <2>1 DEF EngineLost, Prompting, Base, ControlOK, Engine
  <2>2. ASSUME NEW r \in RunIds, NEW o \in EngineOutcomes, EngineFinishes(s, r, o)
        PROVE  r \in engine[s].pending /\ r \notin engine'[s].pending
    BY <2>2 DEF EngineFinishes, Prompting, Base, ControlOK
  <2> QED BY <2>1, <2>2 DEF EngineStep
<1>3. ThroughStays
  BY <1>1 DEF ThroughStays, Through
<1>4. NobodyStops' /\ SendersHold'
  BY <1>1 DEF Prompting, PromptOK, NobodyStops, SendersHold, Holds
<1>5. WorksForActive'
  BY <1>1 DEF Prompting, PromptOK, WorksForActive, Holds
<1>6. EvidenceIsOwn'
  <2>1. ASSUME NEW x \in DOMAIN runs, engine'[x].stamp >= runs[x].gen
        PROVE  Through(x, runs[x].id)'
    <3>1. x \in Sessions
      BY MirroredRun DEF Prompting, Base, Core, Inv
    <3>2. CASE engine'[x].stamp = engine[x].stamp
      BY <1>1, <2>1, <3>1, <3>2 DEF Prompting, PromptOK, EvidenceIsOwn, Through
    <3>3. ASSUME x = s, NEW r \in engine[s].pending, r \notin engine'[s].pending
          PROVE  Through(x, runs[x].id)'
      <4>1. r \in history.taken /\ r = runs[s].id
        BY <3>3 DEF Prompting, PromptOK, WorksForActive, Holds
      <4> QED BY <1>1, <3>3, <4>1 DEF Through
    <3> QED BY <1>1, <1>2, <3>1, <3>2, <3>3
  <2> QED BY <1>1, <2>1 DEF EvidenceIsOwn
<1> QED BY <1>3, <1>4, <1>5, <1>6, ProbesSawEndStays DEF PromptOK

-----------------------------------------------------------------------------
(* The ordinary steps. *)

LEMMA CalmIsOrdinary ==
  ASSUME Prompting, Requested, SameIds, NoAbort, aborts' = {},
         engine' = engine, history'.taken = history.taken
  PROVE  Ordinary
BY DEF SameIds, Holds, Released, Ordinary

LEMMA FreeingIsOrdinary ==
  ASSUME Prompting, starts' = starts, NoAbort, aborts' = {},
         engine' = engine, history'.taken = history.taken,
         NEW s, NEW r, Frees(s, r), Through(s, r)
  PROVE  Ordinary
<1>1. Released
  BY DEF Frees, Drop, Holds, Released, Through
<1> QED BY <1>1 DEF Ordinary, Requested

LEMMA ProgressIsCalm ==
  ASSUME Progresses \/ (\E s \in Sessions, r \in RunIds : Opens(s, r)) \/ NoChange
  PROVE  SameIds
BY DEF Progresses, SameRuns, Opens, NoChange, SameIds

LEMMA TerminalFrees ==
  ASSUME StateOK, NEW s, NEW r, NEW o \in RunOutcome, ObserveTerminal(s, r, o)
  PROVE  NoAbort /\ (SameIds \/ Frees(s, r))
<1>1. NoAbort
  BY TerminalCloses DEF ClosesAs
<1>2. SameIds \/ Frees(s, r)
  BY ProgressIsCalm DEF ObserveTerminal, Settle, Frees
<1> QED BY <1>1, <1>2

LEMMA ReconcileFrees ==
  ASSUME StateOK, NEW s, NEW r, ReconcileAuthoritativeIdle(s, r)
  PROVE  NoAbort /\ (SameIds \/ Frees(s, r))
<1>1. NoAbort
  BY ReconcileMemory DEF ClosesAs, Samples
<1>2. SameIds \/ Frees(s, r)
  <2> DEFINE next == [runs[s] EXCEPT !.idle = "recent"]
  <2>1. CASE Holds(s, r) /\ Advance("idle_suspected", s, next)
    <3>1. s \in DOMAIN runs /\ runs[s] \in Run
      BY <2>1, MirroredRun DEF Holds
    <3>2. next \in Run /\ next.id = runs[s].id /\ next.gen = runs[s].gen
      BY <3>1 DEF Run, IdleSample
    <3> HIDE DEF next
    <3> QED BY <2>1, <3>1, <3>2, AdvanceProgresses, ProgressIsCalm
  <2>2. CASE NoChange
    BY <2>2, ProgressIsCalm
  <2>3. CASE Holds(s, r) /\ \E reason : Settle("run_terminal", s, reason)
    BY <2>3 DEF Settle, Frees
  <2> QED BY <2>1, <2>2, <2>3 DEF ReconcileAuthoritativeIdle
<1> QED BY <1>1, <1>2

LEMMA ReservesOrdinary ==
  ASSUME Prompting, NEW p, NEW s \in Sessions, Reserves(p, s), OnlyHandler
  PROVE  Ordinary
<1>1. aborts = {} /\ StateOK /\ engine' = engine /\ history'.taken = history.taken
  BY DEF Prompting, PromptOK, NobodyStops, Base, Core, Inv, OnlyHandler, externalVars
<1>2. ASSUME NEW r \in RouteRuns, BeginStart(s, r) PROVE Ordinary
  <2>1. r \in RunIds /\ NoAbort /\ Opens(s, r) /\ aborts' = aborts
        /\ starts' = starts \cup {[session |-> s, run |-> r]}
    BY <1>1, <1>2, BeginStartMeek, RouteAssumption DEF BeginStart
  <2> QED BY <1>1, <2>1, CalmIsOrdinary, ProgressIsCalm DEF Requested
<1>3. CASE BeginStartFails(s)
  BY <1>1, <1>3, CalmIsOrdinary, ProgressIsCalm, NoChangeMeek, ReserveStartFailsProgresses
     DEF BeginStartFails, ReserveStartFails, RequestVars, Requested
<1>4. CASE Quiet
  BY <1>1, <1>4, CalmIsOrdinary, ProgressIsCalm, NoChangeMeek
     DEF Quiet, NoChange, journalVars, RequestVars, Requested
<1> QED BY <1>2, <1>3, <1>4 DEF Reserves

(* What handlers share in this argument. *)
LEMMA HandlerIsOrdinary ==
  ASSUME Prompting, OnlyHandler, UNCHANGED RequestVars, NEW s, NEW r,
         \/ SameIds /\ NoAbort
         \/ Frees(s, r) /\ NoAbort /\ Through(s, r)
  PROVE  Ordinary
<1>1. aborts' = {} /\ starts' = starts /\ engine' = engine /\ history' = history
  BY DEF Prompting, PromptOK, NobodyStops, OnlyHandler, externalVars, RequestVars
<1> QED BY <1>1, CalmIsOrdinary, FreeingIsOrdinary DEF Requested

(* A handler that reports activity, or does nothing. *)
LEMMA ReportIsOrdinary ==
  ASSUME Prompting, OnlyHandler, UNCHANGED RequestVars,
         \/ NoChange
         \/ \E s, r, status : status \in EngineActivity /\ ObserveActivity(s, r, status)
  PROVE  Ordinary
<1>1. StateOK
  BY DEF Prompting, Base, Core, Inv
<1>2. CASE NoChange
  BY <1>2, HandlerIsOrdinary, ProgressIsCalm, NoChangeMeek DEF NoChange, journalVars
<1>3. ASSUME NEW s, NEW r, NEW status \in EngineActivity, ObserveActivity(s, r, status)
      PROVE  Ordinary
  <2>1. status \in ActiveStatus \ {"aborting"}
    BY ActivityAssumption DEF ActiveStatus
  <2> QED BY <1>1, <1>3, <2>1, HandlerIsOrdinary, ProgressIsCalm, ActivityMeek, ObserveActivityProgresses
<1> QED BY <1>2, <1>3

(* A handler that closes a run has seen the end of the run's turn. *)
LEMMA EndingIsOrdinary ==
  ASSUME Prompting, OnlyHandler, UNCHANGED RequestVars,
         NEW p \in DOMAIN probe, Knows(probe[p]), NEW s, NEW r, s = probe[p].session, r = probe[p].run,
         \/ \E o \in RunOutcome : ObserveTerminal(s, r, o)
         \/ ReconcileAuthoritativeIdle(s, r)
  PROVE  Ordinary
<1>1. StateOK
  BY DEF Prompting, Base, Core, Inv
<1>2. NoAbort /\ (SameIds \/ Frees(s, r))
  BY <1>1, TerminalFrees, ReconcileFrees
<1>3. Frees(s, r) => Through(s, r)
  BY DEF Frees, Prompting, PromptOK, ProbesSawEnd, Knows
<1> QED BY <1>2, <1>3, HandlerIsOrdinary

LEMMA ProbeStepIsOrdinary ==
  ASSUME Prompting, NEW p \in Slots, ProbeStep(p)
  PROVE  Ordinary
<1>0. PICK q, s, r : q = probe[p] /\ s = q.session /\ r = q.run
  OBVIOUS
<1>1. OnlyHandler /\ p \in DOMAIN probe
  BY ProbeStepHandles DEF Handles
<1>2. /\ s \in Sessions /\ (q.status # "idle" => q.status \in EngineActivity) /\ ~ q.aborting
      /\ \A x \in DOMAIN runs : runs[x].status # "aborting"
      /\ q.evidence # "null" \/ q.at \in {"wait", "second"} => Knows(q)
  BY <1>0, <1>1, ProbeFacts DEF Base, Prompting, PromptOK, NobodyStops, Probe, Knows
<1>3. CASE UNCHANGED RequestVars /\ NoChange
  BY <1>1, <1>3, ReportIsOrdinary
<1>4. ASSUME NEW x, UNCHANGED RequestVars, q.status # "idle", ObserveActivity(s, x, q.status)
      PROVE  Ordinary
  BY <1>1, <1>2, <1>4, ReportIsOrdinary
<1>5. ASSUME UNCHANGED RequestVars, Knows(q),
             \/ \E o \in RunOutcome : ObserveTerminal(s, r, o)
             \/ ReconcileAuthoritativeIdle(s, r)
      PROVE  Ordinary
  BY <1>0, <1>1, <1>5, EndingIsOrdinary
<1>6. CASE Reserves(p, s)
  BY <1>1, <1>2, <1>6, ReservesOrdinary
<1>7. CASE ReadsStatus(p) \/ ReadsEvidence(p) \/ ReadFails(p) \/ StartRereads(p)
  BY <1>3, <1>7 DEF ReadsStatus, ReadsEvidence, ReadFails, StartRereads, Quiet
<1>8. CASE ObserverActs(p)
  BY <1>0, <1>2, <1>3, <1>4, <1>5, <1>8 DEF ObserverActs, RunOutcome
<1>9. CASE HintActs(p)
  BY <1>0, <1>2, <1>3, <1>4, <1>5, <1>9 DEF HintActs, RunOutcome
<1>10. CASE StartLooks(p)
  BY <1>0, <1>2, <1>3, <1>4, <1>6, <1>10 DEF StartLooks, Quiet
<1>11. CASE StartDecides(p)
  BY <1>0, <1>2, <1>5, <1>6, <1>11 DEF StartDecides, ReservesNext, RunOutcome
<1>12. CASE StartConfirms(p)
  BY <1>0, <1>2, <1>4, <1>5, <1>6, <1>12 DEF StartConfirms, At, ReservesNext
<1>13. CASE StartReserves(p)
  BY <1>0, <1>6, <1>13 DEF StartReserves
<1> QED BY <1>7, <1>8, <1>9, <1>10, <1>11, <1>12, <1>13 DEF ProbeStep

(* A prompt's request comes back.  A run is rolled back when its prompt was *)
(* not taken, or when its turn is over.                                     *)
LEMMA AnswerIsOrdinary ==
  ASSUME Undisturbed, Prompting, NEW t \in starts,
         PromptAccepted(t) \/ PromptFailed(t) \/ ProxySettles(t)
  PROVE  Ordinary
<1>1. /\ StateOK /\ aborts = {} /\ t.session \in Sessions /\ t.run \in RunIds
      /\ "lost_response" \notin Environment
  BY DEF Prompting, PromptOK, NobodyStops, Base, Core, Inv, TicketsOK, StartTicket, Undisturbed
<1>2. /\ starts' = starts \ {t} /\ aborts' = aborts
      /\ engine' = engine /\ history'.taken = history.taken
  BY DEF PromptAccepted, PromptFailed, ProxySettles, FinishStart, AbandonStart, controlVars,
         externalVars, Prompting, Base, ControlOK, History
<1>3. CASE PromptAccepted(t)
  BY <1>1, <1>2, <1>3, AcceptStartMeek, AcceptStartProgresses, ProgressIsCalm, CalmIsOrdinary
     DEF PromptAccepted, FinishStart, Requested
<1>4. CASE PromptFailed(t) \/ ProxySettles(t)
  <2>1. RollbackStart(t.session, t.run) \/ NoChange
    BY <1>4 DEF PromptFailed, ProxySettles, AbandonStart
  <2>2. NoAbort
    BY <1>1, <2>1, RollbackStartMeek
  <2>3. t.run \notin engine[t.session].pending
    BY <1>1, <1>4 DEF PromptFailed, ProxySettles, Prompting, PromptOK, WorksForActive
  <2>4. CASE NoChange
    BY <1>1, <1>2, <2>2, <2>4, ProgressIsCalm, CalmIsOrdinary DEF Requested
  <2>5. CASE Holds(t.session, t.run) /\ runs' = Drop(runs, t.session)
    <3>1. \A u \in starts' : u.run # t.run
      BY <1>2 DEF Prompting, PromptOK, SendersHold
    <3>2. Released
      BY <2>3, <2>5, <3>1 DEF Released, Holds, Drop
    <3> QED BY <1>1, <1>2, <2>2, <3>2 DEF Ordinary, Requested
  <2> QED BY <2>1, <2>4, <2>5 DEF RollbackStart, Settle
<1> QED BY <1>3, <1>4

(* A restart forgets the requests and reloads the active runs. *)
LEMMA RestartIsOrdinary ==
  ASSUME Prompting, ServerRestarts
  PROVE  Ordinary
<1>1. /\ StateOK /\ StateOK' /\ Restore /\ starts' = {} /\ aborts' = {}
      /\ engine' = engine /\ history'.taken = history.taken
  BY DEF ServerRestarts, Restart, Prompting, Base, Core, Inv, ControlOK, History
<1>2. SameRuns /\ SameIds /\ rows' = rows
  BY <1>1, RestoreProgresses, ProgressIsCalm DEF Progresses, Restore, journalVars
<1>3. NoAbort
  <2> SUFFICES ASSUME NEW s \in DOMAIN runs' PROVE runs'[s].status = runs[s].status /\ Same(s)
    BY DEF NoAbort
  <2>1. s \in DOMAIN runs /\ runs'[s].id = runs[s].id
    BY <1>2 DEF SameRuns
  <2>2. rows[runs[s].id].status = runs[s].status
    BY <1>1, <2>1, MirroredRun
  <2>3. rows'[runs'[s].id] = [session |-> s, gen |-> runs'[s].gen, status |-> runs'[s].status,
                              observed |-> runs'[s].observed, abortCmd |-> runs'[s].abortCmd,
                              reason |-> "null"]
    BY <1>1 DEF StateOK, JournalMirrorsMemory
  <2> QED BY <1>2, <2>1, <2>2, <2>3 DEF Same
<1> QED BY <1>1, <1>2, <1>3, CalmIsOrdinary DEF Requested

LEMMA NextPrompts ==
  ASSUME Undisturbed, Base, EngineRecorded, ProbesSaw, PromptOK, [ControlNext]_allVars
  PROVE  PromptOK' /\ EngineRecorded' /\ ProbesSaw'
<1>1. Base' /\ Step /\ Grows /\ EngineRecorded' /\ ProbesMove
  BY NextBase, HistoryGrows, HandlersMove
<1>2. ProbesSaw'
  BY <1>1, SawKept
<1>3. Prompting
  BY <1>1 DEF Prompting
<1> SUFFICES PromptOK'
  BY <1>1, <1>2
<1>4. /\ StateOK /\ aborts = {} /\ ~ (stops < MaxStops) /\ "client_report" \notin Environment
      /\ \A s \in DOMAIN runs : runs[s].status # "aborting"
  BY DEF PromptOK, NobodyStops, Base, Core, Inv, ControlOK, Undisturbed
<1>5. CASE Ordinary
  BY <1>1, <1>3, <1>5, OrdinaryKeepsPrompts
<1>6. CASE OnlyHandler /\ Quiet
  BY <1>3, <1>5, <1>6, ReportIsOrdinary DEF Quiet
<1>7. ASSUME NEW s \in Sessions, ClockTicks(s) PROVE PromptOK'
  <2>1. NoAbort /\ SameIds
    BY <1>4, <1>7, IntervalMeek, IntervalProgresses, ProgressIsCalm DEF ClockTicks, TimePasses
  <2> QED BY <1>3, <1>4, <1>5, <1>7, <2>1, CalmIsOrdinary
          DEF ClockTicks, TimePasses, controlVars, externalVars, RequestVars, Requested
<1>8. ASSUME NEW s \in Sessions, NEW p, ObserverLooks(p, s) \/ StartReads(p, s) PROVE PromptOK'
  BY <1>6, <1>8 DEF ObserverLooks, StartReads
<1>9. ASSUME NEW s \in Sessions, NEW p, NEW r, NEW hint, ClientHints(p, s, r, hint) PROVE PromptOK'
  BY <1>4, <1>6, <1>9 DEF ClientHints, Holds
<1>10. ASSUME NEW s \in Sessions, NEW r \in RunIds, ProxyReserves(s, r) PROVE PromptOK'
  <2>1. NoAbort /\ Opens(s, r) /\ aborts' = aborts /\ starts' = starts \cup {[session |-> s, run |-> r]}
    BY <1>4, <1>10, BeginStartMeek DEF ProxyReserves, BeginStart
  <2>2. SameIds /\ engine' = engine /\ history' = history
    BY <1>10, <2>1, ProgressIsCalm DEF ProxyReserves
  <2> QED BY <1>3, <1>4, <1>5, <2>1, <2>2, CalmIsOrdinary DEF Requested
<1>11. CASE UNCHANGED allVars
  <2>1. OnlyHandler /\ Quiet
    BY <1>11 DEF allVars, vars, controlVars, OnlyHandler, Quiet, NoChange, journalVars, RequestVars
  <2> QED BY <1>6, <2>1
<1>12. ASSUME NEW p \in Slots, ProbeStep(p) PROVE PromptOK'
  BY <1>3, <1>5, <1>12, ProbeStepIsOrdinary
<1>13. ASSUME NEW t \in starts, EngineTakes(t) \/ PromptAccepted(t) \/ PromptFailed(t) \/ ProxySettles(t)
       PROVE  PromptOK'
  BY <1>1, <1>3, <1>5, <1>13, TakingKeepsPrompts, AnswerIsOrdinary
<1>14. CASE ServerRestarts
  BY <1>3, <1>5, <1>14, RestartIsOrdinary
<1>15. ASSUME NEW s \in Sessions, EngineStep(s) PROVE PromptOK'
  BY <1>1, <1>3, <1>15, EndingKeepsPrompts
<1>16. ASSUME NEW s \in Sessions, NEW r \in RunIds,
              \/ \E status \in ReportedStatus \ {"idle", "completed"} : ClientReports(s, r, status)
              \/ \E c \in AbortCommands : StopRequested(s, r, c)
       PROVE  FALSE
  BY <1>4, <1>16 DEF ClientReports, StopRequested
<1> QED
  BY <1>4, <1>7, <1>8, <1>9, <1>10, <1>11, <1>12, <1>13, <1>14, <1>15, <1>16
     DEF ControlNext, HandlerNext

LEMMA InitPrompts == ControlInit => PromptOK /\ EngineRecorded /\ ProbesSaw
BY DEF ControlInit, Init, JournalInit, PromptOK, NobodyStops, WorksForActive, SendersHold,
       EvidenceIsOwn, ProbesSawEnd, EngineRecorded, ProbesSaw, RunOutcome

(* No two prompts of a session are in the engine at once, for any number of *)
(* overlapping starts, passes, hints and restarts: when a start is admitted *)
(* the turn of the run before it is over, or its prompt was never taken.    *)
(* Provided that no answer is lost and nobody stops a run or reports how it *)
(* ended; the README says what happens otherwise.                           *)
THEOREM PromptsAreApart ==
  ASSUME Undisturbed
  PROVE  ControlSpec => []OneLivePrompt
<1> DEFINE Kept == PromptOK /\ EngineRecorded /\ ProbesSaw
<1>1. Base /\ Kept /\ [ControlNext]_allVars => Kept'
  BY NextPrompts
<1>2. Base /\ Kept => OneLivePrompt
  <2> SUFFICES ASSUME Base, Kept, NEW s \in Sessions
               PROVE  Cardinality(engine[s].pending) <= 1
    BY DEF OneLivePrompt
  <2>1. CASE engine[s].pending = {}
    BY <2>1, FS_EmptySet
  <2>2. ASSUME NEW r \in engine[s].pending
        PROVE  Cardinality(engine[s].pending) <= 1
    <3>1. engine[s].pending = {r}
      BY <2>2 DEF PromptOK, WorksForActive, Holds
    <3>2. Cardinality({r}) = 1
      BY FS_Singleton
    <3> QED BY <3>1, <3>2
  <2> QED BY <2>1, <2>2
<1>3. ControlInit => Kept
  BY InitPrompts
<1> HIDE DEF Kept
<1> QED BY <1>1, <1>2, <1>3, BaseInvariance, PTL DEF ControlSpec

=============================================================================
