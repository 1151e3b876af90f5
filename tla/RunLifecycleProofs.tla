------------------------- MODULE RunLifecycleProofs -------------------------
(***************************************************************************)
(* Coordinator and journal implement RunLifecycle, and the two records of  *)
(* outcomes they leave, feed and outbox, are ordered and agree; for every  *)
(* set of sessions, runs and commands, every bound and any number of       *)
(* requests.                                                               *)
(*                                                                         *)
(* Every operation does one of three things to the journal and to the map  *)
(* of active runs: it reserves a run, it closes one, or it leaves both as  *)
(* they are and announces at most that a run is running.  The operations   *)
(* are classified once (Steps); each invariant then has three cases.       *)
(***************************************************************************)
EXTENDS SessionMutationProofs

-----------------------------------------------------------------------------
(* The three classes. *)

SameRuns ==
  /\ DOMAIN runs' = DOMAIN runs
  /\ \A s \in DOMAIN runs : runs'[s].id = runs[s].id /\ runs'[s].gen = runs[s].gen

(* What a row keeps when its run goes on. *)
SameRow(r) ==
  /\ rows'[r].session = rows[r].session
  /\ rows'[r].gen = rows[r].gen
  /\ rows'[r].reason = rows[r].reason

SameRows == DOMAIN rows' = DOMAIN rows /\ \A r \in DOMAIN rows : SameRow(r)

Entry(s, status) ==
  [run |-> runs[s].id, session |-> s, gen |-> runs[s].gen, status |-> status]

Progresses ==
  /\ SameRuns
  /\ SameRows
  /\ generation' \in {generation, generation + 1}
  /\ outbox' = outbox
  /\ feed' = feed \/ \E s \in DOMAIN runs : feed' = Append(feed, Entry(s, "running"))

Closes(s, reason) ==
  /\ s \in DOMAIN runs
  /\ runs' = Drop(runs, s)
  /\ generation' = generation
  /\ DOMAIN rows' = DOMAIN rows
  /\ \A r \in DOMAIN rows : r # runs[s].id => SameRow(r)
  /\ rows'[runs[s].id].session = rows[runs[s].id].session
  /\ rows'[runs[s].id].gen = rows[runs[s].id].gen
  /\ rows'[runs[s].id].reason = reason
  /\ \/ reason = "dispatch_failed" /\ UNCHANGED <<feed, outbox>>
     \/ /\ reason \in RunOutcome
        /\ feed' = Append(feed, Entry(s, reason))
        /\ outbox' = IF \A i \in DOMAIN outbox : outbox[i].run # runs[s].id
                     THEN Append(outbox, [run |-> runs[s].id, reason |-> reason])
                     ELSE outbox

Opens(s, r) ==
  /\ s \in Sessions \ DOMAIN runs
  /\ r \in RunIds \ DOMAIN rows
  /\ generation' = generation + 1
  /\ DOMAIN rows' = DOMAIN rows \cup {r}
  /\ \A q \in DOMAIN rows : rows'[q] = rows[q]
  /\ rows'[r].session = s /\ rows'[r].gen = generation + 1 /\ rows'[r].reason = "null"
  /\ DOMAIN runs' = DOMAIN runs \cup {s}
  /\ \A t \in DOMAIN runs : runs'[t] = runs[t]
  /\ runs'[s].id = r /\ runs'[s].gen = generation + 1
  /\ UNCHANGED <<feed, outbox>>

Ending == RunOutcome \cup {"dispatch_failed"}

Step ==
  \/ Progresses
  \/ \E s \in DOMAIN runs, reason \in Ending : Closes(s, reason)
  \/ \E s \in Sessions, r \in RunIds : Opens(s, r)

-----------------------------------------------------------------------------
(* The building blocks of the operations, classified. *)

(* An operation that keeps the run's identity and fence progresses. *)
LEMMA AdvanceProgresses ==
  ASSUME StateOK, NEW event, NEW s \in DOMAIN runs, NEW next \in Run,
         next.id = runs[s].id, next.gen = runs[s].gen,
         Advance(event, s, next)
  PROVE  Progresses
<1> DEFINE old == runs[s]
<1>1. /\ s \in Sessions /\ old \in Run
      /\ IsOpen(old.id) /\ old.id \in DOMAIN rows /\ rows[old.id].session = s
      /\ rows[old.id] \in Row
  BY MirroredRun
<1>2. /\ rows' = [rows EXCEPT ![old.id] =
                    [@ EXCEPT !.status = next.status, !.observed = next.observed,
                              !.abortCmd = next.abortCmd]]
      /\ feed' = feed \/ feed' = Published(s, next, "running")
      /\ UNCHANGED <<generation, outbox>>
      /\ runs' = Put(runs, s, next)
  BY <1>1 DEF Advance, RecordUpdate, IsOpen
<1>3. SameRows
  <2>1. DOMAIN rows' = DOMAIN rows
    BY <1>2
  <2>2. \A r \in DOMAIN rows : r # old.id => rows'[r] = rows[r]
    BY <1>2
  <2>3. rows'[old.id] = [rows[old.id] EXCEPT !.status = next.status, !.observed = next.observed,
                                             !.abortCmd = next.abortCmd]
    BY <1>1, <1>2
  <2>4. SameRow(old.id)
    BY <2>3, <1>1 DEF SameRow, Row
  <2> QED BY <2>1, <2>2, <2>4 DEF SameRows, SameRow
<1>4. SameRuns
  BY <1>2 DEF SameRuns, Put
<1>5. Published(s, next, "running") = Append(feed, Entry(s, "running"))
  BY DEF Published, Entry
<1> QED BY <1>2, <1>3, <1>4, <1>5 DEF Progresses

(* Settle closes the run. *)
LEMMA SettleCloses ==
  ASSUME StateOK, NEW s \in DOMAIN runs, NEW event, NEW reason,
         \/ event = "run_terminal" /\ reason \in RunOutcome
         \/ event = "start_rolled_back" /\ reason = "dispatch_failed",
         Settle(event, s, reason)
  PROVE  reason \in Ending /\ Closes(s, reason)
<1> DEFINE old == runs[s]
<1>1. /\ s \in Sessions /\ old \in Run
      /\ old.id \in DOMAIN rows /\ rows[old.id] \in Row
  BY MirroredRun
<1>2. RecordClosed(event, s, old, reason) /\ runs' = Drop(runs, s)
  BY DEF Settle
<1>3. rows' = [rows EXCEPT ![old.id] = [@ EXCEPT !.status = "terminal", !.reason = reason]]
  BY <1>2 DEF RecordClosed
<1>4. /\ DOMAIN rows' = DOMAIN rows
      /\ \A r \in DOMAIN rows : r # old.id => rows'[r] = rows[r]
      /\ rows'[old.id] = [rows[old.id] EXCEPT !.status = "terminal", !.reason = reason]
  BY <1>1, <1>3
<1>5. /\ rows'[old.id].session = rows[old.id].session
      /\ rows'[old.id].gen = rows[old.id].gen
      /\ rows'[old.id].reason = reason
  BY <1>1, <1>4 DEF Row
<1>6. \/ reason = "dispatch_failed" /\ UNCHANGED <<feed, outbox>>
      \/ /\ reason \in RunOutcome
         /\ feed' = Append(feed, Entry(s, reason))
         /\ outbox' = IF \A i \in DOMAIN outbox : outbox[i].run # old.id
                      THEN Append(outbox, [run |-> old.id, reason |-> reason])
                      ELSE outbox
  <2>1. CASE event = "run_terminal" /\ reason \in RunOutcome
    BY <2>1, <1>2 DEF RecordClosed, Published, Entry
  <2>2. CASE event = "start_rolled_back" /\ reason = "dispatch_failed"
    BY <2>2, <1>2 DEF RecordClosed, RunOutcome
  <2> QED BY <2>1, <2>2
<1>7. generation' = generation
  BY <1>2 DEF RecordClosed
<1> QED BY <1>2, <1>4, <1>5, <1>6, <1>7 DEF Closes, SameRow, Ending

(* reserveStart opens. *)
LEMMA ReserveOpens ==
  ASSUME StateOK, NEW s \in Sessions, NEW r \in RunIds, ReserveStart(s, r)
  PROVE  Opens(s, r)
<1> DEFINE new == FreshRun(r)
<1>1. /\ new.id = r /\ new.gen = generation + 1
  BY DEF FreshRun
<1>2. /\ s \notin DOMAIN runs /\ r \notin DOMAIN rows
      /\ generation' = generation + 1
      /\ rows' = Put(rows, r, [session |-> s, gen |-> new.gen, status |-> new.status,
                               observed |-> new.observed, abortCmd |-> new.abortCmd,
                               reason |-> "null"])
      /\ runs' = Put(runs, s, new)
      /\ UNCHANGED <<feed, outbox>>
  BY <1>1 DEF ReserveStart, AllocateGeneration, RecordReserved
<1> HIDE DEF new
<1>3. /\ DOMAIN rows' = DOMAIN rows \cup {r}
      /\ rows'[r] = [session |-> s, gen |-> new.gen, status |-> new.status,
                     observed |-> new.observed, abortCmd |-> new.abortCmd, reason |-> "null"]
      /\ \A q \in DOMAIN rows : rows'[q] = rows[q]
  BY <1>2 DEF Put
<1>4. /\ DOMAIN runs' = DOMAIN runs \cup {s}
      /\ runs'[s] = new
      /\ \A t \in DOMAIN runs : runs'[t] = runs[t]
  BY <1>2 DEF Put
<1> QED BY <1>1, <1>2, <1>3, <1>4 DEF Opens

(* What changes only the idle sample of a run progresses. *)
LEMMA SampleProgresses ==
  ASSUME StateOK, NEW s \in DOMAIN runs, NEW i,
         runs' = [runs EXCEPT ![s].idle = i], UNCHANGED journalVars
  PROVE  Progresses
<1>1. runs[s] \in Run
  BY MirroredRun
<1>2. /\ DOMAIN runs' = DOMAIN runs
      /\ runs'[s] = [runs[s] EXCEPT !.idle = i]
      /\ \A t \in DOMAIN runs : t # s => runs'[t] = runs[t]
  OBVIOUS
<1>3. SameRuns
  BY <1>1, <1>2 DEF SameRuns, Run
<1> QED BY <1>3 DEF Progresses, SameRows, SameRow, journalVars

(* So does a step that changes neither memory nor journal. *)
LEMMA StutterProgresses ==
  ASSUME NoChange
  PROVE  Progresses
BY DEF NoChange, Progresses, SameRows, SameRow, SameRuns, journalVars

-----------------------------------------------------------------------------
(* The operations, classified. *)

(* acceptStart progresses. *)
LEMMA AcceptStartProgresses ==
  ASSUME StateOK, NEW s \in Sessions, NEW r \in RunIds, AcceptStart(s, r)
  PROVE  Progresses
<1>1. CASE Holds(s, r) /\ Advance("run_started", s, [runs[s] EXCEPT !.status = "running"])
  <2> DEFINE next == [runs[s] EXCEPT !.status = "running"]
  <2>1. s \in DOMAIN runs /\ runs[s] \in Run
    BY <1>1, MirroredRun DEF Holds
  <2>2. next \in Run /\ next.id = runs[s].id /\ next.gen = runs[s].gen
    BY <2>1 DEF Run, ActiveStatus
  <2> HIDE DEF next
  <2> QED BY <1>1, <2>1, <2>2, AdvanceProgresses DEF next
<1>2. CASE Holds(s, r) /\ runs' = [runs EXCEPT ![s].idle = "null"] /\ UNCHANGED journalVars
  BY <1>2, SampleProgresses DEF Holds
<1>3. CASE NoChange
  BY <1>3, StutterProgresses
<1> QED BY <1>1, <1>2, <1>3 DEF AcceptStart

(* rollbackStart closes the run, without an outcome, or does nothing. *)
LEMMA RollbackStartSteps ==
  ASSUME StateOK, NEW s \in Sessions, NEW r \in RunIds, RollbackStart(s, r)
  PROVE  Step
<1>1. CASE Holds(s, r) /\ Settle("start_rolled_back", s, "dispatch_failed")
  BY <1>1, SettleCloses DEF Holds, Step
<1>2. CASE NoChange
  BY <1>2, StutterProgresses DEF Step
<1> QED BY <1>1, <1>2 DEF RollbackStart

(* reserveAbort progresses. *)
LEMMA ReserveAbortProgresses ==
  ASSUME StateOK, NEW s \in Sessions, NEW r \in RunIds, NEW c \in AbortCommands,
         ReserveAbort(s, r, c)
  PROVE  Progresses
<1> DEFINE next == [runs[s] EXCEPT !.status = "aborting", !.abortCmd = c,
                                   !.abortAccepted = FALSE, !.idle = "null"]
<1>1. s \in DOMAIN runs /\ runs[s] \in Run
  BY MirroredRun DEF ReserveAbort, Holds
<1>2. next \in Run /\ next.id = runs[s].id /\ next.gen = runs[s].gen
  BY <1>1 DEF Run, ActiveStatus, IdleSample
<1>3. Advance("abort_requested", s, next)
  BY DEF ReserveAbort
<1> HIDE DEF next
<1> QED BY <1>1, <1>2, <1>3, AdvanceProgresses

(* acceptAbort progresses. *)
LEMMA AcceptAbortProgresses ==
  ASSUME StateOK, NEW s \in Sessions, NEW r \in RunIds, NEW c \in AbortCommands,
         AcceptAbort(s, r, c)
  PROVE  Progresses
<1> DEFINE next == [runs[s] EXCEPT !.abortAccepted = TRUE]
<1>1. CASE AbortMatches(s, r, c) /\ Advance("abort_accepted", s, next)
  <2>1. s \in DOMAIN runs /\ runs[s] \in Run
    BY <1>1, MirroredRun DEF AbortMatches, Holds
  <2>2. next \in Run /\ next.id = runs[s].id /\ next.gen = runs[s].gen
    BY <2>1 DEF Run
  <2> HIDE DEF next
  <2> QED BY <1>1, <2>1, <2>2, AdvanceProgresses
<1>2. CASE NoChange
  BY <1>2, StutterProgresses
<1> QED BY <1>1, <1>2 DEF AcceptAbort

(* rollbackAbort progresses. *)
LEMMA RollbackAbortProgresses ==
  ASSUME StateOK, NEW s \in Sessions, NEW r \in RunIds, NEW c \in AbortCommands,
         NEW previousStatus \in ActiveStatus, RollbackAbort(s, r, c, previousStatus)
  PROVE  Progresses
<1> DEFINE next == [runs[s] EXCEPT !.status = previousStatus, !.abortCmd = NoCommand,
                                   !.idle = "null"]
<1>1. CASE AbortMatches(s, r, c) /\ Advance("abort_rolled_back", s, next)
  <2>1. s \in DOMAIN runs /\ runs[s] \in Run
    BY <1>1, MirroredRun DEF AbortMatches, Holds
  <2>2. next \in Run /\ next.id = runs[s].id /\ next.gen = runs[s].gen
    BY <2>1 DEF Run, AbortCommands, IdleSample
  <2> HIDE DEF next
  <2> QED BY <1>1, <2>1, <2>2, AdvanceProgresses
<1>2. CASE NoChange
  BY <1>2, StutterProgresses
<1> QED BY <1>1, <1>2 DEF RollbackAbort

(* observe with activity progresses. *)
LEMMA ObserveActivityProgresses ==
  ASSUME StateOK, NEW s, NEW r, NEW status \in ActiveStatus, ObserveActivity(s, r, status)
  PROVE  Progresses
<1> DEFINE next == [runs[s] EXCEPT !.observed = @ \/ status # "starting",
                                   !.status = IF @ = "aborting" THEN @ ELSE status,
                                   !.idle = "null"]
<1>1. CASE Holds(s, r) /\ Advance("progress", s, next)
  <2>1. s \in DOMAIN runs /\ runs[s] \in Run
    BY <1>1, MirroredRun DEF Holds
  <2>2. next \in Run /\ next.id = runs[s].id /\ next.gen = runs[s].gen
    BY <2>1 DEF Run, IdleSample
  <2> HIDE DEF next
  <2> QED BY <1>1, <2>1, <2>2, AdvanceProgresses
<1>2. CASE NoChange
  BY <1>2, StutterProgresses
<1> QED BY <1>1, <1>2 DEF ObserveActivity

(* observe, whatever is reported. *)
LEMMA ObserveSteps ==
  ASSUME StateOK, NEW s \in Sessions, NEW r \in RunIds, NEW status \in ReportedStatus,
         Observe(s, r, status)
  PROVE  Step
<1>1. CASE status = "idle"
  <2>1. ObserveIdle(s, r)
    BY <1>1 DEF Observe, RunOutcome, ActiveStatus
  <2>2. CASE NoChange
    BY <2>2, StutterProgresses DEF Step
  <2>3. CASE Holds(s, r) /\ \E reason \in {"aborted", "completed"} : Settle("run_terminal", s, reason)
    BY <2>3, SettleCloses DEF Holds, RunOutcome, Step
  <2> QED BY <2>1, <2>2, <2>3 DEF ObserveIdle
<1>2. CASE status \in RunOutcome
  <2>1. ObserveTerminal(s, r, status)
    BY <1>2 DEF Observe, RunOutcome, ActiveStatus
  <2> QED BY <2>1, <1>2, SettleCloses, StutterProgresses DEF ObserveTerminal, Holds, Step
<1>3. CASE status \in EngineActivity \cup {"starting", "aborting"}
  <2>1. status \in ActiveStatus /\ status \notin RunOutcome /\ status # "idle"
    BY <1>3, ActivityAssumption DEF ActiveStatus, RunOutcome
  <2>2. ObserveActivity(s, r, status)
    BY <2>1 DEF Observe
  <2> QED BY <2>1, <2>2, ObserveActivityProgresses DEF Step
<1> QED BY <1>1, <1>2, <1>3 DEF ReportedStatus

(* reconcileAuthoritativeIdle. *)
LEMMA ReconcileSteps ==
  ASSUME StateOK, NEW s, NEW r, ReconcileAuthoritativeIdle(s, r)
  PROVE  Step
<1> DEFINE next == [runs[s] EXCEPT !.idle = "recent"]
<1>1. CASE Holds(s, r) /\ \E reason \in {"aborted", "completed"} : Settle("run_terminal", s, reason)
  BY <1>1, SettleCloses DEF Holds, RunOutcome, Step
<1>2. CASE Holds(s, r) /\ Advance("idle_suspected", s, next)
  <2>1. s \in DOMAIN runs /\ runs[s] \in Run
    BY <1>2, MirroredRun DEF Holds
  <2>2. next \in Run /\ next.id = runs[s].id /\ next.gen = runs[s].gen
    BY <2>1 DEF Run, IdleSample
  <2> HIDE DEF next
  <2> QED BY <1>2, <2>1, <2>2, AdvanceProgresses DEF Step
<1>3. CASE NoChange
  BY <1>3, StutterProgresses DEF Step
<1> QED BY <1>1, <1>2, <1>3 DEF ReconcileAuthoritativeIdle

(* updateTitle progresses. *)
LEMMA UpdateTitleProgresses ==
  ASSUME StateOK, NEW s \in Sessions, UpdateTitle(s)
  PROVE  Progresses
BY AdvanceProgresses, MirroredRun DEF UpdateTitle

(* The clock progresses. *)
LEMMA IntervalProgresses ==
  ASSUME StateOK, NEW s \in Sessions, IntervalElapses(s)
  PROVE  Progresses
BY SampleProgresses DEF IntervalElapses

(* A reservation whose insert throws progresses. *)
LEMMA ReserveStartFailsProgresses ==
  ASSUME NEW s, ReserveStartFails(s)
  PROVE  Progresses
BY DEF ReserveStartFails, AllocateGeneration, Progresses, SameRows, SameRow, SameRuns

(* A restart progresses: the runs in memory are those the open rows mirror. *)
LEMMA RestoreProgresses ==
  ASSUME StateOK, Restore
  PROVE  Progresses
<1>1. /\ DOMAIN runs' = {rows[r].session : r \in OpenRuns}
      /\ \A s \in DOMAIN runs' : runs'[s] = Restored(s)
      /\ UNCHANGED journalVars
  BY DEF Restore
<1>2. ASSUME NEW r \in OpenRuns
      PROVE  rows[r].session \in DOMAIN runs /\ runs[rows[r].session].id = r
  BY DEF StateOK, JournalMirrorsMemory, Holds
<1>3. ASSUME NEW s \in DOMAIN runs
      PROVE  runs[s].id \in OpenRuns /\ rows[runs[s].id].session = s /\ rows[runs[s].id].gen = runs[s].gen
  BY MirroredRun DEF OpenRuns
<1>4. DOMAIN runs' = DOMAIN runs
  BY <1>1, <1>2, <1>3
<1>5. ASSUME NEW s \in DOMAIN runs
      PROVE  runs'[s].id = runs[s].id /\ runs'[s].gen = runs[s].gen
  <2>1. \A q \in OpenRuns : rows[q].session = s => q = runs[s].id
    BY <1>2
  <2>2. (CHOOSE q \in OpenRuns : rows[q].session = s) = runs[s].id
    BY <2>1, <1>3
  <2>3. Restored(s).id = runs[s].id /\ Restored(s).gen = rows[runs[s].id].gen
    BY <2>2 DEF Restored
  <2> QED BY <2>3, <1>1, <1>3, <1>4
<1>6. SameRuns
  BY <1>4, <1>5 DEF SameRuns
<1> QED BY <1>1, <1>6 DEF Progresses, SameRows, SameRow, journalVars

(* Every action of the coordinator's requests is of one of the classes. *)
LEMMA Steps == Inv /\ [Next]_vars => Step
<1> SUFFICES ASSUME Inv, [Next]_vars PROVE Step
  OBVIOUS
<1> USE DEF Inv
<1>1. ASSUME NEW s \in Sessions, NEW r \in RunIds, BeginStart(s, r)
      PROVE  Step
  BY <1>1, ReserveOpens DEF BeginStart, Step
<1>2. ASSUME NEW s \in Sessions, NEW r \in RunIds, NEW c \in AbortCommands, BeginAbort(s, r, c)
      PROVE  Step
  BY <1>2, ReserveAbortProgresses DEF BeginAbort, Step
<1>3. ASSUME NEW s \in Sessions, NEW r \in RunIds, NEW status \in ReportedStatus, Report(s, r, status)
      PROVE  Step
  BY <1>3, ObserveSteps DEF Report
<1>4. ASSUME NEW s \in Sessions, NEW r \in RunIds, SampleIdle(s, r)
      PROVE  Step
  BY <1>4, ReconcileSteps DEF SampleIdle
<1>5. ASSUME NEW s \in Sessions, BeginStartFails(s)
      PROVE  Step
  BY <1>5, ReserveStartFailsProgresses DEF BeginStartFails, Step
<1>6. ASSUME NEW s \in Sessions, Rename(s)
      PROVE  Step
  BY <1>6, UpdateTitleProgresses DEF Rename, Step
<1>7. ASSUME NEW s \in Sessions, TimePasses(s)
      PROVE  Step
  BY <1>7, IntervalProgresses DEF TimePasses, Step
<1>8. ASSUME NEW t \in starts, FinishStart(t) \/ AbandonStart(t)
      PROVE  Step
  <2>1. t.session \in Sessions /\ t.run \in RunIds
    BY DEF TicketsOK, StartTicket
  <2> QED BY <1>8, <2>1, AcceptStartProgresses, RollbackStartSteps, StutterProgresses
          DEF FinishStart, AbandonStart, Step
<1>9. ASSUME NEW t \in aborts, FinishAbort(t) \/ AbandonAbort(t)
      PROVE  Step
  <2>1. /\ t.session \in Sessions /\ t.run \in RunIds /\ t.cmd \in AbortCommands
        /\ t.prev \in ActiveStatus
    BY DEF TicketsOK, AbortTicket
  <2> QED BY <1>9, <2>1, AcceptAbortProgresses, RollbackAbortProgresses, StutterProgresses
          DEF FinishAbort, AbandonAbort, Step
<1>10. CASE Restart
  BY <1>10, RestoreProgresses DEF Restart, Step
<1>11. CASE UNCHANGED vars
  <2>1. NoChange
    BY <1>11 DEF vars, NoChange, journalVars
  <2> QED BY <2>1, StutterProgresses DEF Step
<1> QED
  BY <1>1, <1>2, <1>3, <1>4, <1>5, <1>6, <1>7, <1>8, <1>9, <1>10, <1>11 DEF Next

-----------------------------------------------------------------------------
(* The inductive invariant. *)

(* Fences come from the counter, and the active run has the session's newest. *)
FencesOK ==
  /\ \A r \in DOMAIN rows : rows[r].gen <= generation
  /\ \A s \in DOMAIN runs, r \in DOMAIN rows :
       rows[r].session = s => rows[r].gen <= runs[s].gen

(* An entry of the feed quotes a row, and its outcome is the row's. *)
FeedQuotesRows ==
  \A i \in DOMAIN feed :
    /\ feed[i].run \in DOMAIN rows
    /\ rows[feed[i].run].session = feed[i].session
    /\ rows[feed[i].run].gen = feed[i].gen
    /\ feed[i].status # "running" => rows[feed[i].run].reason = feed[i].status

(* So does a terminal of the outbox. *)
OutboxQuotesRows ==
  \A i \in DOMAIN outbox :
    outbox[i].run \in DOMAIN rows /\ rows[outbox[i].run].reason = outbox[i].reason

StoryOK == FencesOK /\ FeedQuotesRows /\ OutboxQuotesRows /\ FeedOrdered /\ OutcomesAgree

-----------------------------------------------------------------------------
(* An appended element comes after the others, which stay where they are. *)
LEMMA Appended ==
  ASSUME NEW S, NEW q \in Seq(S), NEW e, NEW p, p = Append(q, e)
  PROVE  \E n \in Nat :
           /\ DOMAIN p = DOMAIN q \cup {n} /\ DOMAIN q \subseteq Nat
           /\ \A i \in DOMAIN q : i < n /\ p[i] = q[i]
           /\ p[n] = e
<1>1. Len(q) + 1 \in Nat
  OBVIOUS
<1> WITNESS Len(q) + 1 \in Nat
<1> QED OBVIOUS

(* What the feed and the outbox tell as they are. *)
LEMMA Typed ==
  ASSUME StateOK
  PROVE  /\ generation \in Nat /\ feed \in Seq(FeedEntry) /\ outbox \in Seq(Terminal)
         /\ DOMAIN feed \subseteq Nat /\ DOMAIN outbox \subseteq Nat
         /\ \A i \in DOMAIN feed : feed[i] \in FeedEntry
         /\ \A i \in DOMAIN outbox : outbox[i] \in Terminal
         /\ \A r \in DOMAIN rows : rows[r] \in Row
BY DEF StateOK, JournalTypeOK

(* An announcement that a run is running changes nothing that was told. *)
LEMMA AnnouncementKeepsFeed ==
  ASSUME StateOK, StoryOK, NEW s \in DOMAIN runs, NEW status \in RunOutcome \cup {"running"},
         feed' = Append(feed, Entry(s, status))
  PROVE  FeedOrdered'
<1>1. PICK n \in Nat :
        /\ DOMAIN feed' = DOMAIN feed \cup {n} /\ DOMAIN feed \subseteq Nat
        /\ \A i \in DOMAIN feed : i < n /\ feed'[i] = feed[i]
        /\ feed'[n] = Entry(s, status)
  BY Typed, Appended
<1>2. /\ Entry(s, status).run = runs[s].id /\ Entry(s, status).session = s
      /\ Entry(s, status).gen = runs[s].gen
  BY DEF Entry
<1>3. rows[runs[s].id].reason = "null" /\ runs[s].id \in DOMAIN rows
  BY MirroredRun
<1>4. ASSUME NEW i \in DOMAIN feed
      PROVE  /\ feed[i].run = runs[s].id => feed[i].status = "running"
             /\ feed[i].session = s => feed[i].gen <= runs[s].gen
  <2>1. /\ feed[i].run \in DOMAIN rows
        /\ rows[feed[i].run].session = feed[i].session
        /\ rows[feed[i].run].gen = feed[i].gen
        /\ feed[i].status # "running" => rows[feed[i].run].reason = feed[i].status
    BY DEF StoryOK, FeedQuotesRows
  <2>2. feed[i].status # "null"
    BY Typed DEF FeedEntry, RunOutcome
  <2> QED BY <2>1, <2>2, <1>3 DEF StoryOK, FencesOK
<1> SUFFICES ASSUME NEW i \in DOMAIN feed', NEW j \in DOMAIN feed', i < j
             PROVE  /\ feed'[i].run = feed'[j].run => feed'[i].status = "running"
                    /\ feed'[i].session = feed'[j].session => feed'[i].gen <= feed'[j].gen
  BY DEF FeedOrdered
<1>5. i \in DOMAIN feed
  BY <1>1
<1>6. CASE j \in DOMAIN feed
  BY <1>1, <1>5, <1>6 DEF StoryOK, FeedOrdered
<1>7. CASE j = n
  BY <1>1, <1>2, <1>4, <1>5, <1>7
<1> QED BY <1>1, <1>6, <1>7

(* A step that closes nothing and reserves nothing keeps the story. *)
LEMMA ProgressKeepsStory ==
  ASSUME StateOK, StoryOK, Progresses
  PROVE  StoryOK'
<1> USE DEF StoryOK
<1>1. /\ DOMAIN rows' = DOMAIN rows
      /\ \A r \in DOMAIN rows : /\ rows'[r].session = rows[r].session
                                /\ rows'[r].gen = rows[r].gen
                                /\ rows'[r].reason = rows[r].reason
      /\ outbox' = outbox
      /\ DOMAIN runs' = DOMAIN runs /\ \A s \in DOMAIN runs : runs'[s].gen = runs[s].gen
      /\ generation' \in {generation, generation + 1}
  BY DEF Progresses, SameRows, SameRow, SameRuns
<1>2. FencesOK'
  <2>1. \A r \in DOMAIN rows : rows[r].gen \in Nat
    BY Typed DEF Row
  <2> QED BY <1>1, <2>1, Typed DEF FencesOK
<1>3. OutboxQuotesRows'
  BY <1>1 DEF OutboxQuotesRows
<1>4. CASE feed' = feed
  <2>1. FeedQuotesRows'
    BY <1>1, <1>4 DEF FeedQuotesRows
  <2>2. FeedOrdered'
    BY <1>4 DEF FeedOrdered
  <2>3. OutcomesAgree'
    <3>1. \A k \in DOMAIN feed, i \in DOMAIN outbox : Carries(k, i)' <=> Carries(k, i)
      BY <1>1, <1>4 DEF Carries
    <3>2. \A i \in DOMAIN outbox : rows'[outbox[i].run].reason = rows[outbox[i].run].reason
      BY <1>1 DEF OutboxQuotesRows
    <3> QED BY <1>1, <1>4, <3>1, <3>2 DEF OutcomesAgree
  <2> QED BY <2>1, <2>2, <2>3, <1>2, <1>3
<1>5. ASSUME NEW s \in DOMAIN runs, feed' = Append(feed, Entry(s, "running"))
      PROVE  StoryOK'
  <2>1. PICK n \in Nat :
          /\ DOMAIN feed' = DOMAIN feed \cup {n} /\ DOMAIN feed \subseteq Nat
          /\ \A i \in DOMAIN feed : i < n /\ feed'[i] = feed[i]
          /\ feed'[n] = Entry(s, "running")
    BY <1>5, Typed, Appended
  <2>2. /\ Entry(s, "running").run = runs[s].id /\ Entry(s, "running").session = s
        /\ Entry(s, "running").gen = runs[s].gen /\ Entry(s, "running").status = "running"
    BY DEF Entry
  <2>3. /\ runs[s].id \in DOMAIN rows /\ rows[runs[s].id].session = s
        /\ rows[runs[s].id].gen = runs[s].gen
    BY MirroredRun
  <2>4. FeedQuotesRows'
    BY <1>1, <2>1, <2>2, <2>3 DEF FeedQuotesRows
  <2>5. FeedOrdered'
    BY <1>5, AnnouncementKeepsFeed
  <2>6. OutcomesAgree'
    <3>1. \A k \in DOMAIN feed, i \in DOMAIN outbox : Carries(k, i)' <=> Carries(k, i)
      BY <1>1, <2>1 DEF Carries
    <3>2. \A i \in DOMAIN outbox : rows'[outbox[i].run].reason = rows[outbox[i].run].reason
      BY <1>1 DEF OutboxQuotesRows
    <3>3. \A i \in DOMAIN outbox : outbox[i].reason # "running"
      BY Typed DEF Terminal, RunOutcome
    <3>4. \A i \in DOMAIN outbox : ~ Carries(n, i)'
      BY <3>3, <1>1, <2>1, <2>2 DEF Carries
    <3>5. \A i \in DOMAIN outbox : \E k \in DOMAIN feed' : Carries(k, i)'
      BY <3>1, <2>1 DEF OutcomesAgree
    <3>6. \A k \in DOMAIN feed' :
            feed'[k].status # "running" => \E i \in DOMAIN outbox : Carries(k, i)'
      BY <3>1, <2>1, <2>2 DEF OutcomesAgree
    <3>7. \A i, j \in DOMAIN outbox, k, l \in DOMAIN feed' :
            Carries(k, i)' /\ Carries(l, j)' => (i < j <=> k < l)
      BY <3>1, <3>4, <2>1 DEF OutcomesAgree
    <3> QED BY <1>1, <3>2, <3>5, <3>6, <3>7 DEF OutcomesAgree
  <2> QED BY <2>4, <2>5, <2>6, <1>2, <1>3
<1> QED BY <1>4, <1>5 DEF Progresses

(* Reserving a run adds a row with the largest fence, and tells nothing. *)
LEMMA ReservationKeepsStory ==
  ASSUME StateOK, StoryOK, NEW s \in Sessions, NEW r \in RunIds, Opens(s, r)
  PROVE  StoryOK'
<1> USE DEF StoryOK
<1>1. /\ r \notin DOMAIN rows /\ DOMAIN rows' = DOMAIN rows \cup {r}
      /\ \A q \in DOMAIN rows : rows'[q] = rows[q]
      /\ rows'[r].session = s /\ rows'[r].gen = generation + 1 /\ rows'[r].reason = "null"
      /\ s \notin DOMAIN runs /\ DOMAIN runs' = DOMAIN runs \cup {s}
      /\ \A t \in DOMAIN runs : runs'[t] = runs[t]
      /\ runs'[s].gen = generation + 1 /\ generation' = generation + 1
      /\ feed' = feed /\ outbox' = outbox
  BY DEF Opens
<1>2. FencesOK'
  <2>1. generation \in Nat /\ \A q \in DOMAIN rows : rows[q].gen \in Nat
    BY Typed DEF Row
  <2>2. \A q \in DOMAIN rows' : rows'[q].gen <= generation'
    BY <1>1, <2>1 DEF FencesOK
  <2>3. ASSUME NEW t \in DOMAIN runs', NEW q \in DOMAIN rows', rows'[q].session = t
        PROVE  rows'[q].gen <= runs'[t].gen
    <3>1. CASE t = s
      BY <3>1, <1>1, <2>2
    <3>2. CASE t # s
      BY <3>2, <2>3, <1>1 DEF FencesOK
    <3> QED BY <3>1, <3>2
  <2> QED BY <2>2, <2>3 DEF FencesOK
<1>3. FeedQuotesRows'
  BY <1>1 DEF FeedQuotesRows
<1>4. OutboxQuotesRows'
  BY <1>1 DEF OutboxQuotesRows
<1>5. FeedOrdered'
  BY <1>1 DEF FeedOrdered
<1>6. OutcomesAgree'
  <2>1. \A k \in DOMAIN feed, i \in DOMAIN outbox : Carries(k, i)' <=> Carries(k, i)
    BY <1>1 DEF Carries
  <2>2. \A i \in DOMAIN outbox : rows'[outbox[i].run].reason = rows[outbox[i].run].reason
    BY <1>1 DEF OutboxQuotesRows
  <2> QED BY <1>1, <2>1, <2>2 DEF OutcomesAgree, RunOutcome
<1> QED BY <1>2, <1>3, <1>4, <1>5, <1>6

(* Closing a run tells its outcome to both readers, or to neither. *)
LEMMA ClosingKeepsStory ==
  ASSUME StateOK, StoryOK, NEW s \in DOMAIN runs, NEW reason \in Ending, Closes(s, reason)
  PROVE  StoryOK'
<1> USE DEF StoryOK
<1>1. PICK r \in DOMAIN rows : r = runs[s].id /\ rows[r].reason = "null"
  BY MirroredRun
<1>2. /\ DOMAIN rows' = DOMAIN rows /\ rows'[r].reason = reason
      /\ \A q \in DOMAIN rows : /\ rows'[q].session = rows[q].session
                                /\ rows'[q].gen = rows[q].gen
                                /\ q # r => rows'[q].reason = rows[q].reason
      /\ DOMAIN runs' = DOMAIN runs \ {s} /\ \A t \in DOMAIN runs' : runs'[t] = runs[t]
      /\ generation' = generation
  BY <1>1 DEF Closes, SameRow, Drop
<1>3. FencesOK'
  BY <1>2 DEF FencesOK
<1>4. /\ \A i \in DOMAIN outbox : outbox[i].run # r
      /\ \A k \in DOMAIN feed : feed[k].status # "running" => feed[k].run # r
  <2>1. \A i \in DOMAIN outbox : outbox[i].reason # "null"
    BY Typed DEF Terminal, RunOutcome
  <2>2. \A k \in DOMAIN feed : feed[k].status # "null"
    BY Typed DEF FeedEntry, RunOutcome
  <2> QED BY <1>1, <2>1, <2>2 DEF OutboxQuotesRows, FeedQuotesRows
<1>5. CASE reason = "dispatch_failed" /\ UNCHANGED <<feed, outbox>>
  <2>1. FeedQuotesRows'
    BY <1>2, <1>4, <1>5 DEF FeedQuotesRows
  <2>2. OutboxQuotesRows'
    BY <1>2, <1>4, <1>5 DEF OutboxQuotesRows
  <2>3. FeedOrdered'
    BY <1>5 DEF FeedOrdered
  <2>4. OutcomesAgree'
    <3>1. \A k \in DOMAIN feed, i \in DOMAIN outbox : Carries(k, i)' <=> Carries(k, i)
      BY <1>5 DEF Carries
    <3>2. \A i \in DOMAIN outbox : rows'[outbox[i].run].reason = rows[outbox[i].run].reason
      BY <1>2, <1>4 DEF OutboxQuotesRows
    <3> QED BY <1>2, <1>5, <3>1, <3>2 DEF OutcomesAgree, RunOutcome
  <2> QED BY <1>3, <2>1, <2>2, <2>3, <2>4
<1>6. CASE /\ reason \in RunOutcome
           /\ feed' = Append(feed, Entry(s, reason))
           /\ outbox' = Append(outbox, [run |-> r, reason |-> reason])
  <2>1. PICK n \in Nat :
          /\ DOMAIN feed' = DOMAIN feed \cup {n} /\ DOMAIN feed \subseteq Nat
          /\ \A k \in DOMAIN feed : k < n /\ feed'[k] = feed[k]
          /\ feed'[n] = Entry(s, reason)
    <3>1. feed \in Seq(FeedEntry)
      BY Typed
    <3> HIDE DEF StoryOK
    <3> QED BY <1>6, <3>1, Appended
  <2>2. PICK m \in Nat :
          /\ DOMAIN outbox' = DOMAIN outbox \cup {m} /\ DOMAIN outbox \subseteq Nat
          /\ \A i \in DOMAIN outbox : i < m /\ outbox'[i] = outbox[i]
          /\ outbox'[m] = [run |-> r, reason |-> reason]
    <3>1. outbox \in Seq(Terminal)
      BY Typed
    <3> HIDE DEF StoryOK
    <3> QED BY <1>6, <3>1, Appended
  <2>3. /\ feed'[n].run = r /\ feed'[n].status = reason
        /\ feed'[n].session = rows[r].session /\ feed'[n].gen = rows[r].gen
    BY <1>1, <2>1, MirroredRun DEF Entry
  <2>4. outbox'[m].run = r /\ outbox'[m].reason = reason
    BY <2>2
  <2>5. FeedQuotesRows'
    BY <1>2, <1>4, <2>1, <2>3 DEF FeedQuotesRows
  <2>6. OutboxQuotesRows'
    BY <1>2, <1>4, <2>2, <2>4 DEF OutboxQuotesRows
  <2>7. FeedOrdered'
    BY <1>6, AnnouncementKeepsFeed
  <2>8. OutcomesAgree'
    <3>1. \A k \in DOMAIN feed, i \in DOMAIN outbox : Carries(k, i)' <=> Carries(k, i)
      BY <2>1, <2>2 DEF Carries
    <3>2. Carries(n, m)'
      BY <2>3, <2>4 DEF Carries
    <3>3. \A i \in DOMAIN outbox : ~ Carries(n, i)'
      BY <1>4, <2>2, <2>3 DEF Carries
    <3>4. \A k \in DOMAIN feed : ~ Carries(k, m)'
      <4>1. reason # "running"
        BY <1>6 DEF RunOutcome
      <4> QED BY <1>4, <2>1, <2>4, <4>1 DEF Carries
    <3>5. \A i \in DOMAIN outbox' : rows'[outbox'[i].run].reason = outbox'[i].reason
      BY <2>6 DEF OutboxQuotesRows
    <3>6. \A i \in DOMAIN outbox' : \E k \in DOMAIN feed' : Carries(k, i)'
      BY <3>1, <3>2, <2>1, <2>2 DEF OutcomesAgree
    <3>7. \A k \in DOMAIN feed' :
            feed'[k].status # "running" => \E i \in DOMAIN outbox' : Carries(k, i)'
      BY <3>1, <3>2, <2>1, <2>2 DEF OutcomesAgree
    <3>8. \A i, j \in DOMAIN outbox', k, l \in DOMAIN feed' :
            Carries(k, i)' /\ Carries(l, j)' => (i < j <=> k < l)
      <4> SUFFICES ASSUME NEW i \in DOMAIN outbox', NEW j \in DOMAIN outbox',
                          NEW k \in DOMAIN feed', NEW l \in DOMAIN feed',
                          Carries(k, i)', Carries(l, j)'
                   PROVE  i < j <=> k < l
        OBVIOUS
      <4>1. (i = m <=> k = n) /\ (j = m <=> l = n)
        BY <3>3, <3>4, <2>1, <2>2
      <4>2. CASE i = m
        BY <4>1, <4>2, <2>1, <2>2
      <4>3. CASE i # m /\ j = m
        BY <4>1, <4>3, <2>1, <2>2
      <4>4. CASE i # m /\ j # m
        BY <4>1, <4>4, <3>1, <2>1, <2>2 DEF OutcomesAgree
      <4> QED BY <4>2, <4>3, <4>4
    <3>9. \A q \in DOMAIN rows' :
            rows'[q].reason \in RunOutcome => \E i \in DOMAIN outbox' : outbox'[i].run = q
      BY <1>2, <2>2, <2>4 DEF OutcomesAgree
    <3> QED BY <3>5, <3>6, <3>7, <3>8, <3>9 DEF OutcomesAgree
  <2> QED BY <1>3, <2>5, <2>6, <2>7, <2>8
<1> QED BY <1>1, <1>4, <1>5, <1>6 DEF Closes

(* The story holds from an empty journal on. *)
LEMMA InitStory == Init => StoryOK
<1> SUFFICES ASSUME Init PROVE StoryOK
  OBVIOUS
<1>1. DOMAIN rows = {} /\ DOMAIN runs = {} /\ DOMAIN feed = {} /\ DOMAIN outbox = {}
  BY DEF Init, JournalInit
<1> QED BY <1>1 DEF StoryOK, FencesOK, FeedQuotesRows, OutboxQuotesRows, FeedOrdered, OutcomesAgree

(* And after every step. *)
LEMMA NextStory == Inv /\ StoryOK /\ [Next]_vars => StoryOK'
<1> SUFFICES ASSUME Inv, StoryOK, [Next]_vars PROVE StoryOK'
  OBVIOUS
<1> QED BY Steps, ProgressKeepsStory, ClosingKeepsStory, ReservationKeepsStory DEF Step, Inv

LEMMA StoryInvariance == Spec => []StoryOK
<1> QED BY Invariance, InitStory, NextStory, PTL DEF Spec

(* Whatever the requests, reports, renames, failed writes and restarts, the *)
(* feed tells nothing of a run after its outcome and nothing of a session's *)
(* older run after its newer one.                                           *)
THEOREM FeedIsOrdered == Spec => []FeedOrdered
<1>1. StoryOK => FeedOrdered
  BY DEF StoryOK
<1> QED BY <1>1, StoryInvariance, PTL

(* The feed, the outbox and the rows hold the same outcomes, each once and  *)
(* in the same order.                                                       *)
THEOREM OutcomesDoAgree == Spec => []OutcomesAgree
<1>1. StoryOK => OutcomesAgree
  BY DEF StoryOK
<1> QED BY <1>1, StoryInvariance, PTL

-----------------------------------------------------------------------------
(* The refinement. *)

(* An empty journal is an initial state of the promise. *)
LEMMA InitPromise == Init => Lifecycle!LifecycleInit
<1> SUFFICES ASSUME Init PROVE Lifecycle!LifecycleInit
  OBVIOUS
<1>1. DOMAIN rows = {} /\ DOMAIN runs = {} /\ outbox = <<>>
  BY DEF Init, JournalInit
<1> QED BY <1>1 DEF Lifecycle!LifecycleInit

(* A step that closes nothing and reserves nothing stutters. *)
LEMMA ProgressStutters ==
  ASSUME Progresses
  PROVE  UNCHANGED Lifecycle!lifecycleVars
<1>1. [s \in DOMAIN runs |-> runs[s].id]' = [s \in DOMAIN runs |-> runs[s].id]
  BY DEF Progresses, SameRuns
<1>2. [r \in DOMAIN rows |-> rows[r].gen]' = [r \in DOMAIN rows |-> rows[r].gen]
  BY DEF Progresses, SameRows, SameRow
<1> QED BY <1>1, <1>2 DEF Lifecycle!lifecycleVars, Progresses

(* A run is closed with its outcome published, or withdrawn. *)
LEMMA ClosingIsPromised ==
  ASSUME StateOK, StoryOK, NEW s \in DOMAIN runs, NEW reason \in Ending, Closes(s, reason)
  PROVE  Lifecycle!LifecycleNext
<1>1. s \in Sessions /\ runs[s].id \in DOMAIN rows /\ rows[runs[s].id].reason = "null"
  BY MirroredRun
<1>2. [t \in DOMAIN runs |-> runs[t].id]' = Lifecycle!Without([t \in DOMAIN runs |-> runs[t].id], s)
  BY DEF Closes, Drop, Lifecycle!Without
<1>3. [r \in DOMAIN rows |-> rows[r].gen]' = [r \in DOMAIN rows |-> rows[r].gen]
  BY <1>1 DEF Closes, SameRow
<1>4. \A i \in DOMAIN outbox : outbox[i].run # runs[s].id
  <2>1. \A i \in DOMAIN outbox : outbox[i].reason # "null"
    BY Typed DEF Terminal, RunOutcome
  <2> QED BY <1>1, <2>1 DEF StoryOK, OutboxQuotesRows
<1>5. CASE reason = "dispatch_failed" /\ UNCHANGED outbox
  <2>1. Lifecycle!Withdraw(s)
    BY <1>2, <1>3, <1>5 DEF Lifecycle!Withdraw
  <2> QED BY <1>1, <2>1 DEF Lifecycle!LifecycleNext
<1>6. CASE reason \in RunOutcome /\ outbox' = Append(outbox, [run |-> runs[s].id, reason |-> reason])
  <2>1. Lifecycle!Publish(s, reason)
    BY <1>2, <1>3, <1>6 DEF Lifecycle!Publish
  <2> QED BY <1>1, <1>6, <2>1 DEF Lifecycle!LifecycleNext, Lifecycle!Outcome, RunOutcome
<1> QED BY <1>4, <1>5, <1>6 DEF Closes

(* A run is reserved under a fence larger than every earlier one. *)
LEMMA ReservationIsPromised ==
  ASSUME StateOK, StoryOK, NEW s \in Sessions, NEW r \in RunIds, Opens(s, r)
  PROVE  Lifecycle!LifecycleNext
<1> DEFINE open  == [t \in DOMAIN runs |-> runs[t].id]
           fence == [q \in DOMAIN rows |-> rows[q].gen]
<1>1. open' = Lifecycle!With(open, s, r)
  BY DEF Opens, Lifecycle!With
<1>2. fence' = Lifecycle!With(fence, r, fence'[r])
  BY DEF Opens, Lifecycle!With
<1>3. \A q \in DOMAIN fence : fence[q] < fence'[r]
  BY Typed DEF Opens, StoryOK, FencesOK, Row
<1>4. s \notin DOMAIN open /\ r \notin DOMAIN fence /\ UNCHANGED outbox
  BY DEF Opens
<1>5. Lifecycle!Reserve(s, r)
  BY <1>1, <1>2, <1>3, <1>4 DEF Lifecycle!Reserve
<1> QED BY <1>5 DEF Lifecycle!LifecycleNext

(* Every step of one of the classes is a step of the promise or a stutter. *)
LEMMA StepIsPromised ==
  ASSUME Inv, StoryOK, Step
  PROVE  [Lifecycle!LifecycleNext]_(Lifecycle!lifecycleVars)
BY ProgressStutters, ClosingIsPromised, ReservationIsPromised DEF Step, Inv

LEMMA NextPromise == Inv /\ StoryOK /\ [Next]_vars => [Lifecycle!LifecycleNext]_(Lifecycle!lifecycleVars)
BY Steps, StepIsPromised

(* The coordinator and its journal keep the promise RunLifecycle states: a   *)
(* session has at most one open run, a run is reserved once under a larger   *)
(* fence and ends once, published or withdrawn, over restarts, failed writes *)
(* and refused calls.                                                        *)
THEOREM LifecycleImplemented == Spec => ImplementsLifecycle
<1> QED BY Invariance, StoryInvariance, InitPromise, NextPromise, PTL
        DEF Spec, ImplementsLifecycle, Lifecycle!LifecycleSpec
=============================================================================
