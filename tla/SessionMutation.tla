-------------------------- MODULE SessionMutation --------------------------
(***************************************************************************)
(* The session mutation coordinator (session-mutation-coordinator.ts): the *)
(* in-memory map holding at most one active run per session, with the run  *)
(* journal as its write-ahead listener (server.ts passes record as         *)
(* onLifecycleEvent, allocateGeneration and listActive).  Every operation  *)
(* runs without an await, so it is one step: the memory change and the     *)
(* journal transaction it emits.  When the transaction throws, the         *)
(* coordinator restores the previous record, so nothing changes except a   *)
(* generation already allocated.                                           *)
(*                                                                         *)
(* The callers are any number of concurrent requests.  A request that      *)
(* reserved something holds a ticket until it reports back: starts and     *)
(* aborts are the local variables of startSessionRun and abortSessionRun   *)
(* across their await.  A restart loses the memory and the requests and    *)
(* reloads the active rows of the journal.                                 *)
(***************************************************************************)
EXTENDS SessionRunJournal, FiniteSets

CONSTANTS
  EngineActivity,  \* non-idle statuses the engine reports in this instance
  MaxGeneration,   \* bound: generations allocated
  MaxFeed,         \* bound: feed entries
  MaxRequests      \* bound: start requests, and abort requests, in flight

ASSUME ActivityAssumption == EngineActivity \subseteq {"running", "waiting", "retrying"}

VARIABLES
  runs,            \* Map: session -> stored mutation
  starts,          \* start requests between reserveStart and its outcome
  aborts           \* abort requests between reserveAbort and its outcome

vars == <<generation, rows, feed, outbox, runs, starts, aborts>>

(* idle abstracts authoritativeIdleObservedAt: null, less than the minimum  *)
(* interval ago, or at least that long ago.                                 *)
IdleSample == {"null", "recent", "aged"}

Run == [id : RunIds, gen : Nat \ {0}, status : ActiveStatus, observed : BOOLEAN,
        abortCmd : AbortCommands, abortAccepted : BOOLEAN, idle : IdleSample]

StartTicket == [session : Sessions, run : RunIds]
AbortTicket == [session : Sessions, run : RunIds, cmd : AbortCommands,
                prev : ActiveStatus \ {"aborting"}]

(* The statuses a client or the engine may report through observe. *)
ReportedStatus == EngineActivity \cup {"starting", "aborting", "idle"} \cup RunOutcome

Holds(s, r) == s \in DOMAIN runs /\ runs[s].id = r

-----------------------------------------------------------------------------
(* The operations, each total: an early return or a throw before the first  *)
(* assignment is the disjunct NoChange.                                     *)

NoChange == UNCHANGED <<journalVars, runs>>

FreshRun(r) ==
  [id |-> r, gen |-> generation + 1, status |-> "starting", observed |-> FALSE,
   abortCmd |-> NoCommand, abortAccepted |-> FALSE, idle |-> "null"]

(* session_busy is thrown when the session has a run. *)
ReserveStart(s, r) ==
  /\ s \notin DOMAIN runs
  /\ AllocateGeneration
  /\ RecordReserved(s, FreshRun(r))
  /\ runs' = Put(runs, s, FreshRun(r))

(* Mutant: the run is exposed before the journal insert that throws. *)
ReserveStartExposed(s) ==
  /\ s \notin DOMAIN runs
  /\ AllocateGeneration
  /\ \E r \in RunIds \ DOMAIN rows : runs' = Put(runs, s, FreshRun(r))
  /\ UNCHANGED <<rows, feed, outbox>>

(* The generation is allocated, the journal insert throws. *)
ReserveStartFails(s) ==
  /\ s \notin DOMAIN runs
  /\ AllocateGeneration
  /\ UNCHANGED <<rows, feed, outbox, runs>>

(* The run of s becomes next, and the journal records the event. *)
Advance(event, s, next) ==
  /\ RecordUpdate(event, s, next)
  /\ runs' = Put(runs, s, next)

(* The run of s is closed for the reason given and leaves the map. *)
Settle(event, s, reason) ==
  /\ RecordClosed(event, s, runs[s], reason)
  /\ runs' = Drop(runs, s)

AcceptStart(s, r) ==
  \/ /\ Holds(s, r)
     /\ runs[s].status = "starting"
     /\ Advance("run_started", s, [runs[s] EXCEPT !.status = "running"])
  \/ /\ Holds(s, r)
     /\ runs[s].status # "starting"
     /\ runs' = [runs EXCEPT ![s].idle = "null"]
     /\ UNCHANGED journalVars
  \/ ~ Holds(s, r) /\ NoChange

RollbackStart(s, r) ==
  \/ Holds(s, r) /\ Settle("start_rolled_back", s, "dispatch_failed")
  \/ ~ Holds(s, r) /\ NoChange

(* run_mismatch or session_busy is thrown otherwise. *)
ReserveAbort(s, r, c) ==
  /\ Holds(s, r)
  /\ runs[s].status # "aborting"
  /\ Advance("abort_requested", s,
             [runs[s] EXCEPT !.status = "aborting", !.abortCmd = c,
                             !.abortAccepted = FALSE, !.idle = "null"])

AbortMatches(s, r, c) ==
  Holds(s, r) /\ runs[s].status = "aborting" /\ runs[s].abortCmd = c

AcceptAbort(s, r, c) ==
  \/ /\ AbortMatches(s, r, c)
     /\ Advance("abort_accepted", s, [runs[s] EXCEPT !.abortAccepted = TRUE])
  \/ ~ AbortMatches(s, r, c) /\ NoChange

RollbackAbort(s, r, c, previousStatus) ==
  \/ /\ AbortMatches(s, r, c)
     /\ ~ runs[s].abortAccepted
     /\ Advance("abort_rolled_back", s,
               [runs[s] EXCEPT !.status = previousStatus, !.abortCmd = NoCommand,
                               !.idle = "null"])
  \/ ~ (AbortMatches(s, r, c) /\ ~ runs[s].abortAccepted) /\ NoChange

(* observe: run_mismatch is thrown when the run is not the session's.       *)
ObserveIdle(s, r) ==
  LET run      == runs[s]
      canClear == IF run.status = "aborting" THEN run.abortAccepted ELSE run.observed
  IN  \/ /\ Holds(s, r)
         /\ canClear
         /\ Settle("run_terminal", s,
                   IF run.status = "aborting" THEN "aborted" ELSE "completed")
      \/ ~ (Holds(s, r) /\ canClear) /\ NoChange

ObserveTerminal(s, r, outcome) ==
  \/ Holds(s, r) /\ Settle("run_terminal", s, outcome)
  \/ ~ Holds(s, r) /\ NoChange

(* Engine activity never downgrades a reserved abort. *)
ObserveActivity(s, r, status) ==
  \/ /\ Holds(s, r)
     /\ Advance("progress", s,
               [runs[s] EXCEPT !.observed = @ \/ status # "starting",
                               !.status = IF @ = "aborting" THEN @ ELSE status,
                               !.idle = "null"])
  \/ ~ Holds(s, r) /\ NoChange

Observe(s, r, status) ==
  CASE status = "idle"          -> ObserveIdle(s, r)
    [] status \in RunOutcome    -> ObserveTerminal(s, r, status)
    [] status \in ActiveStatus  -> ObserveActivity(s, r, status)

(* reconcileAuthoritativeIdle: a starting run, an abort not yet accepted    *)
(* and a first sample still recent are left alone.                          *)
ReconcileAuthoritativeIdle(s, r) ==
  \/ /\ Holds(s, r)
     /\ runs[s].status = "aborting"
     /\ runs[s].abortAccepted
     /\ Settle("run_terminal", s, "aborted")
  \/ /\ Holds(s, r)
     /\ runs[s].status \notin {"starting", "aborting"}
     /\ \/ /\ runs[s].idle = "null"
           /\ Advance("idle_suspected", s, [runs[s] EXCEPT !.idle = "recent"])
        \/ /\ runs[s].idle = "aged"
           /\ Settle("run_terminal", s, "completed")
        \/ runs[s].idle = "recent" /\ NoChange
  \/ /\ Holds(s, r) =>
           \/ runs[s].status = "starting"
           \/ runs[s].status = "aborting" /\ ~ runs[s].abortAccepted
     /\ NoChange

(* A rename accepted by the engine, with a title that differs. *)
UpdateTitle(s) == s \in DOMAIN runs /\ Advance("title_updated", s, runs[s])

(* minimumIntervalMs passes since the first idle sample. *)
IntervalElapses(s) ==
  /\ s \in DOMAIN runs
  /\ runs[s].idle = "recent"
  /\ runs' = [runs EXCEPT ![s].idle = "aged"]
  /\ UNCHANGED journalVars

(* Mutant: an abort pending at the restart waits for an answer. *)
RestoredPending(s) ==
  LET r == CHOOSE r \in OpenRuns : rows[r].session = s
  IN  [id |-> r, gen |-> rows[r].gen, status |-> rows[r].status,
       observed |-> rows[r].observed, abortCmd |-> rows[r].abortCmd,
       abortAccepted |-> FALSE, idle |-> "null"]

(* initialRuns: the open rows; a run restored as aborting counts as an       *)
(* accepted abort, idle samples start over.                                  *)
Restored(s) ==
  LET r == CHOOSE r \in OpenRuns : rows[r].session = s
  IN  [id |-> r, gen |-> rows[r].gen, status |-> rows[r].status,
       observed |-> rows[r].observed, abortCmd |-> rows[r].abortCmd,
       abortAccepted |-> rows[r].status = "aborting", idle |-> "null"]

Restore ==
  /\ runs' = [s \in {rows[r].session : r \in OpenRuns} |-> Restored(s)]
  /\ UNCHANGED journalVars

-----------------------------------------------------------------------------
(* The requests that call the operations. *)

RequestVars == <<starts, aborts>>

BeginStart(s, r) ==
  /\ generation < MaxGeneration
  /\ Cardinality(starts) < MaxRequests
  /\ ReserveStart(s, r)
  /\ starts' = starts \cup {[session |-> s, run |-> r]}
  /\ UNCHANGED aborts

BeginStartFails(s) ==
  /\ generation < MaxGeneration
  /\ ReserveStartFails(s)
  /\ UNCHANGED RequestVars

(* The prompt was dispatched: acceptStart, or null when the run is gone. *)
FinishStart(t) ==
  /\ t \in starts
  /\ Len(feed) < MaxFeed
  /\ AcceptStart(t.session, t.run)
  /\ starts' = starts \ {t}
  /\ UNCHANGED aborts

(* The dispatch, or acceptStart's journal write, failed: rollbackStart,      *)
(* whose own journal write may throw too and leave the run where it is.      *)
AbandonStart(t) ==
  /\ t \in starts
  /\ \/ RollbackStart(t.session, t.run)
     \/ NoChange
  /\ starts' = starts \ {t}
  /\ UNCHANGED aborts

BeginAbort(s, r, c) ==
  /\ Cardinality(aborts) < MaxRequests
  /\ ReserveAbort(s, r, c)
  /\ aborts' = aborts \cup {[session |-> s, run |-> r, cmd |-> c, prev |-> runs[s].status]}
  /\ UNCHANGED starts

FinishAbort(t) ==
  /\ t \in aborts
  /\ AcceptAbort(t.session, t.run, t.cmd)
  /\ aborts' = aborts \ {t}
  /\ UNCHANGED starts

AbandonAbort(t) ==
  /\ t \in aborts
  /\ \/ RollbackAbort(t.session, t.run, t.cmd, t.prev)
     \/ NoChange
  /\ aborts' = aborts \ {t}
  /\ UNCHANGED starts

Report(s, r, status) ==
  /\ Len(feed) < MaxFeed
  /\ Observe(s, r, status)
  /\ UNCHANGED RequestVars

SampleIdle(s, r) ==
  /\ Len(feed) < MaxFeed
  /\ ReconcileAuthoritativeIdle(s, r)
  /\ UNCHANGED RequestVars

Rename(s) ==
  /\ Len(feed) < MaxFeed
  /\ UpdateTitle(s)
  /\ UNCHANGED RequestVars

TimePasses(s) == IntervalElapses(s) /\ UNCHANGED RequestVars

Restart ==
  /\ Restore
  /\ starts' = {}
  /\ aborts' = {}

Init ==
  /\ JournalInit
  /\ runs = [s \in {} |-> {}]
  /\ starts = {}
  /\ aborts = {}

Next ==
  \/ \E s \in Sessions :
       \/ \E r \in RunIds :
            \/ BeginStart(s, r)
            \/ \E c \in AbortCommands : BeginAbort(s, r, c)
            \/ \E status \in ReportedStatus : Report(s, r, status)
            \/ SampleIdle(s, r)
       \/ BeginStartFails(s)
       \/ Rename(s)
       \/ TimePasses(s)
  \/ \E t \in starts : FinishStart(t) \/ AbandonStart(t)
  \/ \E t \in aborts : FinishAbort(t) \/ AbandonAbort(t)
  \/ Restart

Spec == Init /\ [][Next]_vars

-----------------------------------------------------------------------------
(* Properties. *)

(* Every variable has its type. *)
TypeOK ==
  /\ JournalTypeOK
  /\ DOMAIN runs \subseteq Sessions
  /\ \A s \in DOMAIN runs : runs[s] \in Run
  /\ starts \subseteq StartTicket
  /\ aborts \subseteq AbortTicket

(* What is in memory is what a restart would reload: each active run has an *)
(* open row with the same fence, status and abort id, and each open row is  *)
(* the active run of its session.  It holds after every operation, failed   *)
(* journal write and restart, so record never throws a conflict and no run  *)
(* is lost or resurrected by a crash.                                       *)
JournalMirrorsMemory ==
  /\ \A s \in DOMAIN runs :
       LET run == runs[s]
       IN  /\ IsOpen(run.id)
           /\ rows[run.id] = [session |-> s, gen |-> run.gen, status |-> run.status,
                              observed |-> run.observed, abortCmd |-> run.abortCmd,
                              reason |-> "null"]
  /\ \A r \in OpenRuns : Holds(rows[r].session, r)

(* The feed tells one story per run and per session: nothing follows a      *)
(* run's outcome, not even a late rename or a late acceptance, and entries  *)
(* of an older run of a session never follow those of a newer one.          *)
FeedOrdered ==
  \A i, j \in DOMAIN feed :
    i < j =>
      /\ feed[i].run = feed[j].run => feed[i].status = "running"
      /\ feed[i].session = feed[j].session => feed[i].gen <= feed[j].gen

(* A run's outcome reaches both readers, once, and they agree: the feed the *)
(* cloud consumes and the outbox the notification clients page through hold *)
(* the same outcomes, as recorded in the run's row, in the same order, and  *)
(* a row closed with an outcome is in them.                                 *)
Carries(k, i) == feed[k].run = outbox[i].run /\ feed[k].status = outbox[i].reason

OutcomesAgree ==
  /\ \A i \in DOMAIN outbox :
       /\ rows[outbox[i].run].reason = outbox[i].reason
       /\ \E k \in DOMAIN feed : Carries(k, i)
  /\ \A k \in DOMAIN feed :
       feed[k].status # "running" => \E i \in DOMAIN outbox : Carries(k, i)
  /\ \A i, j \in DOMAIN outbox, k, l \in DOMAIN feed :
       Carries(k, i) /\ Carries(l, j) => (i < j <=> k < l)
  /\ \A r \in DOMAIN rows :
       rows[r].reason \in RunOutcome => \E i \in DOMAIN outbox : outbox[i].run = r

(* The coordinator and the journal together keep the promise RunLifecycle   *)
(* states; a restart, a failed write and a refused call are stutters of it. *)
Lifecycle ==
  INSTANCE RunLifecycle WITH
    open      <- [s \in DOMAIN runs |-> runs[s].id],
    fence     <- [r \in DOMAIN rows |-> rows[r].gen],
    published <- outbox

ImplementsLifecycle == Lifecycle!LifecycleSpec
=============================================================================
