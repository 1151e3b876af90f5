--------------------------- MODULE MediaGeneration ---------------------------
(***************************************************************************)
(* Video generation with a paid provider: the durable jobs (media-         *)
(* generation/repository.ts), the request that submits one (service.ts)    *)
(* and the worker that follows them (worker.ts).                           *)
(*                                                                         *)
(* A job is the row of one client request, so jobs are named by their      *)
(* requests.  Every write checks the revision its caller has read and      *)
(* raises it; fresh[j] is the set of actors that hold j's present          *)
(* revision, which is all that the check can tell.  next_poll_at is seen   *)
(* as due or not yet due, poll_attempts saturates at the one bound it is   *)
(* compared with.                                                          *)
(*                                                                         *)
(* A step is what runs between two awaits.  A pass of the worker works on  *)
(* the copies it listed; wake() starts a pass beside one that is waiting.  *)
(* Whether an adapter can look up or cancel a submission is optional in    *)
(* its contract (types.ts:90).  The workspace of a job may be removed, or   *)
(* its configuration become one that no adapters can be made from (provider-*)
(* registry.ts:42), at any time and for any time.                          *)
(***************************************************************************)
EXTENDS Integers, FiniteSets

CONSTANTS
  Jobs,             \* client requests
  Callers,          \* HTTP requests that submit
  Passes,           \* passes of the worker that may be in progress at once
  Offers,           \* what adapters of the instance can do
  MaxActive,        \* maxConcurrentJobs
  MaxMissing,       \* maxMissingAdapterAttempts
  MaxPollFailures,  \* maxPollFailures
  MaxCrashes, MaxCancels, \* bounds: ends of the process, cancellations asked for
  NoJob

ASSUME MediaAssumption ==
  /\ NoJob \notin Jobs
  /\ Callers \cap Passes = {}
  /\ Offers \subseteq SUBSET {"lookup", "cancel"}
  /\ MaxMissing \in Nat \ {0} /\ MaxPollFailures \in Nat \ {0} /\ MaxActive \in Nat

VARIABLES
  job,          \* the rows
  fresh,        \* job -> actors whose copy carries its present revision
  disk,         \* jobs whose artifact file is complete in the workspace
  caller,       \* submissions in progress
  pass,         \* passes in progress
  pollFailures, \* the worker's count of failed queries, in memory
  stopped,      \* the worker has been disposed of
  offer,        \* what the adapter of this instance can do
  workspace,    \* job -> its workspace as a pass finds it
  wire,         \* what became of the submission sent for a request
  provider,     \* the provider's own job
  submissions,  \* ghost: calls of adapter.submit for a request
  crashes, cancels

external  == <<offer, workspace, wire, provider, submissions, crashes, cancels>>
mediaVars == <<job, fresh, disk, caller, pass, pollFailures, stopped, external>>

Terminal == {"completed", "failed", "cancelled", "submission_unknown"}
Statuses == {"queued", "submitting", "submitted", "running", "cancel_requested", "downloading"}
              \cup Terminal

(* Mutant: a failed job is taken up again when the provider reports on it. *)
AllowedAgain == [s \in Statuses \cup {"absent"} |->
  CASE s = "queued"     -> {"queued", "submitting", "cancel_requested", "cancelled", "failed"}
    [] s = "submitting" -> {"submitting", "submitted", "cancel_requested", "failed",
                            "submission_unknown"}
    [] s \in {"submitted", "running", "cancel_requested", "failed"} ->
         {s, "running", "downloading", "cancel_requested", "cancelled", "failed"}
    [] s = "downloading" -> {"downloading", "completed", "failed"}
    [] OTHER -> {}]

(* ALLOWED_TRANSITIONS. *)
Allowed == [s \in Statuses \cup {"absent"} |->
  CASE s = "queued"     -> {"queued", "submitting", "cancel_requested", "cancelled", "failed"}
    [] s = "submitting" -> {"submitting", "submitted", "cancel_requested", "failed",
                            "submission_unknown"}
    [] s = "submitted"  -> {"submitted", "running", "downloading", "cancel_requested",
                            "cancelled", "failed"}
    [] s = "running"    -> {"running", "downloading", "cancel_requested", "cancelled", "failed"}
    [] s = "cancel_requested" -> {"cancel_requested", "cancelled", "running", "downloading",
                                  "failed"}
    [] s = "downloading" -> {"downloading", "completed", "failed"}
    [] OTHER -> {}]

Absent  == [status |-> "absent", providerJobId |-> FALSE, pollAttempts |-> 0, due |-> FALSE]
Row     == [status : Statuses \cup {"absent"}, providerJobId : BOOLEAN,
            pollAttempts : 0 .. MaxMissing, due : BOOLEAN]
Working == {"queued", "running"}            \* states of a provider job that has not ended
WorkspaceStates == {"ready", "gone", "unreadable"}
ProviderStates == {"none", "completed", "failed", "cancelled"} \cup Working

NoCopy  == Absent
Actors  == Callers \cup Passes
IdleCaller == [at |-> "idle", job |-> NoJob]
IdlePass   == [at |-> "idle", job |-> NoJob, todo |-> [j \in Jobs |-> NoCopy]]

MediaTypeOK ==
  /\ job \in [Jobs -> Row]
  /\ fresh \in [Jobs -> SUBSET Actors]
  /\ disk \subseteq Jobs
  /\ caller \in [Callers -> [at : {"idle", "sent", "lookup"}, job : Jobs \cup {NoJob}]]
  /\ pass \in [Passes -> [at : {"idle", "listed", "lookup", "cancelling", "checking",
                                "inspecting", "downloading", "published"},
                          job : Jobs \cup {NoJob}, todo : [Jobs -> Row]]]
  /\ pollFailures \in [Jobs -> 0 .. MaxPollFailures - 1]
  /\ stopped \in BOOLEAN
  /\ offer \in Offers
  /\ workspace \in [Jobs -> WorkspaceStates]
  /\ wire \in [Jobs -> {"none", "sent", "taken", "refused"}]
  /\ provider \in [Jobs -> ProviderStates]
  /\ submissions \in [Jobs -> Nat]
  /\ crashes \in Nat /\ cancels \in Nat

Init ==
  /\ job = [j \in Jobs |-> Absent]
  /\ fresh = [j \in Jobs |-> {}]
  /\ disk = {}
  /\ caller = [c \in Callers |-> IdleCaller]
  /\ pass = [p \in Passes |-> IdlePass]
  /\ pollFailures = [j \in Jobs |-> 0]
  /\ stopped = FALSE
  /\ offer \in Offers
  /\ workspace = [j \in Jobs |-> "ready"]
  /\ wire = [j \in Jobs |-> "none"]
  /\ provider = [j \in Jobs |-> "none"]
  /\ submissions = [j \in Jobs |-> 0]
  /\ crashes = 0 /\ cancels = 0

-----------------------------------------------------------------------------
(* The repository. *)

Active        == {j \in Jobs : job[j].status \notin Terminal \cup {"absent"}}
Reconcilable  == {j \in Active : job[j].due}            \* listReconcilable
Bump(n)       == IF n < MaxMissing THEN n + 1 ELSE n

(* transition succeeds: the actor's revision is the row's, and the move is   *)
(* allowed.  The writer holds the row it has written.                        *)
Holds(a, j)   == a \in fresh[j]

MayMove(a, j, to) == Holds(a, j) /\ to \in Allowed[job[j].status]
Write(a, j, row)  == /\ job' = [job EXCEPT ![j] = row]
                     /\ fresh' = [fresh EXCEPT ![j] = {a}]
Moved(j, to)      == [job[j] EXCEPT !.status = to, !.due = TRUE]
Polled(j, to)     == [job[j] EXCEPT !.status = to, !.due = FALSE,
                                    !.pollAttempts = Bump(job[j].pollAttempts)]

(* A write whose conflict is thrown to somebody who drops it. *)
TryWrite(a, j, row) ==
  IF MayMove(a, j, row.status) THEN Write(a, j, row) ELSE UNCHANGED <<job, fresh>>

(* next_poll_at passes. *)
BecomesDue(j) ==
  /\ j \in Active /\ ~ job[j].due
  /\ job' = [job EXCEPT ![j].due = TRUE]
  /\ UNCHANGED <<fresh, disk, caller, pass, pollFailures, stopped, external>>

(* requestCancellation; from downloading the transition is refused. *)
RequestCancellation(j) ==
  /\ cancels < MaxCancels
  /\ j \in Active
  /\ job[j].status # "cancel_requested"
  /\ "cancel_requested" \in Allowed[job[j].status]
  /\ job' = [job EXCEPT ![j] = Moved(j, "cancel_requested")]
  /\ fresh' = [fresh EXCEPT ![j] = {}]
  /\ cancels' = cancels + 1
  /\ UNCHANGED <<disk, caller, pass, pollFailures, stopped, offer, workspace, wire, provider,
                 submissions, crashes>>

-----------------------------------------------------------------------------
(* submit. *)

(* Mutant: a request whose outcome is unknown may be submitted again. *)
KnownUnlessUnknown(j) == job[j].status \notin {"absent", "submission_unknown"}

Known(j) == job[j].status # "absent"

(* An existing request gets its job and nothing is sent; a new one creates   *)
(* the row, claims it and calls the provider without an await in between.    *)
Submit(c, j) ==
  /\ caller[c] = IdleCaller
  /\ ~ Known(j)
  /\ Cardinality(Active) < MaxActive
  /\ Write(c, j, [Absent EXCEPT !.status = "submitting"])
  /\ caller' = [caller EXCEPT ![c] = [at |-> "sent", job |-> j]]
  /\ wire' = [wire EXCEPT ![j] = "sent"]
  /\ submissions' = [submissions EXCEPT ![j] = @ + 1]
  /\ UNCHANGED <<disk, pass, pollFailures, stopped, offer, workspace, provider, crashes, cancels>>

CallerAt(c, points) == caller[c].at \in points
CallerEnds(c) == caller' = [caller EXCEPT ![c] = IdleCaller]
OnlyCaller == UNCHANGED <<disk, pass, pollFailures, stopped, external>>

(* What follows an answer that is neither an acceptance nor a rejection:     *)
(* look the submission up where the adapter can, else persist unknown.       *)
OutcomeUnknown(c) ==
  IF "lookup" \in offer
  THEN caller' = [caller EXCEPT ![c].at = "lookup"] /\ UNCHANGED <<job, fresh>>
  ELSE CallerEnds(c) /\ TryWrite(c, caller[c].job, Moved(caller[c].job, "submission_unknown"))

Submitted(j) == [Moved(j, "submitted") EXCEPT !.providerJobId = TRUE]

(* A conflict of the write is caught like a failed submission. *)
SubmitAccepted(c) ==
  /\ CallerAt(c, {"sent"})
  /\ wire[caller[c].job] = "taken"
  /\ IF MayMove(c, caller[c].job, "submitted")
     THEN Write(c, caller[c].job, Submitted(caller[c].job)) /\ CallerEnds(c)
     ELSE OutcomeUnknown(c)
  /\ OnlyCaller

(* Rejected by the provider, or no credential to send it with. *)
SubmitRejected(c) ==
  /\ CallerAt(c, {"sent"})
  /\ wire[caller[c].job] = "refused"
  /\ TryWrite(c, caller[c].job, Moved(caller[c].job, "failed"))
  /\ CallerEnds(c)
  /\ OnlyCaller

(* Transport loss, or an answer without an id. *)
SubmitLost(c) ==
  /\ CallerAt(c, {"sent"})
  /\ OutcomeUnknown(c)
  /\ OnlyCaller

(* reconcileSubmission in the request's own catch. *)
CallerLooksUp(c) ==
  /\ CallerAt(c, {"lookup"})
  /\ \/ /\ provider[caller[c].job] # "none"
        /\ TryWrite(c, caller[c].job, Submitted(caller[c].job))
     \/ TryWrite(c, caller[c].job, Moved(caller[c].job, "submission_unknown"))
  /\ CallerEnds(c)
  /\ OnlyCaller

-----------------------------------------------------------------------------
(* The worker. *)

PassStart(p) ==
  /\ ~ stopped
  /\ pass[p].at = "idle"
  /\ Reconcilable # {}
  /\ pass' = [pass EXCEPT ![p] = [at |-> "listed", job |-> NoJob,
       todo |-> [j \in Jobs |-> IF j \in Reconcilable THEN job[j] ELSE NoCopy]]]
  /\ fresh' = [j \in Jobs |-> IF j \in Reconcilable THEN fresh[j] \cup {p} ELSE fresh[j]]
  /\ UNCHANGED <<job, disk, caller, pollFailures, stopped, external>>

Todo(p) == {j \in Jobs : pass[p].todo[j] # NoCopy}

(* The pass goes on with what is left of its list, or ends. *)
PassGoesOn(p, rest) ==
  pass' = [pass EXCEPT ![p] =
    IF rest = IdlePass.todo THEN IdlePass
    ELSE [at |-> "listed", job |-> NoJob, todo |-> rest]]

Drop(p, j) == [pass[p].todo EXCEPT ![j] = NoCopy]

PassStops(p) ==
  /\ stopped /\ pass[p].at = "listed"
  /\ PassGoesOn(p, IdlePass.todo)
  /\ UNCHANGED <<job, fresh, disk, caller, pollFailures, stopped, external>>

(* reconcile(copy) up to its first await on the adapter.  The copy's         *)
(* revision is stale unless the pass is still in fresh.  An adapter may be   *)
(* missing at any time: the workspace's configuration changes.               *)
Begins(p, j)   == ~ stopped /\ pass[p].at = "listed" /\ j \in Todo(p)
Copy(p, j)     == pass[p].todo[j]
OnDisk(p, j)   == Copy(p, j).status = "downloading" /\ j \in disk
(* workspaceRoot is asked for a copy in downloading, resolveAdapters for     *)
(* every one; without a workspace it returns no adapter, and it is rejected  *)
(* by a configuration it cannot make sense of.                               *)
HasRoot(p, j)  == Copy(p, j).status = "downloading" => workspace[j] # "gone"
Resolves(p, j) == HasRoot(p, j) /\ workspace[j] # "unreadable"
HasAdapter(j)  == workspace[j] = "ready"
Waits(p, j, at) == pass' = [pass EXCEPT ![p] = [@ EXCEPT !.at = at, !.job = j,
                                                        !.todo = Drop(p, j)]]
OnlyPass       == UNCHANGED <<disk, caller, stopped, external>>

(* Both are asked outside the try: pass() drops what they throw, the row is  *)
(* as it was, due, and no attempt is counted.                                *)
PassThrows(p, j) ==
  /\ Begins(p, j)
  /\ ~ Resolves(p, j)
  /\ PassGoesOn(p, Drop(p, j))
  /\ UNCHANGED <<job, fresh, pollFailures>> /\ OnlyPass

(* A file that cannot be read is taken for one that is not there.            *)
FinishFromDisk(p, j) ==
  /\ Begins(p, j)
  /\ OnDisk(p, j) /\ HasRoot(p, j)
  /\ TryWrite(p, j, Moved(j, "completed"))
  /\ PassGoesOn(p, Drop(p, j))
  /\ UNCHANGED pollFailures /\ OnlyPass

(* A submission without an identity: its request died, or its deadline has   *)
(* passed.                                                                   *)
LookUp(p, j) ==
  /\ Begins(p, j)
  /\ ~ Copy(p, j).providerJobId /\ Copy(p, j).status = "submitting"
  /\ HasAdapter(j) /\ "lookup" \in offer
  /\ Waits(p, j, "lookup")
  /\ UNCHANGED <<job, fresh, pollFailures>> /\ OnlyPass

LookUpReturns(p) ==
  /\ pass[p].at = "lookup"
  /\ \/ /\ provider[pass[p].job] # "none"
        /\ TryWrite(p, pass[p].job, Submitted(pass[p].job))
     \/ TryWrite(p, pass[p].job, Moved(pass[p].job, "submission_unknown"))
  /\ PassGoesOn(p, pass[p].todo)
  /\ UNCHANGED pollFailures /\ OnlyPass

(* Without an adapter, or with one that cannot look up. *)
SubmissionUnknown(p, j) ==
  /\ Begins(p, j) /\ Resolves(p, j)
  /\ ~ Copy(p, j).providerJobId /\ Copy(p, j).status = "submitting"
  /\ TryWrite(p, j, Moved(j, "submission_unknown"))
  /\ PassGoesOn(p, Drop(p, j))
  /\ UNCHANGED pollFailures /\ OnlyPass

(* deferOrFailUnavailable: no identity to ask about, or no adapter to ask.   *)
DeferOrFail(p, j) ==
  /\ Begins(p, j) /\ Resolves(p, j)
  /\ Copy(p, j).providerJobId \/ Copy(p, j).status # "submitting"
  /\ IF Copy(p, j).pollAttempts + 1 >= MaxMissing
     THEN TryWrite(p, j, Moved(j, "failed"))
     ELSE TryWrite(p, j, Polled(j, Copy(p, j).status))
  /\ PassGoesOn(p, Drop(p, j))
  /\ UNCHANGED pollFailures /\ OnlyPass

(* The row is read again before the query, whatever has become of it.        *)
Reads(p, j) == fresh' = [fresh EXCEPT ![j] = @ \cup {p}]

Inspect(p, j) ==
  /\ Begins(p, j) /\ HasAdapter(j)
  /\ Copy(p, j).providerJobId /\ Copy(p, j).status # "cancel_requested"
  /\ Waits(p, j, "inspecting") /\ Reads(p, j)
  /\ UNCHANGED <<job, pollFailures>> /\ OnlyPass

(* A cancellation is passed on where the adapter can, else the provider is   *)
(* asked whether the job has ended by itself.                                *)
HandleCancellation(p, j) ==
  /\ Begins(p, j) /\ HasAdapter(j)
  /\ Copy(p, j).providerJobId /\ Copy(p, j).status = "cancel_requested"
  /\ Waits(p, j, IF "cancel" \in offer THEN "cancelling" ELSE "checking")
  /\ UNCHANGED <<job, fresh, pollFailures>> /\ OnlyPass

(* The catch: the row is read once more and, unless it has ended, failed.    *)
Fails(p) ==
  LET j == pass[p].job IN
  IF job[j].status \in Terminal
  THEN UNCHANGED <<job, fresh, pollFailures>>
  ELSE /\ Write(p, j, Moved(j, "failed"))
       /\ pollFailures' = [pollFailures EXCEPT ![j] = 0]

(* An await on the adapter, other than the query, is rejected: the network,  *)
(* its thirty seconds, or dispose.                                           *)
AwaitFails(p) ==
  /\ pass[p].at \in {"cancelling", "checking", "downloading"}
  /\ Fails(p)
  /\ PassGoesOn(p, pass[p].todo)
  /\ OnlyPass

(* Mutant: one query too many is tried again. *)
InspectFailsLate(p) ==
  /\ pass[p].at = "inspecting"
  /\ LET j == pass[p].job IN
     IF job[j].status \notin Terminal /\ pollFailures[j] + 1 <= MaxPollFailures
     THEN /\ Write(p, j, Polled(j, job[j].status))
          /\ pollFailures' = [pollFailures EXCEPT ![j] = @ + 1]
     ELSE Fails(p)
  /\ PassGoesOn(p, pass[p].todo)
  /\ OnlyPass

(* Mutant: failed queries are not counted. *)
InspectFailsForever(p) ==
  /\ pass[p].at = "inspecting"
  /\ LET j == pass[p].job IN
     IF job[j].status \notin Terminal
     THEN Write(p, j, Polled(j, job[j].status)) /\ UNCHANGED pollFailures
     ELSE Fails(p)
  /\ PassGoesOn(p, pass[p].todo)
  /\ OnlyPass

(* The query is rejected: tried again, a bounded number of times in a row.   *)
InspectFails(p) ==
  /\ pass[p].at = "inspecting"
  /\ LET j == pass[p].job IN
     IF job[j].status \notin Terminal /\ pollFailures[j] + 1 < MaxPollFailures
     THEN /\ Write(p, j, Polled(j, job[j].status))
          /\ pollFailures' = [pollFailures EXCEPT ![j] = @ + 1]
     ELSE Fails(p)
  /\ PassGoesOn(p, pass[p].todo)
  /\ OnlyPass

(* cancel returns; the provider may have ended the job or not yet.           *)
CancelReturns(p) ==
  LET j == pass[p].job IN
  /\ pass[p].at = "cancelling"
  /\ \/ UNCHANGED provider
     \/ /\ provider[j] \in Working
        /\ provider' = [provider EXCEPT ![j] = "cancelled"]
  /\ pass' = [pass EXCEPT ![p].at = "inspecting"] /\ Reads(p, j)
  /\ UNCHANGED <<job, pollFailures, disk, caller, stopped, offer, workspace, wire, submissions,
                 crashes, cancels>>

CheckReturns(p) ==
  LET j == pass[p].job IN
  /\ pass[p].at = "checking"
  /\ IF provider[j] \in Working
     THEN /\ IF MayMove(p, j, "cancel_requested")
             THEN Write(p, j, Polled(j, "cancel_requested")) /\ UNCHANGED pollFailures
             ELSE Fails(p)
          /\ PassGoesOn(p, pass[p].todo)
     ELSE /\ pass' = [pass EXCEPT ![p].at = "inspecting"] /\ Reads(p, j)
          /\ UNCHANGED <<job, pollFailures>>
  /\ OnlyPass

(* The query is answered.  A write that conflicts, or a move that is not     *)
(* allowed, is caught like any failure that is not the query's; so is a      *)
(* workspace that is gone when the result is to be fetched.                  *)
Report(state) == CASE state = "queued"    -> "submitted"
                   [] state = "completed" -> "downloading"
                   [] OTHER               -> state

NoPlaceFor(j, to) == to = "downloading" /\ workspace[j] = "gone"

InspectReturns(p) ==
  LET j  == pass[p].job
      to == Report(provider[j])
  IN
  /\ pass[p].at = "inspecting"
  /\ IF MayMove(p, j, to)
     THEN /\ Write(p, j, IF provider[j] \in Working THEN Polled(j, to)
                         ELSE Moved(j, IF NoPlaceFor(j, to) THEN "failed" ELSE to))
          /\ IF to = "downloading" /\ ~ NoPlaceFor(j, to)
             THEN pass' = [pass EXCEPT ![p].at = "downloading"]
             ELSE PassGoesOn(p, pass[p].todo)
          /\ pollFailures' = [pollFailures EXCEPT ![j] = 0]
     ELSE Fails(p) /\ PassGoesOn(p, pass[p].todo)
  /\ OnlyPass

(* Mutant: the job is completed before its file is published. *)
DownloadEarly(p) ==
  /\ pass[p].at = "downloading"
  /\ TryWrite(p, pass[p].job, Moved(pass[p].job, "completed"))
  /\ pass' = [pass EXCEPT ![p].at = "published"]
  /\ UNCHANGED <<disk, pollFailures, caller, stopped, external>>

(* acquireResult and publishVideoArtifact: the file appears whole. *)
Download(p) ==
  /\ pass[p].at = "downloading"
  /\ disk' = disk \cup {pass[p].job}
  /\ pass' = [pass EXCEPT ![p].at = "published"]
  /\ UNCHANGED <<job, fresh, pollFailures, caller, stopped, external>>

Publish(p) ==
  LET j == pass[p].job IN
  /\ pass[p].at = "published"
  /\ IF MayMove(p, j, "completed")
     THEN Write(p, j, Moved(j, "completed")) /\ UNCHANGED pollFailures
     ELSE Fails(p)
  /\ PassGoesOn(p, pass[p].todo)
  /\ OnlyPass

-----------------------------------------------------------------------------
(* The provider, and the end of the process. *)

ProviderTakes(j) ==
  /\ wire[j] = "sent"
  /\ wire' = [wire EXCEPT ![j] = "taken"]
  /\ provider' = [provider EXCEPT ![j] = "queued"]
  /\ UNCHANGED <<job, fresh, disk, caller, pass, pollFailures, stopped, offer, workspace,
                 submissions, crashes, cancels>>

(* Rejected, or lost on the way. *)
ProviderRefuses(j) ==
  /\ wire[j] = "sent"
  /\ wire' = [wire EXCEPT ![j] = "refused"]
  /\ UNCHANGED <<job, fresh, disk, caller, pass, pollFailures, stopped, offer, workspace, provider,
                 submissions, crashes, cancels>>

ProviderWorks(j) ==
  /\ provider[j] \in Working
  /\ \E s \in {"running", "completed", "failed", "cancelled"} \ {provider[j]} :
       provider' = [provider EXCEPT ![j] = s]
  /\ UNCHANGED <<job, fresh, disk, caller, pass, pollFailures, stopped, offer, workspace, wire,
                 submissions, crashes, cancels>>

(* The workspace is removed or added again, its configuration edited.        *)
WorkspaceChanges(j) ==
  /\ \E s \in WorkspaceStates \ {workspace[j]} : workspace' = [workspace EXCEPT ![j] = s]
  /\ UNCHANGED <<job, fresh, disk, caller, pass, pollFailures, stopped, offer, wire, provider,
                 submissions, crashes, cancels>>

(* dispose: no pass begins or goes on, requests in progress are aborted. *)
Dispose ==
  /\ ~ stopped /\ crashes < MaxCrashes
  /\ stopped' = TRUE
  /\ UNCHANGED <<job, fresh, disk, caller, pass, pollFailures, external>>

MemoryLost ==
  /\ caller' = [c \in Callers |-> IdleCaller]
  /\ pass' = [p \in Passes |-> IdlePass]
  /\ pollFailures' = [j \in Jobs |-> 0]
  /\ stopped' = FALSE
  /\ UNCHANGED <<disk, offer, workspace, wire, provider, submissions, cancels>>

(* The process ends, killed or disposed of, and starts again. *)
Restart ==
  /\ crashes < MaxCrashes
  /\ crashes' = crashes + 1
  /\ fresh' = [j \in Jobs |-> {}]
  /\ UNCHANGED job
  /\ MemoryLost

(* It is killed after createOrGet has committed and before claimSubmission.  *)
KilledBeforeClaim(j) ==
  /\ crashes < MaxCrashes
  /\ ~ stopped
  /\ ~ Known(j)
  /\ Cardinality(Active) < MaxActive
  /\ crashes' = crashes + 1
  /\ job' = [job EXCEPT ![j] = [Absent EXCEPT !.status = "queued", !.due = TRUE]]
  /\ fresh' = [i \in Jobs |-> {}]
  /\ MemoryLost

-----------------------------------------------------------------------------
CallerStep(c) ==
  \/ SubmitAccepted(c) \/ SubmitRejected(c) \/ SubmitLost(c) \/ CallerLooksUp(c)

PassStep(p) ==
  \/ PassStart(p) \/ PassStops(p)
  \/ \E j \in Jobs :
       \/ PassThrows(p, j) \/ FinishFromDisk(p, j) \/ LookUp(p, j) \/ SubmissionUnknown(p, j)
       \/ DeferOrFail(p, j) \/ Inspect(p, j) \/ HandleCancellation(p, j)
  \/ LookUpReturns(p) \/ AwaitFails(p) \/ InspectFails(p)
  \/ CancelReturns(p) \/ CheckReturns(p) \/ InspectReturns(p)
  \/ Download(p) \/ Publish(p)

ProviderStep(j) == ProviderTakes(j) \/ ProviderRefuses(j) \/ ProviderWorks(j)

Next ==
  \/ \E j \in Jobs : \/ \E c \in Callers : Submit(c, j)
                     \/ RequestCancellation(j) \/ BecomesDue(j) \/ ProviderStep(j)
                     \/ KilledBeforeClaim(j) \/ WorkspaceChanges(j)
  \/ \E c \in Callers : CallerStep(c)
  \/ \E p \in Passes : PassStep(p)
  \/ Dispose \/ Restart

MediaSpec == Init /\ [][Next]_mediaVars

(* The server's own steps go on, time passes, and the provider answers and   *)
(* ends what it works on; a process that was disposed of is started again.   *)
MediaFairness ==
  /\ \A c \in Callers : WF_mediaVars(CallerStep(c))
  /\ \A p \in Passes : WF_mediaVars(PassStep(p))
  /\ \A j \in Jobs : WF_mediaVars(BecomesDue(j)) /\ WF_mediaVars(ProviderStep(j))
  /\ WF_mediaVars(stopped /\ Restart)

FairMediaSpec == MediaSpec /\ MediaFairness

-----------------------------------------------------------------------------
(* Properties. *)

(* No request is submitted to the paid provider twice, whatever is retried,  *)
(* lost or restarted, and the provider has nothing that was not submitted.   *)
OneSubmission ==
  \A j \in Jobs : /\ submissions[j] <= 1
                  /\ provider[j] # "none" => submissions[j] = 1

(* A job is called completed only with its file in the workspace, which only *)
(* a provider that has completed it delivers; cancelled only when the        *)
(* provider has cancelled it, a cancellation that was asked for not being    *)
(* enough; and its outcome is called unknown only without an identity that   *)
(* could tell.                                                               *)
OutcomeIsEarned ==
  \A j \in Jobs :
    /\ j \in disk => provider[j] = "completed"
    /\ job[j].status = "completed" => j \in disk
    /\ job[j].status = "cancelled" => provider[j] = "cancelled"
    /\ job[j].providerJobId => provider[j] # "none"
    /\ job[j].status = "submission_unknown" => ~ job[j].providerJobId

(* A job that the client has been told the end of does not change again, and *)
(* the provider's identity, once recorded, is not lost before that.          *)
EndedForGood ==
  [][\A j \in Jobs :
       /\ job[j].status \in Terminal => job'[j] = job[j]
       /\ job[j].providerJobId => job'[j].providerJobId]_mediaVars

(* Every job ends, and gives its place among the active ones back, unless    *)
(* passes go on throwing before they can count an attempt: its workspace     *)
(* cannot be read, or is gone while its result is being fetched, time and    *)
(* again.  A workspace that is gone ends every other job, and an adapter     *)
(* that is missing, failing or silent ends all of them.                      *)
Wedged(j)  == \/ workspace[j] = "unreadable"
              \/ workspace[j] = "gone" /\ job[j].status = "downloading"
JobsSettle == \A j \in Jobs : <>[] ~ Wedged(j) => (Known(j) ~> job[j].status \in Terminal)
=============================================================================
