# JuggleWork sessions in TLA+

A verification project for the parts of the JuggleWork server that decide who
may work in a session, when that work is over and how it ended; who answers what
an agent asks on the way; and what becomes of the paid video jobs it submits.
Paths below are relative to the repository's root or, where they begin with
`server/`, to `apps/server/src`.

1. [Inventory](#inventory)
2. [Modules](#modules)
3. [Runs](#runs)
4. [Proofs](#proofs)
5. [Disagreements found](#disagreements-found)
6. [Not modelled](#not-modelled)
7. [Plan](#plan)

## Inventory

JuggleWork is a desktop shell (Electron, `apps/desktop`) and a renderer (React,
`apps/app`) around a local HTTP server (`apps/server`), which in turn drives an
OpenCode engine process per workspace. Prompts come from the renderer, from a
phone through remote control, from automations and from a queue; the server is
the one authority that admits them.

| Component | State it keeps | Operations | Talks to | What makes it correct |
|---|---|---|---|---|
| Session mutation coordinator (`server/session-mutation-coordinator.ts`) | map session -> active run (status, abort, idle sample) | reserve/accept/roll back a start, the same for an abort, observe, reconcile an idle engine, rename, list | journal (before every assignment), routes, pump, observer | one run per session; a run's id fences every call about it; memory never ahead of the journal |
| Session run journal (`server/session-run-journal.ts`) | SQLite: generation, run rows, lifecycle feed, terminal outbox, consumer cursors | allocate, record, list, acknowledge, purge | coordinator, desktop bridge, notification clients | generations only grow; an outcome is recorded once, in order, for both readers |
| Run routes and evidence (`server/routes/sessions.ts`, `session-completion-evidence.ts`) | local variables of handlers across awaits | start, stop, observe, rename, list | coordinator, engine, pending operations | no invented outcome, no overlapping work, no stuck session |
| Lifecycle observer (`server/server.ts:1839`) | none (an interval) | every second, reconcile each active run with the engine | engine, coordinator | every accepted run is settled with nobody watching |
| Engine proxy (`server/server.ts:2272`) | the run it reserved, while the upstream request lasts | reserve, roll back | coordinator, engine | a proxied command excludes prompts |
| OpenCode engine (external) | session status, messages, turn | prompt, abort, status, messages | called by all of the above | - |
| Pending operations (`server/session-pending-operations.ts`, `-pump.ts`, `opencode-admission.ts`) | SQLite queue of remote prompts, acceptance fence and generation; in-flight admissions | create, claim, admit, cancel, Stop All, enable, confirm idle | engine (idempotent admission), coordinator | a cancelled prompt is never admitted, an admitted one is never admitted twice, Stop All is truthful |
| Interaction resolution (`server/interaction-resolution-coordinator.ts`, `server/routes/interactions.ts`) | in memory: pending, reserved, resolved and expired interactions | observe, reserve, accept, roll back, expire | reply routes, permission broker, engine | one reply to a request on its way at a time; the winner's answer stands; nothing stays closed to answers |
| Permission broker and mode store (`server/session-permission-*.ts`, `server/routes/session-permissions.ts`) | SQLite: mode and authority revision, grants, exclusions, ledger of decisions; a lock per root | enable, downgrade, grant, clear; poll and answer; suspend; recover | engine, interaction resolution, tokens | an automatic answer only under an authority that covers it; what waited for a human when it was granted stays with the human; nothing is answered again blindly |
| Automations (`server/automation/`) | definitions, runs, deliveries, poll cursors | schedule, claim, execute, merge, acknowledge | routes (starts), cloud | an occurrence runs at most once; a delivery is not lost |
| Media generation (`server/media-generation/`) | SQLite: jobs with a revision; in memory: the pass in progress, failed queries per job | submit, cancel; poll, look up, download, publish, give up; dispose | paid providers, workspace files | no request is submitted twice; no outcome without the provider's; every job ends unless its passes go on throwing |
| Session creation idempotency, approvals, reload watcher | small maps with timeouts | - | routes, engine | - |
| Remote control (`apps/desktop/electron/remote-*.mjs`) | command journal, bridge's last observations | execute a command, report run activity | server routes, cloud | a command is executed at most once |
| Configuration, MCP, plugins, skills, tokens; artifacts, office, reviews; renderer; CLI; packages | files, databases, UI state | CRUD, conversion, presentation | - | - |

What makes the core hard: a handler awaits the engine between reading the run
and acting on it; the observer, the pump, renderer hints, starts and stops act on
the same run at once; the engine may report idle while it is working (between a
delegate's end and the parent's next step, before a turn begins); responses are
lost after the engine has acted, and a prompt whose outcome is unknown is
submitted again under the same identity; Stop All and a change of policy
overtake a pass that is in the middle of an admission; the server may be killed
between any two transactions. Answers have the same shape: several readers of one
pending request, a reply that was taken and whose answer was lost, authority that
moves while the broker is between its reads. So have video jobs: a submission
that costs money and whose outcome may be unknown, and several writers of one row
fenced by its revision.

## Modules

| Module | Models |
|---|---|
| `SessionRunJournal` | the journal: variables `generation`, `rows`, `feed`, `outbox`; one operator per transaction |
| `SessionMutation` | the coordinator and the requests around it; extends the journal. Proved about |
| `RunLifecycle` | the abstract promise of both: a session has at most one open run, fences grow, a run ends once |
| `SessionControl` | routes, observer, proxy and engine; extends the coordinator. Proved about |
| `PendingOperations` | the store of remote prompts and its acceptance gate: variables `ops`, `acceptance`; one operator per transaction. Proved about |
| `PendingPump` | the pump's pass, Stop All, enable, admissions; extends `SessionControl` and instantiates the store with runs and operations as admission ids. Proved about |
| `PromptQueue` | the abstract promise of store and pump: a prompt is delivered once, in the order of its lane, or withdrawn |
| `InteractionResolution` | the coordinator of answers: variable `interactions`; one operator per call |
| `SessionPermission` | the reply routes, the routes that set authority, mode store, broker and engine; extends the coordinator. Proved about |
| `MediaGeneration` | repository, service and worker of video jobs, and the provider. Proved about |
| `MCSessionMutation`, `MCSessionControl`, `MCPendingOperations`, `MCPendingPump`, `MCSessionPermission`, `MCMediaGeneration` | TLC instances |
| `SessionMutationProofs`, `RunLifecycleProofs` (on top of it), `SessionControlProofs` (on top of that), `PendingPumpProofs` (on top of that) | the theorems about coordinator and journal, about their records and their promise, about routes, observer and engine, and about the pump beside all of them |
| `PendingOperationsProofs`, `SessionPermissionProofs`, `MediaGenerationProofs` | the theorems about the store, about answers and authority, about video jobs |

### State

| Variable | Code |
|---|---|
| `runs` | the coordinator's `Map`; `idle` is `authoritativeIdleObservedAt` seen as absent, recent or older than the confirmation interval |
| `generation`, `rows`, `feed`, `outbox` | `session_run_generation`, `session_runs`, `session_lifecycle_feed`, `session_run_terminals`. A row's `reason` is `terminal_reason`, `"null"` standing for SQL NULL |
| `starts`, `aborts` | the requests between `reserveStart`/`reserveAbort` and what follows their await |
| `probe` | per handler slot, the locals it read before its await: the run it is about, whether its copy said aborting, the status and the evidence it was given |
| `thread` | the slot of a start that has cleared a stale run and reserves without a further await; no other handler runs in between |
| `engine` | per session: prompts still being worked on, and the last assistant message as `currentRunTerminalStatus` sees it |
| `stopped`, `proxied` | aborts the engine has accepted and not yet answered; runs reserved by the proxy |
| `history` | what has happened, for the properties only |
| `ops`, `acceptance` | `session_pending_operations` and `session_pending_operation_meta`. A row's `idle` is `idle_observed_at` seen as `runs[s].idle` is |
| `pass` | the pump's pass in progress: the point it awaits at, the session it visits, the operation it is admitting, the run it reserved for it, and whether `lifecycleGeneration` has moved since it began |
| `wire`, `delivered` | admission requests sent and not yet seen by the engine; operations the engine has taken, with the generation counter at that moment |
| `stopping`, `silenced` | fences of the Stop All requests in progress; fences whose Stop All reported success |
| `interactions` | the coordinator's `Map`. A record is kept as it was last written, with the number of its deadlines that have passed (`late`); `Status` is what `maintain` makes of that. `holder` stands for the reservation id |
| `mode`, `revision`, `excluded`, `grants`, `intent` | `session_permission_modes` (the revision is 0 while there is no row), `session_permission_exclusions` by source, `session_permission_grants`, the unresolved `auto-approve` rows of `session_permission_decisions`. `grants[r]` is the last row created for the request `r` unless an earlier one is active; that one goes on to give authority whatever becomes of the later |
| `handler`, `broker`, `lock` | requests in progress and the broker's pass, each with the locals it has read; the root's turn in `RootSerialization` |
| `trusted` | whether `verifyAuthorizingPrincipal` would accept the author |
| `engine[r]` (SessionPermission) | not asked, pending, withdrawn, or the reply the engine took |
| `job` | `video_generation_jobs`; `due` is `next_poll_at` seen as passed or not, `pollAttempts` saturates at the bound it is compared with |
| `fresh` | per job, the actors whose copy carries the row's present `revision`: all that the comparison in `transition` can tell |
| `caller`, `pass`, `pollFailures`, `stopped` | submissions and passes in progress with the point they await at; the worker's fields |
| `disk`, `wire`, `provider`, `offer` | published files; submissions sent; the provider's own jobs; which optional calls the adapter has |
| `workspace` | what `workspaceRoot` and `resolveAdapters` make of a job's workspace: ready, gone, or with a configuration that cannot be resolved |

### Actions

A step is what JavaScript executes between two awaits. The coordinator has no
await, so each of its operations, with the journal transaction it emits, is one
step; when the transaction throws the coordinator restores its previous record,
so the failed operation changes nothing (`NoChange`) except a generation that
was already allocated (`ReserveStartFails`).

A start (`startSessionRun`) is a sequence of probes: `StartReads` (status),
`StartLooks` (and the read of the messages), `StartDecides`, the timer and
`StartRereads`, `StartConfirms`, then the synchronous reservation; after it
`PromptAccepted` or `PromptFailed` for the dispatch. A stop is `StopRequested`
and `StopAccepted` or `StopFailed`. The observer is `ObserverLooks` (the copy
of the active runs), `ReadsStatus`, `ReadsEvidence`, `ObserverActs`; a hint the
same with `ClientHints` and `HintActs`. Any other report is taken as it comes
(`ClientReports`), one that says starting or aborting too: the coordinator writes
what it is told, and a run so reported aborting is an accepted abort after a
restart. `ServerRestarts` loses memory, handlers and requests and
reloads the open rows; the engine goes on.

A pass of the pump (`reconcileSession`) visits one session: `PassBegins`,
`PassReadsStatus`, `PassReadsEvidence`, then it gives up (`PassGivesUp`), admits
a steer into a busy session (`PassFindsBusy`), reconciles the run of an idle one
(`PassReconciles`) or admits to an idle session without a run
(`PassContinues`). The admission it sends reaches the engine in a step of its own
(`AdmissionArrives`), possibly after the pass has given up and after a restart;
the engine takes an identity once. The answer is `SteerAdmitted`,
`FirstAdmitted` or `RecoveryAdmitted` with `RecoveryAccepted`; `StaleSuccess`
when the pass has been superseded; `AdmissionUnrecorded` when a local write
fails behind it; `AdmissionFails` otherwise. Stop All (`cancelAll`) is two steps,
the fence and, once the pass in progress has settled, the cancellation
(`StopAllBegins`, `StopAllEnds` or `StopAllTimesOut`). `ControlMoves` is any step
of `SessionControl` together with what `finalizeClearedRun` does to the store:
operations admitted as a run that a handler settles are completed with it.

An answer is `StartReply` (`prepare`), `ReplyReads` (the pending list),
`ReplyReserves` (observe, reserve and the call of the engine without an await in
between; `ReplyBlocked` and `AnswerInvalid` are its early ends) and
`ReplyReturns`; what the engine does with it is `EngineTakes`. The engine may also
withdraw what it asked (`EngineWithdraws`), with the run that asked or with its
process; a reply then decides nothing, whatever its sender is told. Setting authority
is `TakesLock`, `Arms` (the snapshot that is the boundary) and `EnableCommits` or
`GrantReserves` with `GrantReturns`; `DowngradeCommits` takes no lock and
`ClearGrants` no snapshot, as in the code. The broker's pass over a root is
`BrokerBegins` (mode and grants), `BrokerSeesPending`, `BrokerReadsAuthority`
(exclusions and revision, after the awaits), and for each request `BrokerPicks`
(gate one), `BrokerVerifies` (gate two, with suspension and invalidation),
`BrokerRereads` (gate three), `BrokerReserves` and `BrokerReturns`. `Restart`
forgets the coordinator, every handler and the pass, and runs the two
reconciliations of `start`.

A submission is `Submit` (the row, its claim and the call of the provider, with
no await in between) and `SubmitAccepted`, `SubmitRejected` or `SubmitLost`, the
last with `CallerLooksUp` where the adapter can. A pass of the worker lists
(`PassStart`), and for each copy takes one branch of `reconcile` up to its first
await on the adapter: `FinishFromDisk`, `LookUp`, `SubmissionUnknown`,
`DeferOrFail`, `Inspect` or `HandleCancellation`; then `InspectReturns`,
`CancelReturns`, `CheckReturns`, `LookUpReturns`, `Download`, `Publish`, or the
catch (`InspectFails`, `AwaitFails`). What is asked before all these is outside the
`try`: a missing workspace root of a job in downloading, or a rejection of
`resolveAdapters`, ends the job's turn in the pass and changes nothing
(`PassThrows`); `WorkspaceChanges` is the world's part in it. The awaits of the
file system and of `resolveAdapters` are no steps of their own: what runs after
them uses the copy and compares revisions, so that a write in between is seen the
same either way.
`Restart` ends the process at any point, `KilledBeforeClaim` in the one place
where a queued row is left behind, and `Dispose` stops the worker first.

Creation times of messages are compared with `startedAt` through the generation
counter: a message stamped `g` was written while `g` was the last generation
allocated. A turn of a run is stamped with any value between the run's
generation and the counter, so a message of an earlier run may be created after
a later run was reserved.

### Properties

| Property | Module | Says |
|---|---|---|
| `TypeOK`, `ControlTypeOK` | both | types |
| `JournalMirrorsMemory` | SessionMutation | the open rows are exactly the runs in memory, field by field |
| `OutcomesAgree` | SessionMutation | the feed and the outbox carry the same outcomes in the same order, and every closed row is in them |
| `FeedOrdered` | SessionMutation | nothing follows a run's outcome; entries of an older run of a session never follow those of a newer one |
| `ImplementsLifecycle` | SessionMutation | coordinator and journal implement `RunLifecycle` under the mapping `open` = runs in memory, `fence` = generations of all rows ever, `published` = outbox |
| `OutcomeHasEvidence` | SessionControl | a row closed with an outcome has a message created after its reservation that says so, an abort the engine accepted (or that a restart counts as accepted), or a client that reported failed or aborted. A client cannot make a run completed |
| `OneLivePrompt` | SessionControl | the engine never works on two prompts of one session |
| `AcceptedRunsSettle` | SessionControl | a run that the engine took and that left starting is settled with no client looking |
| `StoreTypeOK`, `PumpTypeOK` | PendingOperations, PendingPump | types |
| `WaitsBehindOpenGate` | PendingOperations | while remote control is on, nothing waits in a mode that is off |
| `OnlyForward` | PendingOperations | no transaction takes an operation back or moves it in the queue |
| `ImplementsQueue` | PendingPump | store, pump and engine implement `PromptQueue`: each prompt is delivered once and in the order of its lane (session and mode), or withdrawn, never both |
| `StopAllIsTruthful` | PendingPump | until the gate is opened again, a Stop All that reported success has left nothing that can still reach the engine for the first time |
| `AdmittedRunHasEvidence` | PendingPump | when the engine has nothing left to do, the run of an admitted operation can be told to have ended |
| `OperationsSettle` | PendingPump | while remote control stays on, every stored prompt is completed or cancelled |
| `PermissionTypeOK`, `MediaTypeOK` | SessionPermission, MediaGeneration | types |
| `OneDispatch` | SessionPermission | a reservation is held exactly while its holder's reply is on its way, by one actor at a time, and an automatic one has its intent on disk |
| `AnswerStands` | SessionPermission | who was told that its answer resolved a request gave the answer the engine took, unless the engine withdrew that request or an answer of the engine for it was lost |
| `NotLockedOut` | SessionPermission | a request the engine waits for does not stay closed to answers |
| `ManualStaysManual` | SessionPermission | a request that was pending when Full access was enabled gets no automatic reply while it lasts and the grants are not cleared |
| `GrantFollowsApproval` | SessionPermission | a grant that gives authority stands on an approval the engine took, with the same two exceptions |
| `NeverAnsweredBlindly` | SessionPermission | an automatic reply in which the process died is not sent again |
| `OneSubmission` | MediaGeneration | no request is sent to the paid provider twice |
| `OutcomeIsEarned` | MediaGeneration | completed, cancelled and unknown are called so only with what stands behind them |
| `EndedForGood` | MediaGeneration | a job that has ended does not change; the provider's identity is not lost before |
| `JobsSettle` | MediaGeneration | every job ends, unless its passes go on throwing before they can count an attempt: its configuration cannot be resolved, or its workspace is gone while it is downloading |

## Runs

| Run | Configuration | Shows |
|---|---|---|
| `session` | two sessions, two runs, an abort id or none, two starts and two aborts in flight, two generations, three feed entries | `TypeOK`, `JournalMirrorsMemory`, `OutcomesAgree`, `FeedOrdered`, `ImplementsLifecycle` |
| `evidence` | two runs whose turns complete, lost responses, hints and reports of every status; one observer pass, one request | `OutcomeHasEvidence` |
| `overlap` | two runs, two concurrent starts, observer, proxy, refusals, a lost engine, a restart | `OutcomeHasEvidence`, `OneLivePrompt` |
| `settle` | two runs, a stop, a restart, failing reads, fairness | `ControlTypeOK`, `OutcomeHasEvidence`, `AcceptedRunsSettle` |
| `store` | three prompts, room for two, two moves of the gate, any order of transactions and restarts | `StoreTypeOK`, `WaitsBehindOpenGate`, `OnlyForward` |
| `queue` | two prompts in either mode, a run of a route and one of the pump, enable, lost responses, failing local writes, a restart | `ImplementsQueue` |
| `stopall` | one prompt in either mode, a run of a route and one of the pump, three moves of the gate (enable with either policy, Stop All), refused admissions, failing journal writes, a restart | `PumpTypeOK`, `StopAllIsTruthful`, `ImplementsQueue` |
| `pumped` | one enqueued prompt, a run of a route and two of the pump, the observer, two moves of the gate, nothing lost | `OutcomeHasEvidence`, `OneLivePrompt`, `AdmittedRunHasEvidence` |
| `drain` | one prompt in either mode, two moves of the gate, no observer, fairness | `OperationsSettle` |
| `media` | one job, one submitting request, two passes at once, one cancellation, one end of the process, adapters with both optional calls or neither, two failed queries and two attempts without an adapter allowed, a workspace that changes at any time, fairness | `MediaTypeOK`, `OneSubmission`, `OutcomeIsEarned`, `EndedForGood`, `JobsSettle` |
| `answers` | a permission and a question, a client and the broker, room for one pending interaction, deadlines, lost answers, failed reads and writes, one crash or loss of authority, one move of the revision, fairness | `PermissionTypeOK`, `OneDispatch`, `AnswerStands`, `NeverAnsweredBlindly`, `NotLockedOut` |
| `authority` | two permissions, a client and the broker, two moves of the revision, withdrawn requests, lost answers, failed reads and writes, one crash or loss of authority; no deadlines | `AnswerStands`, `ManualStaysManual`, `GrantFollowsApproval`, `NeverAnsweredBlindly` |

Restarts are unbounded in `session` (they add no counter). `MaxGeneration`
bounds starts, `MaxFeed` the entries published, `MaxRequests` the requests in
flight, `MaxGate` the moves of the gate, `MaxRevision` the changes of authority,
`MaxMishaps` crashes and losses of authority together, `MaxCrashes`,
`MaxCancels`, `MaxRestarts` and `MaxStops` what their names say; all sit in
guards of requests, never in the coordinator's or the stores' operations, except
that a suspension or an invalidation is not taken where it would pass
`MaxRevision`. `RouteRuns` and `PumpRuns` say whose reservations draw
which identities, so that no side exhausts them for the other; a reservation of
the pump that finds none left is refused like any failed one (`NoRunLeft`).
`MaxLive`, `MaxPending`, `MaxActive`, `MaxMissing` and `MaxPollFailures` are the
code's own limits. The gate starts at
generation 2 (the row is made with 1 and the first process moves it), so `MaxGate`
5 leaves three moves: enable, Stop All and enable again, which is what a stop that
waited for a pass has to survive.

Two runs are enough for every hazard of one run mistaken for another (the code
compares one id with one id); two requests are enough for a race, because every
contender ends in the same synchronous reservation; two prompts are enough for
an order. Nothing in routes, observer or pump relates two sessions (the pass
visits them one after the other), so `SessionControl` and `PendingPump` are
checked with one; the journal does relate them (one generation counter, one
feed), so `session` has two. Two requests of a root are enough for a grant of one
to cover the other and for the coordinator to be at its limit; one client beside
the broker is enough for two answers to race, and a client's second request for
two changes of authority (the theorems hold for any number of clients). Jobs meet
only at the limit of concurrent ones, which is a refusal before anything is
written, so one job with two passes over it is the whole of the worker. Symmetry
is used for safety runs only. `Environment` names what an instance lets clients and engine do, so that each run
pays only for the disturbances its property is about.

`OneLivePrompt` is checked without lost responses: when the engine accepted a
prompt and the server saw an error, `rollbackStart` frees the session and a
second prompt may join the first. That is the documented behaviour of a dispatch
of unknown outcome and is listed among the hazards. It is also checked without
stops, because an accepted stop releases the session before the engine has wound
down, by intention; and, in `pumped`, with enqueued prompts only, because a steer
is sent to join a turn in progress. `AdmittedRunHasEvidence` is checked with
nothing lost, and `pumped` and `drain` without a Stop All after which the gate is
opened again: see [Disagreements found](#disagreements-found). `drain` has no
observer, so that what it shows is the pump's own doing.

**Deadlock** is checked in every run but `media`, `answers` and `authority`: an
observer pass, a clock tick or a restart is always possible, or a request can be
made. Those three may stop: when every job has ended and no cancellation or crash
is left, or every request is answered and the bounds are spent.

**Fairness** (`Fairness` in `SessionControl`): the observer is a `setInterval`
that is cleared only when the server stops; each pass ends because its reads
carry a five-second timeout; timers fire; a dispatched HTTP request is answered
with a result or an error; the engine takes what it is sent and a turn ends.
Reads may fail, but not for ever (strong fairness of `ReadsStatus` and
`ReadsEvidence` in an observer slot). Nothing is assumed of clients.
`AcceptedRunsSettle` speaks of runs whose prompt the engine took, and assumes
that the engine is not restarted in mid-turn: the code deliberately keeps a run
without evidence active then, until somebody stops it.

`PumpFairness` adds the pump's timer, which rearms itself after every pass; that
an admission is answered or aborted after ten seconds; that the grace period of a
steer and the confirmation interval end; that the engine receives what is on the
wire; that a Stop All ends. The steps of a pass that a superseded pass or a
busy sample can pre-empt over and over (the reads, the claim of a steer, the
answer of an admission and its arrival) get strong fairness: the code retries
them on every tick, and no actor that starves them for ever exists in it. Nobody
has to open the gate; `OperationsSettle` is discharged when it is closed.

`FairPermissionSpec`: a handler in progress goes on and its call of the engine
ends (with success or failure), the broker's interval fires, time passes for the
requests in `Slow`. Nothing is assumed of who answers.

`MediaFairness`: the submitting request and each pass go on (every await has its
timeout or is the client's own), the timer fires, `next_poll_at` passes, the
provider takes or refuses what it was sent and ends what it works on, and a
process that disposed of its worker is started again. Queries may fail for ever:
the worker gives up after its own bound. Nothing is assumed of the workspace,
which may be gone or unreadable for good; `JobsSettle` itself says what it needs
of it.

## Proofs

`SessionMutationProofs` proves, for all sets of sessions, runs and commands, all
bounds and any number of concurrent requests,

- `TypeCorrect == Spec => []TypeOK`
- `MemoryIsDurable == Spec => []JournalMirrorsMemory`

from the assumptions of the two modules (`NoCommand \notin Commands`,
`EngineActivity` among running, waiting and retrying). The inductive invariant
is `Inv`: the journal's and the memory's types, `JournalMirrorsMemory` and the
types of the tickets. Neither the types nor the mirror is inductive alone: a
transaction writes the record in memory, so the row is typed because memory is;
a restart rebuilds memory from rows, so memory is typed, and holds one run per
session, because the rows mirrored it. The operations are reduced to three
lemmas about how memory and a row move together (`AdvanceKeeps`, `SettleKeeps`,
`ReserveKeeps`), two about memory alone (`SampleKeeps`, `RestoreKeeps`) and a
stutter; then one lemma per operation, and `NextInv` has one case per action.

`RunLifecycleProofs` proves, from the same assumptions,

- `FeedIsOrdered == Spec => []FeedOrdered`
- `OutcomesDoAgree == Spec => []OutcomesAgree`
- `LifecycleImplemented == Spec => ImplementsLifecycle`

Every operation does one of three things to the journal and to the map of active
runs: it reserves a run (`Opens`), closes one (`Closes`), or leaves both and
announces at most that a run is running (`Progresses`). The operations are
classified once (lemma `Steps`), on top of `Inv`; each invariant then has three
cases and the refinement three lemmas (`ReservationIsPromised`,
`ClosingIsPromised`, `ProgressStutters`). The inductive invariant is `StoryOK`:
the two properties, and what they rest on. `FencesOK` (no row's generation is
beyond the counter, and the active run of a session has the largest of its
session) is why a new run's fence is larger than every earlier one and why only
the newest run of a session is announced; `FeedQuotesRows` and `OutboxQuotesRows` (an entry says of
its run what the row says, and only of a row that has been closed when it is an
outcome) are why nothing can be published of a run a second time: its row would
have to be open, and the mirror of `Inv` says which rows are. `OutcomesAgree` is
stated position by position (`Carries`), so that it needs no induction over the
sequences.

`SessionControlProofs` proves, for any number of requests, observer passes,
restarts and stops,

- `ControlTypeCorrect == ControlSpec => []ControlTypeOK`
- `ControlTellsOneStory == ControlSpec => [](FeedOrdered /\ OutcomesAgree)`
- `ControlKeepsThePromise == ControlSpec => ImplementsLifecycle`
- `OutcomesAreEvidenced`: if `OneObserverPass`, then `ControlSpec => []OutcomeHasEvidence`
- `PromptsAreApart`: if `Undisturbed`, then `ControlSpec => []OneLivePrompt`

from the assumptions of `SessionControl` (slots, identities, the engine's outcomes
and the kinds of disturbance, and that the bounds are numbers). `OneObserverPass`
says that the observer has one slot: two passes at once do violate the property
(see below), so the theorem names what the code relies on and does not enforce.
`Undisturbed` says that nobody stops a run, no response is lost and no client
reports how a run ended; each of the three frees a session whose turn still goes
on, by intention. Refused dispatches, proxied commands, a lost engine, renderer
hints, failing reads, any number of contenders and of restarts are in.

The ground is `Base`: `Inv`, the types of probes, engine and history, and that
probes and requests name runs that were reserved. A handler's call of the
coordinator is one of its operations, and so of one of the three classes above
(lemma `ActsKeep`), so the coordinator's invariants come along for nothing. What
makes evidence and prompts hard is what a probe knows: it read the engine at one
moment and acts at another. `EvidenceOK` says what is still true of that at the
second moment. `EngineRecorded` (the engine's last message is the newest in the history) and
`ProbesSaw` (what a probe read as the end of a run is one, of that run) carry a
reading over whatever happens in between, because messages and reservations only
grow; `AbortsHalted` (an abort that counts as accepted was accepted by the engine
or restored) covers runs that end without a message; `SamplesSeen` is the one
that needs a single observer: a pass whose copy says aborting takes an idle
sample of its run only when that is harmless. `PromptOK` is the same for prompts:
the engine works for the active run only (`WorksForActive`), a prompt is sent
once and its run is the session's until it is taken (`SendersHold`), a message
after the active run's reservation is one of its own turn and that turn is over
(`EvidenceIsOwn`, `ProbesSawEnd`). Every action is classed by whether the engine
has a part in it (`Ordinary`), and what remains is that a run gives its session up
only without a prompt in the engine (`Released`).

`PendingPumpProofs` proves, for any commands, sessions, policies and bounds, any
disturbances, Stop Alls and restarts,

- `PumpTypeCorrect == PumpSpec => []PumpTypeOK`
- `StopsAreTruthful == PumpSpec => []StopAllIsTruthful`
- `QueueImplemented == PumpSpec => ImplementsQueue`
- `PumpOnlyGoesForward == PumpSpec => OnlyForward`
- `PumpTellsOneStory == PumpSpec => [](FeedOrdered /\ OutcomesAgree) /\ ImplementsLifecycle`
- `AdmittedRunsCanEnd`: if the engine forgets no turn, then
  `PumpSpec /\ []ResubmittedInTime => []AdmittedRunHasEvidence`

from the assumptions of `PendingPump`: the pump is not a slot of a handler, its
reservations draw identities of runs, clients ask for steer or enqueue, policies
are non-empty, and commands are not identities of runs. What a step of the whole
system does to the stored operations, wire, gate and pass is described once: rows
are rewritten along an edge and at most one that is being dispatched is sent
(`Edits`), a row is added behind those of its session (`Stores`), or the engine
takes one off the wire (`Arrives`); the gate stays, turns to the next generation,
or is found silent (`GateMoves`). That description is one lemma per action
(`SystemMoves` puts them together), and the arguments are about it alone. A stop
stays truthful because a row leaves `pending` for `dispatching`, is sent or is
stored only behind an open gate; that is a fact about the gate at the step, except for the
pass that goes on without an await after reconciling, of which `NextIsOpen` says
that nobody could have closed the gate in between. The queue rests on four
facts that need each other: what the engine has not seen yet is being dispatched
(`WireIsDispatching`), what it took was claimed and is not withdrawn
(`DeliveredIsOut`), nobody is before one that is being dispatched
(`TakenInOrder`) and numbers are given in order (`NumbersCount`, the one place
that counts rows). The first excludes that a withdrawn prompt is delivered, the
third is the order of the lanes. The coordinator's part is inherited: the pass
calls its operations (`PassCoordinates`), so `Core` and the three classes hold of
the composed system (`CoreKept`).

`AdmittedRunsCanEnd` has a hypothesis about the behaviour, because the code does
not keep the property in general (see below): `ResubmittedInTime` says that an
operation of unknown outcome is submitted again only to be steered, and into a
run that was reserved before the engine takes, or took, it. Lost, late and failed
answers, unrecorded admissions, rollbacks, stops, policies and restarts are in.
The invariant is `DeliveryOK`: the run that a pass is admitting for
(`PassAhead`), or that an operation was admitted as (`AdmittedAhead`), was
reserved before the engine takes or took the operation; and the engine still
works for what it took or its last message is not older than that
(`DeliveriesLeave`). The two meet in the comparison of `EvidenceRead`. The first
is a fact about two numbers taken at different times by different actors, the
fence of the run and the generation at which the admission arrived, perhaps
after the pass that sent it has given up; it holds because a pass claims only
what waits, and what waits is not on the wire (`DeliveredIsOut`).

`PendingOperationsProofs` proves, for all sessions, commands and admission ids,
any capacity and any order of calls,

- `StoreTypeCorrect == StoreSpec => []StoreTypeOK`
- `NothingWaitsBehindAClosedGate == StoreSpec => []WaitsBehindOpenGate`
- `OperationsOnlyGoForward == StoreSpec => OnlyForward`

from `OpIds \subseteq AdmissionIds /\ NotAdmitted \notin AdmissionIds`. The
inductive invariant is `Inductive`: the types and that there are finitely many
rows, without which the next number of the queue would not be defined. Almost
every transaction rewrites rows one by one, so the proof has one notion for it
(`Rewrite`: the same operations, each row typed and in its place) and one lemma
per way of rewriting; that a rewritten row goes forward (`RowGoesForward`) is a
fact about two rows, proved per transaction and lifted once. Creation is the one
transaction that adds a row. `WaitsBehindOpenGate` is then inductive over
`Inductive`: only `create` makes an operation wait and it reads the gate, only
`enable` closes a mode and it cancels what waits in it.

`MediaGenerationProofs` proves, for all jobs, callers, passes, adapters and limits,

- `MediaTypeCorrect == MediaSpec => []MediaTypeOK`
- `SubmittedOnce == MediaSpec => []OneSubmission`
- `OutcomesEarned == MediaSpec => []OutcomeIsEarned`
- `EndsForGood == MediaSpec => EndedForGood`

from `MediaAssumption`. The types are inductive with one more fact, that a pass
between two awaits names a job. `OneSubmission` needs that an unknown job has sent
nothing. `OutcomeIsEarned` is what needs the revision: a pass that has
downloaded acts on a copy it took before, so its argument is that whoever still
holds the present revision while it downloads looks at a row in downloading, and
that nothing but the provider's own completion leads there.

`SessionPermissionProofs` proves, for all requests, clients and limits,

- `PermissionTypeCorrect == PermissionSpec => []PermissionTypeOK`
- `OneAnswerAtATime == PermissionSpec => []OneDispatch`
- `TheAnswerStands == PermissionSpec => []AnswerStands`
- `ManualIsManual == PermissionSpec => []ManualStaysManual`
- `GrantsAreApproved == PermissionSpec => []GrantFollowsApproval`
- `NeverBlind == PermissionSpec => NeverAnsweredBlindly`

from `PermissionAssumption`. The ground is `Base`: the types, and that what a
handler is doing fits the point it is at. `ManualIsManual` strengthens the
property by `LockHeld` (between its reads the broker, an activation or a grant
holds the root's lock) and `StillManual` (a request of the boundary is among the
exclusions, and none that the broker still has to do): an activation commits under
the lock, so no pass that read the exclusions of before it can be in progress.
`NeverBlind` rests on `Recorded` (an automatic reply has its intent) and `CutOff`
(what was cut off is never without one). For the three about answers every action
is first classed by what it does to reservations and replies (lemma `Steps`: quiet,
observing, reserving, returning, and the few others), so that each invariant has
a handful of cases: `Agree` (an actor holds the reservation exactly while its
reply is on the way) gives `OneDispatch`; `Answers` (a request the engine has an
answer for has a tombstone, or that answer is still on its way back) gives
`AnswerStands`; `GrantsAreApproved` uses both.

Model-checked only: `OutcomeHasEvidence` and `OneLivePrompt` beside the pump (run
`pumped`; the theorems are about `ControlSpec`, where the engine works for runs
only). Liveness under fairness (`AcceptedRunsSettle`,
`OperationsSettle`, `JobsSettle`, `NotLockedOut`) and ENABLED are outside the
prover's reach and stay with TLC.

## Disagreements found

Each of these was met while modelling. No run of the project is built on one: a
behaviour of the code that breaks a property is reproduced by the change of a
configuration or of the property named with it, and TLC then prints it. Where the
code keeps a property and a comment or a document says otherwise, the property's
mutant is what they describe.

Runs and prompts:

- **Two overlapping passes of the observer.** A pass copies a run before its
  awaits and uses the copy's `aborting` to decide that no message is needed
  (`server/routes/sessions.ts:459`). The interval does not wait for a pass
  (`server/server.ts:1841`; one may take five seconds). Two passes that began
  while an abort was pending can contribute two idle samples after the abort was
  refused and the run is running again. The run is closed completed with no
  final message, against
  `openspec/specs/session-completion-consistency/spec.md:9`. (`evidence` with two
  observer slots, `MaxStops` 1 and `refusal` in its environment:
  `OutcomeHasEvidence` fails.)
- **A recovery submits before it reserves.** An enqueued operation of unknown
  outcome is submitted again before a run is reserved for it
  (`server/session-pending-operation-pump.ts:145`). A start that read an idle
  engine reserves the session meanwhile and dispatches, and two prompts are live,
  against `server/routes/sessions.ts:1069`, "This synchronous reservation then
  decides which idle local/remote start may dispatch". (`pumped` with `refusal`,
  two runs of routes and no observer: `OneLivePrompt` fails.)
- **A crash between `reserveStart` and `acceptStart`** restores a starting run
  that no request owns, the observer skips and starts find busy, although the
  comment at `server/server.ts:1839` says the observer closes runs with no
  consumer. The same happens to a run that another reader's busy sample moved out
  of starting before its prompt was sent. (Drop the conjuncts on `starting` and
  `history.taken` from `AcceptedRunsSettle`.)
- **A stop refused after the start was accepted**: a stop reserved while the run
  is starting remembers starting, the dispatch is accepted meanwhile, and the
  refusal makes the accepted run starting again, which the observer skips on the
  ground that its dispatch has not been accepted (`server/routes/sessions.ts:441`).
- **Stop All during a first admission that the engine took**: the success finds
  `lifecycleGeneration` moved and leaves the operation dispatching and its run
  starting. When remote control is enabled again every pass ends at the run,
  which no idle sample clears (`session-pending-operation-pump.ts:117`), and never
  reconciles the operation, although lines 184-185 count on it.
- **A recovery whose first submission was delivered** reserves its run when the
  second answer arrives, perhaps after the turn's last message was created; no
  message is then ever evidence for that run, and what waits behind it stays
  there. (Add `lost_response` to the environment of `pumped`,
  or set its `MaxGate` to 5: `AdmittedRunHasEvidence` fails.)

- **A comment that is no longer true.** "A crash may safely return an
  unfinished claim to the pending state and retry the same identity"
  (`server/session-pending-operations.ts:263-265`). The startup leaves claims
  dispatching, as its second comment says (lines 275-276) and its test asks,
  because the outcome of their admission is unknown; `OnlyForward` says it, and the
  first comment's behaviour is its mutant (`StartupReturnsClaims`).

Answers and authority:

- **Clearing the grants clears the boundary.** `POST .../grants/clear` deletes the
  exclusions of the activation with those of the grants
  (`server/session-permission-mode-store.ts:736`) and leaves Full access on, so a
  request that waited for the human when it was enabled is answered
  automatically in the next pass; the specification keeps such requests manual
  (`openspec/specs/session-permission-modes/spec.md:88-94`). (Drop `cleared` from
  `ManualStaysManual`.)
- **A downgrade is not noticed by a pass that has begun.** It takes no root lock;
  the pass read the mode before its awaits and reads the revision after them, so
  the fence it takes is the new one and the mode the old. One automatic reply may
  begin after the downgrade was answered (`spec.md:108` of the same).
- **A reply that fails before the engine is called** leaves traces: a grant whose
  request cannot be reserved (`server/routes/session-permissions.ts:357`, before
  the `try`) stays dispatching with its decision pending until the process
  starts again; answers to a question that turn out invalid leave a pending
  record with its deadline, after which a valid answer meets an expired
  interaction, once; an automatic reply that fails until the request expires
  leaves an indeterminate intent and is never automatic again.

Video jobs:

- **Failed queries are counted once per pass, not once per job.** `wake()` starts
  a pass beside the one that is waiting (`server/media-generation/worker.ts:34`),
  both raise the same counter, and a job is given up before the provider was
  asked as often as the bound says
  (`openspec/changes/add-conversational-video-generation/specs/conversational-video-generation/spec.md:36-38`).
- **`pollAttempts` serves two purposes**: it counts ordinary polls, and the
  attempts to find a missing adapter are limited by the same number, so a job
  that was polled often is given up the first time its adapter is not there
  (`server/media-generation/worker.ts:136`).
- **A cancelled job has no patience.** In `cancel_requested` one failed query ends
  the job failed; a provider that answers "running" puts it back to running,
  and the wish is forgotten.
- **A cancellation during the submission** moves the revision under the
  submitting request, which then cannot store the provider's identity; the job
  ends failed while the provider works on it (lines 29-31 and 50-52 of the same).
- **A graceful disposal** aborts the await it interrupts, and in downloading or
  cancelling the catch marks the job failed (lines 33-35 and 87-88); a kill at the
  same place does not.
- **A workspace that is gone, or cannot be resolved, keeps a job for ever.** For a
  job in downloading whose workspace has been removed, `reconcile` throws before
  its `try` (`server/media-generation/worker.ts:45`), and so it does for any job
  when `resolveAdapters` rejects (line 52, a provider's base URL that cannot be
  parsed, say). `pass()` drops the error (line 39): the row is as it was, due
  again, no attempt is counted, and the job keeps its place among the active ones
  for as long as the cause lasts. The specification has a job that no adapter
  matches fail after the configured limit (lines 77-78 of the same), and the
  design says "instead of wedging forever" (`design.md:64` beside it).
  `JobsSettle` says that there is no third case. (With
  `<>[](workspace[j] = "gone")` for its premise, it fails.)
- **An ended job does not recover.** The specification has a scenario in which a
  "durable job has since recovered" and a completed artifact replaces the failed
  one (lines 105-108 of the same). No transition leaves an ended state
  (`server/media-generation/repository.ts:28-35`), and no pass lists such a job;
  `EndedForGood` says it, and the scenario's behaviour is its mutant
  (`AllowedAgain`).

A queued job left by a crash before its claim is never submitted; the worker
fails it after the bound for jobs without an identity (line 72), as `JobsSettle`
asks. No adapter of the repository implements the optional look-up and
cancellation.

## Not modelled

Titles, time stamps, origins, revisions and correlation ids of starts (no
decision of the modelled code reads them); the diagnostic table and the
thirty-day purge; the feed's cursors; response language, model selection and
file preparation around a dispatch (they happen between `reserveStart` and the
dispatch and can only make it fail, which is `refusal`); the cancellation of
automation runs in the abort listener.

Of the pending operations: the prompts themselves and the audits; the purge of
terminal rows; `releaseClaim` and `markFailed`, which nobody calls;
`isModeEnabled`, which `server.ts` does not pass; the pump's `paused` flag, which
Stop All and enable move together with the gate; the rotation over more than a
hundred sessions; local steers and local queues, which keep no state in the
server. `close` aborts the request in flight and is a failed admission followed
by a restart.

Of answers and authority: the limit of terminal records and `listTombstones`;
`deleteRootSessionRecords` (it takes no lock, and the revision starts at 0 again);
rows that only audit a policy that blocked a reply; the pruning of the decisions
and the migration of old principals; `readOnly`, where the broker is not started
(`server/server.ts:1836`); more than one root session or one principal.

Of video jobs: image generation, which is one request; what an adapter sends; the
awaits of the file system, as said above.

Automations are not modelled. Read for their hazards: an event merged into a run
that was already dispatched is lost to it, a delivery repeated after its run has
ended makes a second one, and an abort listener that throws
(`server/server.ts:1033`) makes the coordinator restore a run whose outcome the
journal holds.

The other components with status `not_modelled` in `PROJECT.json` are named there
with the reason.

## Plan

Done: the core (coordinator, journal, routes, observer, engine), the pending
operations (store, pump, admission), answers and authority (coordinator, routes,
broker, mode store) and the video jobs, with their abstract specifications and
the theorems above. Left, in this order:

1. Proofs about what is modelled: `OutcomeHasEvidence` and `OneLivePrompt` beside
   the pump, whose admissions the arguments about evidence and prompts do not know
   yet.
2. **Automation** (claim, merge, deliver): one claim per occurrence.
3. **LifecycleFeed**: consumer cursors and redelivery on top of the journal; the
   desktop's remote-control command journal.
