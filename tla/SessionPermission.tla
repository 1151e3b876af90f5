-------------------------- MODULE SessionPermission --------------------------
(***************************************************************************)
(* Who answers the permission requests of one root session: its clients    *)
(* (routes/interactions.ts), or by itself the broker (session-permission-  *)
(* broker.ts) with the authority of Full access or of a grant that clients *)
(* set (routes/session-permissions.ts, session-permission-mode-store.ts).  *)
(*                                                                         *)
(* A step is what runs between two awaits; each await of the engine is     *)
(* where a handler or the broker has read something and not yet used it.   *)
(* The broker works through its roots one at a time: here it is at this    *)
(* root or away.  A grant covers every other permission request, the most  *)
(* it may cover.  grants[r] is the row created last for the request r,     *)
(* unless an earlier one is active: that one goes on to give authority.    *)
(* The revision is 0 while the root has no row.                            *)
(***************************************************************************)
EXTENDS InteractionResolution

CONSTANTS
  Questions,    \* the requests that are questions
  Clients,      \* HTTP handlers
  Broker,
  Environment,  \* what goes wrong: "lost_reply", "read_failure", "unrecorded", "withdrawal"
  Slow,         \* the requests that may be answered late
  MaxRevision, MaxMishaps  \* bounds

ASSUME PermissionAssumption ==
  /\ Questions \subseteq Requests /\ IsFiniteSet(Requests)
  /\ Broker \notin Clients /\ Resolvers = Clients \cup {Broker}
  /\ Slow \subseteq Requests
  /\ MaxPending \in Nat \ {0} /\ MaxRevision \in Nat

VARIABLES
  mode, revision,  \* the row of the root
  excluded,        \* the exclusion rows: of the activation, of the grants
  grants,          \* the grant rows
  intent,          \* the ledger's unresolved automatic approvals
  handler,         \* the clients' requests in progress
  broker,
  lock,            \* the root's lock: its holder
  trusted,         \* the authorizing principal holds authority
  engine,          \* what the engine has of a request
  answeredBy,      \* ghost: whose reply the engine took
  told,            \* ghost: who was told that its reply resolved the request
  lost,            \* ghost: requests withdrawn, or with a reply taken whose answer was lost
  cut,             \* ghost: requests in whose automatic reply the process died
  activation,      \* ghost: requests pending when Full access was enabled
  mishaps          \* crashes and losses of authority

store   == <<mode, revision, excluded, grants, intent>>
actors  == <<handler, broker, lock>>
ghosts  == <<told, lost, cut, activation>>
world   == <<trusted, engine, answeredBy, ghosts, mishaps>>
permissionVars == <<interactions, store, actors, world>>

Permissions == Requests \ Questions
Pending     == {r \in Requests : engine[r] = "pending"}
NoGrant     == [state |-> "none", invalid |-> FALSE, exclusions |-> {}]
Grant       == [state : {"none", "dispatching", "active", "failed", "indeterminate"},
                invalid : BOOLEAN, exclusions : SUBSET Requests]
Usable(g)   == grants[g].state = "active" /\ ~ grants[g].invalid    \* listActiveGrants

Idle    == [at |-> "idle", op |-> "none", request |-> {}, expected |-> 0, boundary |-> {}]
Handler == [at : {"idle", "reading", "seen", "locking", "arming", "armed", "narrowing",
                  "dispatching"},
            op : {"none", "allow_once", "reject", "answer", "enable", "downgrade", "clear", "grant"},
            request : SUBSET Requests, expected : 0 .. MaxRevision, boundary : SUBSET Requests]
Away    == [at |-> "away", full |-> FALSE, covered |-> {}, todo |-> {}, revision |-> 0,
            request |-> {}]
Pass    == [at : {"away", "snapshot", "ceiling", "loop", "verifying", "rereading", "seen",
                  "dispatching"},
            full : BOOLEAN, covered : SUBSET Requests, todo : SUBSET Requests,
            revision : 0 .. MaxRevision, request : SUBSET Requests]
Free    == {}

PermissionTypeOK ==
  /\ interactions \in [Requests -> Interaction]
  /\ mode \in {"request-approval", "full-access", "suspended"}
  /\ revision \in 0 .. MaxRevision
  /\ excluded \in [{"activation", "grants"} -> SUBSET Requests]
  /\ grants \in [Requests -> Grant]
  /\ intent \in [Requests -> {"none", "pending", "indeterminate"}]
  /\ handler \in [Clients -> Handler]
  /\ broker \in Pass
  /\ lock \in SUBSET Resolvers
  /\ trusted \in BOOLEAN
  /\ engine \in [Requests -> {"none", "pending", "withdrawn", "allow_once", "reject", "answer"}]
  /\ answeredBy \in [Requests -> SUBSET Resolvers]
  /\ told \in [Requests -> SUBSET Resolvers]
  /\ lost \subseteq Requests /\ cut \subseteq Requests
  /\ activation \in [requests : SUBSET Requests, cleared : BOOLEAN]
  /\ mishaps \in Nat

NotActivated == [requests |-> {}, cleared |-> FALSE]

Init ==
  /\ InteractionsInit
  /\ mode = "request-approval" /\ revision = 0
  /\ excluded = [s \in {"activation", "grants"} |-> {}]
  /\ grants = [r \in Requests |-> NoGrant]
  /\ intent = [r \in Requests |-> "none"]
  /\ handler = [c \in Clients |-> Idle]
  /\ broker = Away /\ lock = Free
  /\ trusted = TRUE
  /\ engine = [r \in Requests |-> "none"]
  /\ answeredBy = [r \in Requests |-> {}]
  /\ told = [r \in Requests |-> {}]
  /\ lost = {} /\ cut = {} /\ activation = NotActivated
  /\ mishaps = 0

-----------------------------------------------------------------------------
(* The store. *)

Bumped == IF revision = 0 THEN 0 ELSE revision + 1  \* bumpAuthorityRevision
Room   == revision < MaxRevision                    \* bound

(* clearGrantsInternal: the exclusions go with the grants, all of them.      *)
ClearGrantsInternal ==
  /\ grants' = [r \in Requests |-> NoGrant]
  /\ excluded' = [s \in {"activation", "grants"} |-> {}]

(* invalidateGrantsForPrincipal. *)
Invalidated(g) == IF grants[g].state \in {"dispatching", "active"}
                  THEN [grants[g] EXCEPT !.state = "failed", !.invalid = TRUE] ELSE grants[g]
InvalidateGrants == grants' = [g \in Requests |-> Invalidated(g)]
GrantsLost       == \E g \in Requests : Invalidated(g) # grants[g]

(* transitionGrant: a row that was deleted meanwhile is not written, and an  *)
(* invalidation is kept.  An active row is an earlier grant's.               *)
TransitionGrant(g, to) ==
  grants' = [grants EXCEPT ![g].state = IF @ \in {"none", "active"} THEN @ ELSE to]

(* Mutant: a grant whose dispatch a crash cut off is active afterwards. *)
InterruptedResumes(g) == IF grants[g].state = "dispatching"
                         THEN [grants[g] EXCEPT !.state = "active"] ELSE grants[g]

(* reconcileInterruptedGrants. *)
Interrupted(g) == IF grants[g].state = "dispatching"
                  THEN [grants[g] EXCEPT !.state = "indeterminate", !.invalid = TRUE]
                  ELSE grants[g]

(* reconcileInterruptedDecisions. *)
InterruptedIntent(r) == IF intent[r] = "pending" THEN "indeterminate" ELSE intent[r]

-----------------------------------------------------------------------------
(* The clients.  A request in progress and the reply it is about. *)

At(c, point) == handler[c].at = point
Op(c, op)    == handler[c].op = op
About(c, r)  == handler[c].request = {r}
Ends(c)      == handler' = [handler EXCEPT ![c] = Idle]
Goes(c, to)  == handler' = [handler EXCEPT ![c].at = to]
Begins(c, at, op, subject) ==
  /\ At(c, "idle")
  /\ handler' = [handler EXCEPT ![c] = [Idle EXCEPT !.at = at, !.op = op, !.request = subject,
       !.expected = IF op \in {"enable", "downgrade"} THEN revision ELSE 0]]
  /\ UNCHANGED <<interactions, store, broker, lock, world>>

(* prepare. *)
StartReply(c, r, op) ==
  /\ r \in Questions <=> op = "answer"
  /\ engine[r] # "none"
  /\ Unresolved(r)
  /\ Begins(c, "reading", op, {r})

(* readPendingPermissions; the one-time approval also awaits the ceiling.    *)
ReplyReads(c, r) ==
  /\ At(c, "reading") /\ About(c, r)
  /\ handler[c].op \in {"allow_once", "reject", "answer"}
  /\ IF r \in Pending THEN Goes(c, "seen") ELSE Ends(c)
  /\ UNCHANGED <<interactions, store, broker, lock, world>>

(* Mutant: a reply reserves whatever another one has reserved. *)
ReplyReservesAnyway(c, r) ==
  /\ At(c, "seen") /\ About(c, r)
  /\ interactions' = [interactions EXCEPT ![r] = [status |-> "reserved", late |-> 0,
                                                  holder |-> {c}]]
  /\ Goes(c, "dispatching")
  /\ UNCHANGED <<store, broker, lock, world>>

ReplyReserves(c, r) ==
  /\ At(c, "seen") /\ About(c, r)
  /\ IF Reservable(r) THEN Reserve(c, r) /\ Goes(c, "dispatching")
     ELSE Ends(c) /\ UNCHANGED interactions
  /\ UNCHANGED <<store, broker, lock, world>>

(* The ceiling refuses; nothing has been recorded. *)
ReplyBlocked(c) ==
  /\ At(c, "seen") /\ Op(c, "allow_once")
  /\ Ends(c)
  /\ UNCHANGED <<interactions, store, broker, lock, world>>

(* Answers that do not match the question: it was observed, and stays so.    *)
AnswerInvalid(c, r) ==
  /\ At(c, "seen") /\ About(c, r) /\ Op(c, "answer")
  /\ IF Unresolved(r) THEN ObservePending(r) ELSE UNCHANGED interactions
  /\ Ends(c)
  /\ UNCHANGED <<store, broker, lock, world>>

(* What the engine makes of a reply.  The answer to one that it has taken    *)
(* may be lost; one for a request that is gone may be refused or ignored.    *)
Dispatching(a, r) == IF a = Broker THEN broker.at = "dispatching" /\ broker.request = {r}
                     ELSE At(a, "dispatching") /\ About(a, r)
Reply(a)  == IF a = Broker \/ Op(a, "grant") THEN "allow_once" ELSE handler[a].op

EngineTakes(a, r) ==
  /\ Dispatching(a, r)
  /\ r \in Pending
  /\ engine' = [engine EXCEPT ![r] = Reply(a)]
  /\ answeredBy' = [answeredBy EXCEPT ![r] = {a}]
  /\ UNCHANGED <<interactions, store, actors, trusted, ghosts, mishaps>>

Succeeds(a, r) == /\ r \notin Pending
                  /\ told' = [told EXCEPT ![r] = @ \cup {a}]
                  /\ UNCHANGED lost
Fails(a, r)    == /\ \/ answeredBy[r] # {a} /\ UNCHANGED lost
                     \/ /\ answeredBy[r] = {a} /\ "lost_reply" \in Environment
                        /\ lost' = lost \cup {r}
                  /\ UNCHANGED told
WorldOfReply   == UNCHANGED <<trusted, engine, answeredBy, cut, activation, mishaps>>

ReplyReturns(c, r) ==
  /\ Dispatching(c, r) /\ ~ Op(c, "grant")
  /\ \/ Succeeds(c, r) /\ Accept(c, r)
     \/ Fails(c, r) /\ Rollback(c, r)
  /\ Ends(c)
  /\ UNCHANGED <<store, broker, lock>> /\ WorldOfReply

-----------------------------------------------------------------------------
(* The clients set authority. *)

StartEnable(c) == trusted /\ Room /\ Begins(c, "locking", "enable", {})
StartClear(c)  == Room /\ Begins(c, "locking", "clear", {})
StartDowngrade(c) == Room /\ Begins(c, "narrowing", "downgrade", {})
StartGrant(c, r)  == trusted /\ Room /\ r \in Permissions /\ engine[r] # "none"
                       /\ Begins(c, "reading", "grant", {r})

GrantReads(c, r) ==
  /\ At(c, "reading") /\ Op(c, "grant") /\ About(c, r)
  /\ IF r \in Pending THEN Goes(c, "locking") ELSE Ends(c)
  /\ UNCHANGED <<interactions, store, broker, lock, world>>

TakesLock(c) ==
  /\ At(c, "locking") /\ lock = Free
  /\ handler[c].op \in {"enable", "grant"}
  /\ lock' = {c}
  /\ Goes(c, "arming")
  /\ UNCHANGED <<interactions, store, broker, world>>

Unlock == lock' = Free

(* captureActivationBoundary; a snapshot that cannot be read ends it.        *)
Arms(c) ==
  /\ At(c, "arming")
  /\ \/ /\ handler' = [handler EXCEPT ![c].at = "armed",
              ![c].boundary = (Pending \cap Permissions) \ handler[c].request]
        /\ UNCHANGED lock
     \/ "read_failure" \in Environment /\ Ends(c) /\ Unlock
  /\ UNCHANGED <<interactions, store, broker, world>>

(* Mutant: the activation keeps the exclusions of an earlier one. *)
EnableKeepsExclusions(c) ==
  /\ At(c, "armed") /\ Op(c, "enable")
  /\ IF handler[c].expected = revision /\ Room
     THEN /\ mode' = "full-access" /\ revision' = revision + 1
          /\ activation' = [requests |-> handler[c].boundary, cleared |-> FALSE]
          /\ UNCHANGED excluded
     ELSE UNCHANGED <<mode, revision, excluded, activation>>
  /\ Ends(c) /\ Unlock
  /\ UNCHANGED <<interactions, grants, intent, broker, trusted, engine, answeredBy, told, lost,
                 cut, mishaps>>

(* updateMode, to Full access. *)
EnableCommits(c) ==
  /\ At(c, "armed") /\ Op(c, "enable")
  /\ IF handler[c].expected = revision /\ Room
     THEN /\ mode' = "full-access" /\ revision' = revision + 1
          /\ excluded' = [excluded EXCEPT !["activation"] = handler[c].boundary]
          /\ activation' = [requests |-> handler[c].boundary, cleared |-> FALSE]
     ELSE UNCHANGED <<mode, revision, excluded, activation>>
  /\ Ends(c) /\ Unlock
  /\ UNCHANGED <<interactions, grants, intent, broker, trusted, engine, answeredBy, told, lost,
                 cut, mishaps>>

(* updateMode, back to request approval: without the lock. *)
DowngradeCommits(c) ==
  /\ At(c, "narrowing")
  /\ IF handler[c].expected = revision /\ Room
     THEN /\ mode' = "request-approval" /\ revision' = revision + 1
          /\ ClearGrantsInternal
          /\ activation' = NotActivated
     ELSE UNCHANGED <<mode, revision, excluded, grants, activation>>
  /\ Ends(c)
  /\ UNCHANGED <<interactions, intent, broker, lock, trusted, engine, answeredBy, told, lost, cut,
                 mishaps>>

ClearGrants(c) ==
  /\ At(c, "locking") /\ Op(c, "clear") /\ lock = Free
  /\ Bumped <= MaxRevision
  /\ ClearGrantsInternal /\ revision' = Bumped
  /\ activation' = [activation EXCEPT !.cleared = TRUE]
  /\ Ends(c)
  /\ UNCHANGED <<interactions, mode, intent, broker, lock, trusted, engine, answeredBy, told, lost,
                 cut, mishaps>>

(* The grant is inserted and marked dispatching; then the interaction is     *)
(* observed and reserved, and a conflict of that leaves the grant as it is.  *)
GrantReserves(c, r) ==
  /\ At(c, "armed") /\ Op(c, "grant") /\ About(c, r)
  /\ Bumped <= MaxRevision
  /\ revision' = Bumped
  /\ grants' = [grants EXCEPT ![r] =
       IF Usable(r) THEN @
       ELSE [state |-> "dispatching", invalid |-> FALSE, exclusions |-> handler[c].boundary]]
  /\ excluded' = [excluded EXCEPT !["grants"] = @ \cup handler[c].boundary]
  /\ IF Reservable(r)
     THEN /\ Reserve(c, r) /\ UNCHANGED lock
          /\ handler' = [handler EXCEPT ![c].at = "dispatching", ![c].boundary = {}]
     ELSE Ends(c) /\ Unlock /\ UNCHANGED interactions
  /\ UNCHANGED <<mode, intent, broker, world>>

GrantReturns(c, r) ==
  /\ Dispatching(c, r) /\ Op(c, "grant")
  /\ \/ Succeeds(c, r) /\ Accept(c, r) /\ TransitionGrant(r, "active")
     \/ Fails(c, r) /\ Rollback(c, r) /\ TransitionGrant(r, "failed")
  /\ Ends(c) /\ Unlock
  /\ UNCHANGED <<mode, revision, excluded, intent, broker>> /\ WorldOfReply

-----------------------------------------------------------------------------
(* The broker. *)

BrokerIs(point)  == broker.at = point
OnlyBroker       == UNCHANGED <<interactions, store, handler, world>>
Loops(dropped)   == broker' = [broker EXCEPT !.at = "loop", !.request = {},
                                             !.todo = @ \ dropped]

(* processRoot reads the mode and the grants, and awaits the snapshot.       *)
BrokerBegins ==
  /\ BrokerIs("away") /\ lock = Free
  /\ mode = "full-access" \/ \E g \in Requests : Usable(g)
  /\ lock' = {Broker}
  /\ broker' = [Away EXCEPT !.at = "snapshot", !.full = (mode = "full-access"),
       !.covered = {r \in Permissions : \E g \in Requests :
                      Usable(g) /\ g # r /\ r \notin grants[g].exclusions}]
  /\ OnlyBroker

BrokerSeesPending ==
  /\ BrokerIs("snapshot")
  /\ broker' = [broker EXCEPT !.at = "ceiling", !.todo = Pending \cap Permissions]
  /\ UNCHANGED lock /\ OnlyBroker

(* After the ceiling: the exclusions and the authority revision.             *)
BrokerReadsAuthority ==
  /\ BrokerIs("ceiling")
  /\ broker' = [broker EXCEPT !.at = "loop", !.revision = revision, !.covered = {},
       !.todo = (IF broker.full THEN @ ELSE @ \cap broker.covered)
                   \ (excluded["activation"] \cup excluded["grants"])]
  /\ UNCHANGED lock /\ OnlyBroker

(* Mutant: an earlier automatic decision of unknown outcome is not asked for. *)
BrokerPicksAgain(r) ==
  /\ BrokerIs("loop") /\ r \in broker.todo
  /\ \/ broker' = [broker EXCEPT !.at = "verifying", !.request = {r}]
     \/ Loops({r})
  /\ UNCHANGED lock /\ OnlyBroker

(* hasPendingDecisionForRequest, the ceiling's verdict and the first gate.   *)
BrokerPicks(r) ==
  /\ BrokerIs("loop") /\ r \in broker.todo
  /\ \/ /\ intent[r] = "none" /\ broker.revision = revision
        /\ broker' = [broker EXCEPT !.at = "verifying", !.request = {r}]
     \/ Loops({r})
  /\ UNCHANGED lock /\ OnlyBroker

(* The second gate: an author without authority loses all it has authorized. *)
BrokerVerifies ==
  /\ BrokerIs("verifying")
  /\ \/ /\ trusted
        /\ broker' = [broker EXCEPT !.at = "rereading"]
        /\ UNCHANGED <<mode, revision, grants>>
     \/ /\ ~ trusted
        /\ LET suspends == broker.full /\ mode = "full-access"
               raise(n) == IF n = 0 THEN 0 ELSE n + 1
               first    == IF suspends THEN revision + 1 ELSE revision
               last     == IF GrantsLost THEN raise(first) ELSE first
           IN /\ last <= MaxRevision
              /\ mode' = IF suspends THEN "suspended" ELSE mode
              /\ revision' = last
              /\ InvalidateGrants
              /\ Loops(broker.request)
  /\ UNCHANGED <<interactions, excluded, intent, handler, lock, world>>

(* The third gate. *)
BrokerRereads ==
  /\ BrokerIs("rereading")
  /\ IF broker.request \subseteq Pending
     THEN broker' = [broker EXCEPT !.at = "seen"] ELSE Loops(broker.request)
  /\ UNCHANGED lock /\ OnlyBroker

(* The durable intent, and the reservation. *)
BrokerReserves(r) ==
  /\ BrokerIs("seen") /\ broker.request = {r}
  /\ IF Reservable(r)
     THEN /\ Reserve(Broker, r)
          /\ intent' = [intent EXCEPT ![r] = "pending"]
          /\ broker' = [broker EXCEPT !.at = "dispatching"]
     ELSE /\ intent' = [intent EXCEPT ![r] = "indeterminate"]
          /\ Loops({r})
          /\ UNCHANGED interactions
  /\ UNCHANGED <<mode, revision, excluded, grants, handler, lock, world>>

(* The intent cannot be written: nothing is sent. *)
BrokerIntentFails ==
  /\ BrokerIs("seen") /\ "unrecorded" \in Environment
  /\ Loops(broker.request)
  /\ UNCHANGED lock /\ OnlyBroker

BrokerReturns(r) ==
  /\ Dispatching(Broker, r)
  /\ \/ Succeeds(Broker, r) /\ Accept(Broker, r)
     \/ Fails(Broker, r) /\ Rollback(Broker, r)
  /\ intent' = [intent EXCEPT ![r] = "none"]
  /\ Loops({r})
  /\ UNCHANGED <<mode, revision, excluded, grants, handler, lock>> /\ WorldOfReply

BrokerLeaves ==
  /\ \/ BrokerIs("loop") /\ broker.todo = {}
     \/ /\ "read_failure" \in Environment
        /\ broker.at \in {"snapshot", "ceiling", "verifying", "rereading"}
  /\ broker' = Away /\ Unlock
  /\ OnlyBroker

(* Away, it finds out that the author has lost its authority. *)
InvalidatedElsewhere ==
  /\ BrokerIs("away") /\ ~ trusted
  /\ GrantsLost /\ Bumped <= MaxRevision
  /\ InvalidateGrants /\ revision' = Bumped
  /\ UNCHANGED <<interactions, mode, excluded, intent, actors, world>>

-----------------------------------------------------------------------------
(* The world. *)

EngineAsks(r) ==
  /\ engine[r] = "none"
  /\ engine' = [engine EXCEPT ![r] = "pending"]
  /\ UNCHANGED <<interactions, store, actors, trusted, answeredBy, ghosts, mishaps>>

(* A request is gone with the run that asked, aborted, or with the engine's  *)
(* process: a reply to it decides nothing, whatever its sender is told.      *)
EngineWithdraws(r) ==
  /\ "withdrawal" \in Environment
  /\ r \in Pending
  /\ engine' = [engine EXCEPT ![r] = "withdrawn"]
  /\ lost' = lost \cup {r}
  /\ UNCHANGED <<interactions, store, actors, trusted, answeredBy, told, cut, activation, mishaps>>

AuthorityChanges ==
  /\ trusted => mishaps < MaxMishaps
  /\ trusted' = ~ trusted
  /\ mishaps' = IF trusted THEN mishaps + 1 ELSE mishaps
  /\ UNCHANGED <<interactions, store, actors, engine, answeredBy, ghosts>>

(* Time.  A tombstone, kept for twenty minutes, outlives a reply in progress. *)
InProgress(r) == \E c \in Clients : handler[c].request = {r}
TimePasses(r) ==
  /\ r \in Slow /\ DeadlinePasses(r)
  /\ interactions[r].status = "resolved" => ~ InProgress(r) /\ broker.request # {r}
  /\ UNCHANGED <<store, actors, world>>

(* The process dies, wherever its handlers are, and starts again: what was   *)
(* being dispatched may have been taken (EngineTakes) or not.                *)
Restart ==
  /\ mishaps < MaxMishaps
  /\ mishaps' = mishaps + 1
  /\ interactions' = [r \in Requests |-> Forgotten]
  /\ handler' = [c \in Clients |-> Idle]
  /\ broker' = Away /\ lock' = Free
  /\ grants' = [g \in Requests |-> Interrupted(g)]
  /\ intent' = [r \in Requests |-> InterruptedIntent(r)]
  /\ cut' = cut \cup {r \in Requests : Dispatching(Broker, r)}
  /\ UNCHANGED <<mode, revision, excluded, trusted, engine, answeredBy, told, lost, activation>>

-----------------------------------------------------------------------------
Replies == {"allow_once", "reject", "answer"}

ClientStep(c) ==
  \/ TakesLock(c) \/ Arms(c) \/ EnableCommits(c) \/ DowngradeCommits(c) \/ ClearGrants(c)
  \/ ReplyBlocked(c)
  \/ \E r \in Requests :
       \/ ReplyReads(c, r) \/ ReplyReserves(c, r) \/ AnswerInvalid(c, r) \/ ReplyReturns(c, r)
       \/ GrantReads(c, r) \/ GrantReserves(c, r) \/ GrantReturns(c, r)

ClientStarts(c) ==
  \/ StartEnable(c) \/ StartClear(c) \/ StartDowngrade(c)
  \/ \E r \in Requests : StartGrant(c, r) \/ \E op \in Replies : StartReply(c, r, op)

BrokerStep ==
  \/ BrokerBegins \/ BrokerSeesPending \/ BrokerReadsAuthority \/ BrokerVerifies
  \/ BrokerRereads \/ BrokerIntentFails \/ BrokerLeaves
  \/ \E r \in Requests : BrokerPicks(r) \/ BrokerReserves(r) \/ BrokerReturns(r)

Next ==
  \/ \E c \in Clients : ClientStarts(c) \/ ClientStep(c)
  \/ BrokerStep \/ InvalidatedElsewhere
  \/ \E r \in Requests : EngineAsks(r) \/ EngineWithdraws(r) \/ TimePasses(r)
                         \/ \E a \in Resolvers : EngineTakes(a, r)
  \/ AuthorityChanges \/ Restart

PermissionSpec == Init /\ [][Next]_permissionVars

(* The routes and the broker run on the event loop, the engine answers what  *)
(* reaches it, and the clock goes on.                                        *)
FairPermissionSpec ==
  /\ PermissionSpec
  /\ WF_permissionVars(BrokerStep)
  /\ \A c \in Clients : WF_permissionVars(ClientStep(c))
  /\ \A r \in Requests : WF_permissionVars(TimePasses(r))

-----------------------------------------------------------------------------
(* Whatever answers a request - two clients, a grant being created, the      *)
(* broker - only one of them has a reply on its way to the engine, and an    *)
(* automatic one has its intent on disk.  And the reservation never outlives *)
(* its dispatch: a reserved request is closed to every other answer and has  *)
(* no deadline, so that one left reserved would be closed for good.          *)
OneDispatch ==
  \A r \in Requests : \A a \in Resolvers :
    /\ Holder(a, r) <=> Dispatching(a, r)
    /\ Dispatching(a, r) => \A b \in Resolvers \ {a} : ~ Dispatching(b, r)
    /\ Dispatching(Broker, r) => intent[r] = "pending"

(* Who is told that its answer resolved a request gave the answer that the   *)
(* engine took, unless the engine withdrew this request or its answer to a   *)
(* reply of this request was lost: a client that read the request as pending *)
(* before another one answered it meets that one's tombstone.                *)
AnswerStands == \A r \in Requests \ lost : told[r] \subseteq answeredBy[r]

(* A request that was pending when Full access was enabled waits for a       *)
(* human, as long as Full access lasts and the grants are not cleared:       *)
(* across the broker's passes, other changes of mode and a restart.          *)
ManualStaysManual ==
  mode = "full-access" /\ ~ activation.cleared =>
    \A r \in activation.requests : ~ Dispatching(Broker, r)

(* A grant that gives authority stands on an approval of the request it was  *)
(* created for that the engine took: a dispatch that failed, that a crash    *)
(* cut off or that another answer preceded activates none (but for a request *)
(* the engine withdrew or its answer to which was lost).                     *)
GrantFollowsApproval ==
  \A g \in Requests \ lost : Usable(g) => engine[g] = "allow_once"

(* An automatic reply in which the process died is never sent again: whether *)
(* the engine took it is unknown.                                            *)
NeverAnsweredBlindly ==
  [][\A r \in cut : Dispatching(Broker, r)' => Dispatching(Broker, r)]_permissionVars

(* A request the engine waits for that is closed to answers, reserved by one *)
(* that fails or expired while nobody answered, is open to them again.       *)
NotLockedOut ==
  \A r \in Requests : (r \in Pending /\ ~ Unresolved(r)) ~> (r \notin Pending \/ Unresolved(r))
=============================================================================
