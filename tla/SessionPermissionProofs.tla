----------------------- MODULE SessionPermissionProofs -----------------------
(***************************************************************************)
(* Proofs about the answers to permissions and questions, for any          *)
(* requests, questions, clients, limits and bounds.                        *)
(***************************************************************************)
EXTENDS SessionPermission, TLAPS

(* The operations a handler can be in the middle of. *)
OpsFit ==
  \A c \in Clients :
    /\ At(c, "seen") => handler[c].op \in Replies
    /\ At(c, "dispatching") => handler[c].op \in Replies \cup {"grant"}

Base == PermissionTypeOK /\ OpsFit

-----------------------------------------------------------------------------
(* The coordinator keeps records. *)

InteractionsTyped == interactions \in [Requests -> Interaction]

LEMMA ObservedTyped ==
  ASSUME InteractionsTyped, NEW r \in Requests
  PROVE  Observed(r) \in Interaction
BY DEF InteractionsTyped, Observed, Interaction

LEMMA ForgottenTyped == Forgotten \in Interaction
BY DEF Forgotten, Interaction

LEMMA ObservePendingTyped ==
  ASSUME InteractionsTyped, NEW r \in Requests, ObservePending(r)
  PROVE  InteractionsTyped'
BY ObservedTyped, ForgottenTyped DEF InteractionsTyped, ObservePending

LEMMA ReserveTyped ==
  ASSUME InteractionsTyped, NEW a \in Resolvers, NEW r \in Requests, Reserve(a, r)
  PROVE  InteractionsTyped'
<1>1. [Observed(r) EXCEPT !.status = "reserved", !.holder = {a}] \in Interaction
  BY ObservedTyped DEF Interaction
<1> QED BY <1>1, ForgottenTyped DEF InteractionsTyped, Reserve

LEMMA AcceptTyped ==
  ASSUME InteractionsTyped, NEW a \in Resolvers, NEW r \in Requests, Accept(a, r)
  PROVE  InteractionsTyped'
<1>1. [status |-> "resolved", late |-> 0, holder |-> {a}] \in Interaction
  BY DEF Interaction
<1> QED BY <1>1 DEF InteractionsTyped, Accept

LEMMA RollbackTyped ==
  ASSUME InteractionsTyped, NEW a \in Resolvers, NEW r \in Requests, Rollback(a, r)
  PROVE  InteractionsTyped'
<1>1. [interactions[r] EXCEPT !.status = "pending", !.holder = {}] \in Interaction
  BY DEF InteractionsTyped, Interaction
<1> QED BY <1>1 DEF InteractionsTyped, Rollback

LEMMA DeadlineTyped ==
  ASSUME InteractionsTyped, NEW r \in Requests, DeadlinePasses(r)
  PROVE  InteractionsTyped'
<1>1. interactions[r] \in Interaction
  BY DEF InteractionsTyped
<1>2. interactions[r].late < 2 => Later(interactions[r]) \in Interaction
  BY <1>1, ForgottenTyped DEF Interaction, Later
<1> QED BY <1>2 DEF InteractionsTyped, DeadlinePasses

-----------------------------------------------------------------------------
(* Types. *)

LEMMA InitBase == Init => Base
<1> SUFFICES ASSUME Init PROVE Base OBVIOUS
<1>1. interactions \in [Requests -> Interaction]
  BY ForgottenTyped DEF Init, InteractionsInit
<1>2. Idle \in Handler /\ Away \in Pass /\ NoGrant \in Grant /\ NotActivated \in
        [requests : SUBSET Requests, cleared : BOOLEAN]
  BY PermissionAssumption DEF Idle, Handler, Away, Pass, NoGrant, Grant, NotActivated
<1>3. handler \in [Clients -> Handler] /\ broker \in Pass /\ grants \in [Requests -> Grant]
  BY <1>2 DEF Init
<1>4. PermissionTypeOK
  BY <1>1, <1>2, <1>3, PermissionAssumption DEF Init, PermissionTypeOK, Free
<1>5. OpsFit
  BY DEF Init, OpsFit, At, Idle
<1> QED BY <1>4, <1>5 DEF Base

LEMMA IdleTyped == Idle \in Handler /\ Away \in Pass /\ NoGrant \in Grant
BY PermissionAssumption DEF Idle, Handler, Away, Pass, NoGrant, Grant

LEMMA BeginsBase ==
  ASSUME Base, NEW c \in Clients, NEW at \in {"reading", "locking", "narrowing"},
         NEW op \in Replies \cup {"enable", "downgrade", "clear", "grant"},
         NEW subject \in SUBSET Requests, Begins(c, at, op, subject)
  PROVE  Base'
<1>1. 0 \in 0 .. MaxRevision
  BY PermissionAssumption
<1>2. handler' \in [Clients -> Handler]
  BY <1>1 DEF Base, PermissionTypeOK, Begins, Idle, Handler, Replies
<1>3. OpsFit'
  BY DEF Base, PermissionTypeOK, OpsFit, Begins, Idle, At, Handler
<1> QED BY <1>2, <1>3 DEF Base, PermissionTypeOK, Begins, store, world, ghosts

LEMMA ClientStartsBase ==
  ASSUME Base, NEW c \in Clients, ClientStarts(c)
  PROVE  Base'
<1>1. CASE StartEnable(c) \/ StartClear(c) \/ StartDowngrade(c)
  BY <1>1, BeginsBase DEF StartEnable, StartClear, StartDowngrade
<1>2. CASE \E r \in Requests : StartGrant(c, r)
  BY <1>2, BeginsBase DEF StartGrant
<1>3. CASE \E r \in Requests, op \in Replies : StartReply(c, r, op)
  BY <1>3, BeginsBase DEF StartReply
<1> QED BY <1>1, <1>2, <1>3 DEF ClientStarts

(* What a step leaves of a handler and of the broker. *)
LEMMA HandlerMoves ==
  ASSUME Base, NEW c \in Clients
  PROVE  /\ Ends(c) => handler' \in [Clients -> Handler] /\ OpsFit'
         /\ \A to \in {"seen", "locking", "arming", "armed"} :
              Goes(c, to) /\ (to = "seen" => handler[c].op \in Replies) =>
                handler' \in [Clients -> Handler] /\ OpsFit'
         /\ Goes(c, "dispatching") /\ handler[c].op \in Replies \cup {"grant"} =>
              handler' \in [Clients -> Handler] /\ OpsFit'
<1>0. handler \in [Clients -> Handler]
  BY DEF Base, PermissionTypeOK
<1>1. ASSUME Ends(c) PROVE handler' \in [Clients -> Handler] /\ OpsFit'
  <2>1. handler' \in [Clients -> Handler]
    BY <1>0, <1>1, IdleTyped DEF Ends
  <2> QED BY <1>0, <1>1, <2>1 DEF Base, OpsFit, Ends, At, Idle
<1>2. ASSUME NEW to \in {"seen", "locking", "arming", "armed", "dispatching"}, Goes(c, to),
             to = "seen" => handler[c].op \in Replies,
             to = "dispatching" => handler[c].op \in Replies \cup {"grant"}
      PROVE  handler' \in [Clients -> Handler] /\ OpsFit'
  <2>1. [handler[c] EXCEPT !.at = to] \in Handler
    BY <1>0 DEF Handler
  <2>2. handler' \in [Clients -> Handler]
    BY <1>0, <1>2, <2>1 DEF Goes
  <2> QED BY <1>0, <1>2, <2>2 DEF Base, OpsFit, Goes, At, Handler
<1> QED BY <1>1, <1>2

LEMMA ClientReadsBase ==
  ASSUME Base, NEW c \in Clients,
         \/ TakesLock(c) \/ Arms(c) \/ ReplyBlocked(c)
         \/ \E r \in Requests : ReplyReads(c, r) \/ GrantReads(c, r)
  PROVE  Base'
<1>1. handler' \in [Clients -> Handler] /\ OpsFit' /\ lock' \in SUBSET Resolvers
  <2>1. CASE TakesLock(c)
    BY <2>1, HandlerMoves, PermissionAssumption DEF TakesLock, Base, PermissionTypeOK
  <2>2. CASE Arms(c)
    <3>1. CASE Ends(c) /\ Unlock
      BY <3>1, HandlerMoves DEF Unlock, Free
    <3>2. CASE /\ handler' = [handler EXCEPT ![c].at = "armed",
                     ![c].boundary = (Pending \cap Permissions) \ handler[c].request]
               /\ UNCHANGED lock
      <4> DEFINE B == (Pending \cap Permissions) \ handler[c].request
      <4>1. B \in SUBSET Requests
        BY DEF Pending
      <4> HIDE DEF B
      <4>2. [handler[c] EXCEPT !.at = "armed", !.boundary = B] \in Handler
        <5>1. handler[c] \in Handler
          BY DEF Base, PermissionTypeOK
        <5> QED BY <4>1, <5>1 DEF Handler
      <4>3. handler' = [handler EXCEPT ![c] = [handler[c] EXCEPT !.at = "armed", !.boundary = B]]
        BY <3>2 DEF B
      <4>4. handler' \in [Clients -> Handler]
        BY <4>2, <4>3 DEF Base, PermissionTypeOK
      <4>5. OpsFit'
        BY <4>3 DEF Base, PermissionTypeOK, OpsFit, At, Handler
      <4> QED BY <3>2, <4>4, <4>5 DEF Base, PermissionTypeOK
    <3> QED BY <2>2, <3>1, <3>2 DEF Arms
  <2>3. CASE ReplyBlocked(c)
    BY <2>3, HandlerMoves DEF ReplyBlocked, Base, PermissionTypeOK
  <2>4. CASE \E r \in Requests : ReplyReads(c, r)
    BY <2>4, HandlerMoves DEF ReplyReads, Replies, Base, PermissionTypeOK
  <2>5. CASE \E r \in Requests : GrantReads(c, r)
    BY <2>5, HandlerMoves DEF GrantReads, Base, PermissionTypeOK
  <2> QED BY <2>1, <2>2, <2>3, <2>4, <2>5
<1>2. UNCHANGED <<interactions, store, broker, world>>
  BY DEF TakesLock, Arms, ReplyBlocked, ReplyReads, GrantReads
<1> QED BY <1>1, <1>2 DEF Base, PermissionTypeOK, store, world, ghosts

LEMMA BumpedTyped ==
  ASSUME Base, Bumped <= MaxRevision
  PROVE  Bumped \in 0 .. MaxRevision
BY PermissionAssumption DEF Base, PermissionTypeOK, Bumped

LEMMA RaisedTyped ==
  ASSUME Base, Room
  PROVE  revision + 1 \in 0 .. MaxRevision
BY PermissionAssumption DEF Base, PermissionTypeOK, Room

LEMMA TransitionTyped ==
  ASSUME Base, NEW g \in Requests, NEW to \in {"active", "failed"}, TransitionGrant(g, to)
  PROVE  grants' \in [Requests -> Grant]
<1>1. \A st \in {"none", "active", to} : [grants[g] EXCEPT !.state = st] \in Grant
  BY DEF Base, PermissionTypeOK, Grant
<1> QED BY <1>1 DEF Base, PermissionTypeOK, TransitionGrant

LEMMA InvalidateTyped ==
  ASSUME Base, InvalidateGrants
  PROVE  grants' \in [Requests -> Grant]
<1>1. \A g \in Requests : Invalidated(g) \in Grant
  BY DEF Base, PermissionTypeOK, Grant, Invalidated
<1> QED BY <1>1 DEF InvalidateGrants

LEMMA ClearedTyped ==
  ASSUME ClearGrantsInternal
  PROVE  /\ grants' \in [Requests -> Grant]
         /\ excluded' \in [{"activation", "grants"} -> SUBSET Requests]
BY IdleTyped DEF ClearGrantsInternal

LEMMA ModesBase ==
  ASSUME Base, NEW c \in Clients, EnableCommits(c) \/ DowngradeCommits(c) \/ ClearGrants(c)
  PROVE  Base'
<1>1. handler' \in [Clients -> Handler] /\ OpsFit'
  BY HandlerMoves DEF EnableCommits, DowngradeCommits, ClearGrants
<1>2. handler[c].boundary \in SUBSET Requests
  BY DEF Base, PermissionTypeOK, Handler
<1>3. CASE EnableCommits(c)
  <2>1. excluded' \in [{"activation", "grants"} -> SUBSET Requests]
    BY <1>2, <1>3 DEF Base, PermissionTypeOK, EnableCommits
  <2>2. revision' \in 0 .. MaxRevision /\ mode' \in {"request-approval", "full-access", "suspended"}
    <3>1. Room => revision + 1 \in 0 .. MaxRevision
      BY RaisedTyped
    <3> QED BY <1>3, <3>1 DEF EnableCommits, Base, PermissionTypeOK
  <2>3. activation' \in [requests : SUBSET Requests, cleared : BOOLEAN]
    <3>1. activation \in [requests : SUBSET Requests, cleared : BOOLEAN]
      BY DEF Base, PermissionTypeOK
    <3>2. [requests |-> handler[c].boundary, cleared |-> FALSE] \in
            [requests : SUBSET Requests, cleared : BOOLEAN]
      BY <1>2
    <3>3. \/ activation' = [requests |-> handler[c].boundary, cleared |-> FALSE]
          \/ activation' = activation
      BY <1>3 DEF EnableCommits
    <3> QED BY <3>1, <3>2, <3>3
  <2> QED BY <1>1, <1>3, <2>1, <2>2, <2>3
          DEF Base, PermissionTypeOK, EnableCommits, Unlock, Free
<1>4. CASE DowngradeCommits(c)
  <2>1. /\ grants' \in [Requests -> Grant]
        /\ excluded' \in [{"activation", "grants"} -> SUBSET Requests]
    BY <1>4, ClearedTyped DEF Base, PermissionTypeOK, DowngradeCommits
  <2>2. revision' \in 0 .. MaxRevision /\ mode' \in {"request-approval", "full-access", "suspended"}
    <3>1. Room => revision + 1 \in 0 .. MaxRevision
      BY RaisedTyped
    <3> QED BY <1>4, <3>1 DEF DowngradeCommits, Base, PermissionTypeOK
  <2>3. activation' \in [requests : SUBSET Requests, cleared : BOOLEAN]
    <3>1. activation \in [requests : SUBSET Requests, cleared : BOOLEAN]
      BY DEF Base, PermissionTypeOK
    <3>2. NotActivated \in [requests : SUBSET Requests, cleared : BOOLEAN]
      BY DEF NotActivated
    <3>3. activation' = NotActivated \/ activation' = activation
      BY <1>4 DEF DowngradeCommits
    <3> QED BY <3>1, <3>2, <3>3
  <2> QED BY <1>1, <1>4, <2>1, <2>2, <2>3 DEF Base, PermissionTypeOK, DowngradeCommits
<1>5. CASE ClearGrants(c)
  BY <1>1, <1>5, ClearedTyped, BumpedTyped DEF Base, PermissionTypeOK, ClearGrants
<1> QED BY <1>3, <1>4, <1>5

LEMMA ToldTyped ==
  ASSUME Base, NEW a \in Resolvers, NEW r \in Requests, Succeeds(a, r) \/ Fails(a, r)
  PROVE  told' \in [Requests -> SUBSET Resolvers] /\ lost' \subseteq Requests
BY DEF Base, PermissionTypeOK, Succeeds, Fails

LEMMA AnswersBase ==
  ASSUME Base, NEW c \in Clients, NEW r \in Requests,
         \/ ReplyReserves(c, r) \/ AnswerInvalid(c, r) \/ ReplyReturns(c, r)
         \/ GrantReserves(c, r) \/ GrantReturns(c, r)
  PROVE  Base'
<1>0. c \in Resolvers /\ InteractionsTyped
  BY PermissionAssumption DEF Base, PermissionTypeOK, InteractionsTyped
<1>1. CASE ReplyReserves(c, r)
  <2>1. handler' \in [Clients -> Handler] /\ OpsFit'
    BY <1>1, HandlerMoves DEF ReplyReserves, Base, OpsFit
  <2>2. InteractionsTyped'
    BY <1>0, <1>1, ReserveTyped DEF ReplyReserves, InteractionsTyped
  <2> QED BY <1>1, <2>1, <2>2
          DEF Base, PermissionTypeOK, InteractionsTyped, ReplyReserves, store, world, ghosts
<1>2. CASE AnswerInvalid(c, r)
  <2>1. handler' \in [Clients -> Handler] /\ OpsFit'
    BY <1>2, HandlerMoves DEF AnswerInvalid
  <2>2. InteractionsTyped'
    BY <1>0, <1>2, ObservePendingTyped DEF AnswerInvalid, InteractionsTyped
  <2> QED BY <1>2, <2>1, <2>2
          DEF Base, PermissionTypeOK, InteractionsTyped, AnswerInvalid, store, world, ghosts
<1>3. CASE ReplyReturns(c, r)
  <2>1. handler' \in [Clients -> Handler] /\ OpsFit'
    BY <1>3, HandlerMoves DEF ReplyReturns
  <2>2. InteractionsTyped'
    BY <1>0, <1>3, AcceptTyped, RollbackTyped DEF ReplyReturns
  <2>3. told' \in [Requests -> SUBSET Resolvers] /\ lost' \subseteq Requests
    BY <1>0, <1>3, ToldTyped DEF ReplyReturns
  <2> QED BY <1>3, <2>1, <2>2, <2>3
          DEF Base, PermissionTypeOK, InteractionsTyped, ReplyReturns, store, WorldOfReply
<1>4. CASE GrantReserves(c, r)
  <2>1. handler[c] \in Handler
    BY DEF Base, PermissionTypeOK
  <2>2. [handler[c] EXCEPT !.at = "dispatching", !.boundary = {}] \in Handler
    BY <2>1 DEF Handler
  <2>3. handler' \in [Clients -> Handler] /\ OpsFit'
    <3>1. CASE Ends(c)
      BY <3>1, HandlerMoves
    <3>2. CASE handler' = [handler EXCEPT ![c] =
                  [handler[c] EXCEPT !.at = "dispatching", !.boundary = {}]]
      BY <1>4, <2>1, <2>2, <3>2
         DEF Base, PermissionTypeOK, OpsFit, GrantReserves, At, Op, Handler, Replies
    <3> QED BY <1>4, <3>1, <3>2 DEF GrantReserves
  <2>4. InteractionsTyped'
    BY <1>0, <1>4, ReserveTyped DEF GrantReserves, InteractionsTyped
  <2>5. handler[c].boundary \in SUBSET Requests
    BY <2>1 DEF Handler
  <2>6. [state |-> "dispatching", invalid |-> FALSE, exclusions |-> handler[c].boundary] \in Grant
    BY <2>5 DEF Grant
  <2>7. grants' \in [Requests -> Grant]
    BY <1>4, <2>6 DEF GrantReserves, Base, PermissionTypeOK
  <2>8. excluded' \in [{"activation", "grants"} -> SUBSET Requests]
    BY <1>4, <2>5 DEF GrantReserves, Base, PermissionTypeOK
  <2>9. revision' \in 0 .. MaxRevision /\ lock' \in SUBSET Resolvers
    BY <1>4, BumpedTyped DEF GrantReserves, Base, PermissionTypeOK, Unlock, Free
  <2> QED BY <1>4, <2>3, <2>4, <2>7, <2>8, <2>9
          DEF Base, PermissionTypeOK, InteractionsTyped, GrantReserves, world, ghosts
<1>5. CASE GrantReturns(c, r)
  <2>1. handler' \in [Clients -> Handler] /\ OpsFit'
    BY <1>5, HandlerMoves DEF GrantReturns
  <2>2. InteractionsTyped'
    BY <1>0, <1>5, AcceptTyped, RollbackTyped DEF GrantReturns
  <2>3. told' \in [Requests -> SUBSET Resolvers] /\ lost' \subseteq Requests
    BY <1>0, <1>5, ToldTyped DEF GrantReturns
  <2>4. grants' \in [Requests -> Grant]
    BY <1>5, TransitionTyped DEF GrantReturns
  <2> QED BY <1>5, <2>1, <2>2, <2>3, <2>4
          DEF Base, PermissionTypeOK, InteractionsTyped, GrantReturns, Unlock, Free, WorldOfReply
<1> QED BY <1>1, <1>2, <1>3, <1>4, <1>5

(* The broker. *)
LEMMA LoopsTyped ==
  ASSUME Base, NEW dropped \in SUBSET Requests, Loops(dropped)
  PROVE  broker' \in Pass
<1>1. broker \in Pass
  BY DEF Base, PermissionTypeOK
<1> QED BY <1>1 DEF Loops, Pass

LEMMA BrokerReadsBase ==
  ASSUME Base,
         \/ BrokerBegins \/ BrokerSeesPending \/ BrokerReadsAuthority \/ BrokerRereads
         \/ BrokerIntentFails \/ BrokerLeaves \/ \E r \in Requests : BrokerPicks(r)
  PROVE  Base'
<1>0. broker \in Pass /\ broker.request \in SUBSET Requests
  BY DEF Base, PermissionTypeOK, Pass
<1>1. broker' \in Pass /\ lock' \in SUBSET Resolvers
  <2>1. CASE BrokerBegins
    <3> DEFINE C == {r \in Permissions : \E g \in Requests :
                      Usable(g) /\ g # r /\ r \notin grants[g].exclusions}
               F == mode = "full-access"
    <3>1. C \in SUBSET Requests /\ F \in BOOLEAN
      BY DEF Permissions
    <3>2. broker' = [Away EXCEPT !.at = "snapshot", !.full = F, !.covered = C]
      BY <2>1 DEF BrokerBegins
    <3> HIDE DEF C, F
    <3>3. broker' \in Pass
      BY <3>1, <3>2, IdleTyped DEF Pass
    <3> QED BY <2>1, <3>3, PermissionAssumption DEF BrokerBegins
  <2>2. CASE BrokerSeesPending
    <3>1. Pending \cap Permissions \in SUBSET Requests
      BY DEF Pending
    <3> QED BY <1>0, <2>2, <3>1 DEF BrokerSeesPending, Pass, Base, PermissionTypeOK
  <2>3. CASE BrokerReadsAuthority
    <3> DEFINE T == (IF broker.full THEN broker.todo ELSE broker.todo \cap broker.covered)
                      \ (excluded["activation"] \cup excluded["grants"])
    <3>1. T \in SUBSET Requests
      BY <1>0 DEF Pass
    <3>2. broker' = [broker EXCEPT !.at = "loop", !.revision = revision, !.covered = {},
                                   !.todo = T]
      BY <2>3 DEF BrokerReadsAuthority
    <3> HIDE DEF T
    <3>3. revision \in 0 .. MaxRevision /\ lock' \in SUBSET Resolvers
      BY <2>3 DEF Base, PermissionTypeOK, BrokerReadsAuthority
    <3> QED BY <1>0, <3>1, <3>2, <3>3 DEF Pass
  <2>4. CASE BrokerRereads
    <3>1. CASE Loops(broker.request)
      BY <1>0, <2>4, <3>1, LoopsTyped DEF BrokerRereads, Base, PermissionTypeOK
    <3>2. CASE broker' = [broker EXCEPT !.at = "seen"]
      BY <1>0, <2>4, <3>2 DEF BrokerRereads, Pass, Base, PermissionTypeOK
    <3> QED BY <2>4, <3>1, <3>2 DEF BrokerRereads
  <2>5. CASE BrokerIntentFails
    BY <1>0, <2>5, LoopsTyped DEF BrokerIntentFails, Base, PermissionTypeOK
  <2>6. CASE BrokerLeaves
    BY <2>6, IdleTyped DEF BrokerLeaves, Unlock, Free
  <2>7. CASE \E r \in Requests : BrokerPicks(r)
    <3>1. PICK r \in Requests : BrokerPicks(r)
      BY <2>7
    <3>2. CASE Loops({r})
      BY <3>1, <3>2, LoopsTyped DEF BrokerPicks, Base, PermissionTypeOK
    <3>3. CASE broker' = [broker EXCEPT !.at = "verifying", !.request = {r}]
      BY <1>0, <3>1, <3>3 DEF BrokerPicks, Pass, Base, PermissionTypeOK
    <3> QED BY <3>1, <3>2, <3>3 DEF BrokerPicks
  <2> QED BY <2>1, <2>2, <2>3, <2>4, <2>5, <2>6, <2>7
<1>2. OnlyBroker
  BY DEF BrokerBegins, BrokerSeesPending, BrokerReadsAuthority, BrokerRereads, BrokerIntentFails,
         BrokerLeaves, BrokerPicks
<1> QED BY <1>1, <1>2 DEF Base, PermissionTypeOK, OpsFit, At, OnlyBroker, store, world, ghosts

LEMMA BrokerWritesBase ==
  ASSUME Base, BrokerVerifies \/ \E r \in Requests : BrokerReserves(r) \/ BrokerReturns(r)
  PROVE  Base'
<1>0. /\ broker \in Pass /\ broker.request \in SUBSET Requests /\ InteractionsTyped
      /\ Broker \in Resolvers
  BY PermissionAssumption DEF Base, PermissionTypeOK, Pass, InteractionsTyped
<1>1. CASE BrokerVerifies
  <2>1. broker' \in Pass
    <3>1. CASE broker' = [broker EXCEPT !.at = "rereading"]
      BY <1>0, <3>1 DEF Pass
    <3>2. CASE Loops(broker.request)
      BY <1>0, <3>2, LoopsTyped
    <3> QED BY <1>1, <3>1, <3>2 DEF BrokerVerifies
  <2>2. grants' \in [Requests -> Grant]
    BY <1>1, InvalidateTyped DEF BrokerVerifies, Base, PermissionTypeOK
  <2>3. revision' \in 0 .. MaxRevision
    BY <1>1 DEF BrokerVerifies, Base, PermissionTypeOK
  <2>4. mode' \in {"request-approval", "full-access", "suspended"}
    BY <1>1 DEF BrokerVerifies, Base, PermissionTypeOK
  <2> QED BY <1>1, <2>1, <2>2, <2>3, <2>4
          DEF Base, PermissionTypeOK, OpsFit, At, BrokerVerifies, world, ghosts
<1>2. ASSUME NEW r \in Requests, BrokerReserves(r) PROVE Base'
  <2>1. broker' \in Pass
    <3>1. CASE broker' = [broker EXCEPT !.at = "dispatching"]
      BY <1>0, <3>1 DEF Pass
    <3>2. CASE Loops({r})
      BY <3>2, LoopsTyped
    <3> QED BY <1>2, <3>1, <3>2 DEF BrokerReserves
  <2>2. InteractionsTyped'
    BY <1>0, <1>2, ReserveTyped DEF BrokerReserves, InteractionsTyped
  <2>3. intent' \in [Requests -> {"none", "pending", "indeterminate"}]
    BY <1>2 DEF BrokerReserves, Base, PermissionTypeOK
  <2> QED BY <1>2, <2>1, <2>2, <2>3
          DEF Base, PermissionTypeOK, InteractionsTyped, OpsFit, At, BrokerReserves, world, ghosts
<1>3. ASSUME NEW r \in Requests, BrokerReturns(r) PROVE Base'
  <2>1. broker' \in Pass
    BY <1>3, LoopsTyped DEF BrokerReturns
  <2>2. InteractionsTyped'
    BY <1>0, <1>3, AcceptTyped, RollbackTyped DEF BrokerReturns
  <2>3. intent' \in [Requests -> {"none", "pending", "indeterminate"}]
    BY <1>3 DEF BrokerReturns, Base, PermissionTypeOK
  <2>4. told' \in [Requests -> SUBSET Resolvers] /\ lost' \subseteq Requests
    BY <1>0, <1>3, ToldTyped DEF BrokerReturns
  <2> QED BY <1>3, <2>1, <2>2, <2>3, <2>4
          DEF Base, PermissionTypeOK, InteractionsTyped, OpsFit, At, BrokerReturns, WorldOfReply
<1> QED BY <1>1, <1>2, <1>3

(* The world. *)
LEMMA WorldBase ==
  ASSUME Base,
         \/ InvalidatedElsewhere \/ AuthorityChanges \/ Restart
         \/ \E r \in Requests : \/ EngineAsks(r) \/ EngineWithdraws(r) \/ TimePasses(r)
                                \/ \E a \in Resolvers : EngineTakes(a, r)
  PROVE  Base'
<1>1. CASE InvalidatedElsewhere
  BY <1>1, InvalidateTyped, BumpedTyped
     DEF Base, PermissionTypeOK, OpsFit, At, InvalidatedElsewhere, actors, world, ghosts
<1>2. CASE AuthorityChanges
  BY <1>2 DEF Base, PermissionTypeOK, OpsFit, At, AuthorityChanges, store, actors, ghosts
<1>3. CASE Restart
  <2>1. handler' \in [Clients -> Handler] /\ broker' \in Pass /\ OpsFit'
    BY <1>3, IdleTyped DEF Restart, OpsFit, At, Idle
  <2>2. grants' \in [Requests -> Grant]
    <3>1. \A g \in Requests : Interrupted(g) \in Grant
      BY DEF Base, PermissionTypeOK, Grant, Interrupted
    <3> QED BY <1>3, <3>1 DEF Restart
  <2>3. intent' \in [Requests -> {"none", "pending", "indeterminate"}]
    BY <1>3 DEF Restart, Base, PermissionTypeOK, InterruptedIntent
  <2>4. interactions' \in [Requests -> Interaction]
    BY <1>3, ForgottenTyped DEF Restart
  <2> QED BY <1>3, <2>1, <2>2, <2>3, <2>4 DEF Base, PermissionTypeOK, Restart, Free
<1>4. ASSUME NEW r \in Requests, EngineAsks(r) PROVE Base'
  BY <1>4 DEF Base, PermissionTypeOK, OpsFit, At, EngineAsks, store, actors, ghosts
<1>7. ASSUME NEW r \in Requests, EngineWithdraws(r) PROVE Base'
  BY <1>7 DEF Base, PermissionTypeOK, OpsFit, At, EngineWithdraws, store, actors
<1>5. ASSUME NEW r \in Requests, TimePasses(r) PROVE Base'
  <2>1. InteractionsTyped'
    BY <1>5, DeadlineTyped DEF TimePasses, Base, PermissionTypeOK, InteractionsTyped
  <2> QED BY <1>5, <2>1
          DEF Base, PermissionTypeOK, InteractionsTyped, OpsFit, At, TimePasses, store, actors,
              world, ghosts
<1>6. ASSUME NEW r \in Requests, NEW a \in Resolvers, EngineTakes(a, r) PROVE Base'
  <2>1. Reply(a) \in {"none", "pending", "allow_once", "reject", "answer"}
    BY <1>6, PermissionAssumption
       DEF EngineTakes, Dispatching, Reply, Base, OpsFit, Op, Replies
  <2> QED BY <1>6, <2>1
          DEF Base, PermissionTypeOK, OpsFit, At, EngineTakes, store, actors, ghosts
<1> QED BY <1>1, <1>2, <1>3, <1>4, <1>5, <1>6, <1>7

LEMMA NextBase == Base /\ [Next]_permissionVars => Base'
<1>1. ASSUME Base, UNCHANGED permissionVars PROVE Base'
  BY <1>1 DEF Base, PermissionTypeOK, OpsFit, At, permissionVars, store, actors, world, ghosts
<1>2. ASSUME Base, Next PROVE Base'
  BY <1>2, ClientStartsBase, ClientReadsBase, ModesBase, AnswersBase, BrokerReadsBase,
     BrokerWritesBase, WorldBase DEF Next, ClientStep, BrokerStep
<1> QED BY <1>1, <1>2

(* The state of the answers, of the authority and of their actors has its    *)
(* type.                                                                     *)
THEOREM PermissionTypeCorrect == PermissionSpec => []PermissionTypeOK
<1>1. PermissionSpec => []Base
  BY InitBase, NextBase, PTL DEF PermissionSpec
<1> QED BY <1>1, PTL DEF Base

-----------------------------------------------------------------------------
(* The lock of the root: whoever is between its read of what is pending and  *)
(* what it does about that holds it.                                         *)
UnderLock(c) == handler[c].at \in {"arming", "armed"} \/ (At(c, "dispatching") /\ Op(c, "grant"))
LockHeld ==
  /\ broker.at # "away" => lock = {Broker}
  /\ \A c \in Clients : UnderLock(c) => lock = {c}

LEMMA InitLock == Init => LockHeld
BY DEF Init, LockHeld, UnderLock, At, Idle, Away

LEMMA ClientLock ==
  ASSUME Base, LockHeld, NEW c \in Clients, ClientStep(c) \/ ClientStarts(c)
  PROVE  LockHeld'
<1>1. /\ broker' = broker
      /\ \A d \in Clients \ {c} : handler'[d] = handler[d]
  <2>1. handler \in [Clients -> Handler]
    BY DEF Base, PermissionTypeOK
  <2>2. CASE ClientStarts(c)
    BY <2>1, <2>2 DEF ClientStarts, StartEnable, StartClear, StartDowngrade, StartGrant,
                      StartReply, Begins
  <2>3. CASE TakesLock(c) \/ Arms(c) \/ EnableCommits(c) \/ DowngradeCommits(c)
               \/ ClearGrants(c) \/ ReplyBlocked(c)
    BY <2>1, <2>3 DEF TakesLock, Arms, EnableCommits, DowngradeCommits, ClearGrants, ReplyBlocked,
                      Goes, Ends
  <2>4. ASSUME NEW r \in Requests,
               \/ ReplyReads(c, r) \/ ReplyReserves(c, r) \/ AnswerInvalid(c, r)
               \/ ReplyReturns(c, r) \/ GrantReads(c, r) \/ GrantReserves(c, r)
               \/ GrantReturns(c, r)
        PROVE  broker' = broker /\ \A d \in Clients \ {c} : handler'[d] = handler[d]
    BY <2>1, <2>4 DEF ReplyReads, ReplyReserves, AnswerInvalid, ReplyReturns, GrantReads,
                      GrantReserves, GrantReturns, Goes, Ends
  <2> QED BY <2>2, <2>3, <2>4 DEF ClientStep
<1>2. handler[c] \in Handler /\ c \in DOMAIN handler /\ Idle.at = "idle"
  BY DEF Base, PermissionTypeOK, Idle
<1>3. \/ lock' = lock /\ (UnderLock(c)' => UnderLock(c))
      \/ lock = Free /\ lock' = {c}
      \/ lock = {c} /\ lock' = Free /\ ~ UnderLock(c)'
  <2>1. CASE ClientStarts(c)
    <3>1. PICK at, op, subject : /\ Begins(c, at, op, subject)
                                 /\ at \in {"reading", "locking", "narrowing"}
      BY <2>1 DEF ClientStarts, StartEnable, StartClear, StartDowngrade, StartGrant, StartReply
    <3>2. handler'[c].at = at
      BY <1>2, <3>1 DEF Begins, Idle
    <3> QED BY <3>1, <3>2 DEF Begins, UnderLock, At
  <2>2. CASE TakesLock(c)
    BY <2>2 DEF TakesLock
  <2>3. CASE Arms(c)
    BY <1>2, <2>3 DEF Arms, Ends, Unlock, UnderLock, At, Op, LockHeld
  <2>4. CASE EnableCommits(c)
    BY <1>2, <2>4 DEF EnableCommits, Ends, Unlock, UnderLock, At, Op, LockHeld
  <2>5. CASE DowngradeCommits(c) \/ ClearGrants(c) \/ ReplyBlocked(c)
    BY <1>2, <2>5 DEF DowngradeCommits, ClearGrants, ReplyBlocked, Ends, UnderLock, At, Op
  <2>6. ASSUME NEW r \in Requests,
               \/ ReplyReads(c, r) \/ AnswerInvalid(c, r) \/ GrantReads(c, r)
               \/ ReplyReserves(c, r) \/ ReplyReturns(c, r)
        PROVE  lock' = lock /\ (UnderLock(c)' => UnderLock(c))
    <3>1. lock' = lock
      BY <2>6 DEF ReplyReads, AnswerInvalid, GrantReads, ReplyReserves, ReplyReturns
    <3>2. \/ Ends(c) \/ Goes(c, "seen") \/ Goes(c, "locking")
          \/ Goes(c, "dispatching") /\ At(c, "seen")
      BY <2>6 DEF ReplyReads, AnswerInvalid, GrantReads, ReplyReserves, ReplyReturns
    <3>3. CASE Ends(c) \/ Goes(c, "seen") \/ Goes(c, "locking")
      <4>1. handler'[c].at \in {"idle", "seen", "locking"}
        BY <1>2, <3>3 DEF Goes, Ends, Handler
      <4> QED BY <3>1, <4>1 DEF UnderLock, At
    <3>4. CASE Goes(c, "dispatching") /\ At(c, "seen")
      <4>1. handler'[c].at = "dispatching" /\ handler'[c].op = handler[c].op
        BY <1>2, <3>4 DEF Goes, Handler
      <4>2. handler[c].op # "grant"
        BY <3>4 DEF Base, OpsFit, Replies
      <4> QED BY <3>1, <4>1, <4>2 DEF UnderLock, At, Op
    <3> QED BY <3>1, <3>2, <3>3, <3>4
  <2>8. ASSUME NEW r \in Requests, GrantReserves(c, r)
        PROVE  \/ lock' = lock /\ (UnderLock(c)' => UnderLock(c))
               \/ lock = {c} /\ lock' = Free /\ ~ UnderLock(c)'
    BY <1>2, <2>8 DEF GrantReserves, Ends, Unlock, UnderLock, At, Op, LockHeld
  <2>9. ASSUME NEW r \in Requests, GrantReturns(c, r)
        PROVE  lock = {c} /\ lock' = Free /\ ~ UnderLock(c)'
    <3>1. UnderLock(c)
      BY <2>9, PermissionAssumption DEF GrantReturns, Dispatching, UnderLock
    <3> QED BY <1>2, <2>9, <3>1 DEF GrantReturns, Ends, Unlock, UnderLock, At, Op, LockHeld
  <2> QED BY <2>1, <2>2, <2>3, <2>4, <2>5, <2>6, <2>8, <2>9 DEF ClientStep
<1>4. \A d \in Clients \ {c} : UnderLock(d)' <=> UnderLock(d)
  BY <1>1 DEF UnderLock, At, Op
<1> QED BY <1>1, <1>3, <1>4, PermissionAssumption DEF LockHeld, Free

LEMMA BrokerLock ==
  ASSUME Base, LockHeld, BrokerStep
  PROVE  LockHeld'
<1>1. UNCHANGED handler
  BY DEF BrokerStep, BrokerBegins, BrokerSeesPending, BrokerReadsAuthority, BrokerVerifies,
         BrokerRereads, BrokerIntentFails, BrokerLeaves, BrokerPicks, BrokerReserves,
         BrokerReturns, OnlyBroker
<1>2. \/ lock' = lock /\ broker.at # "away"
      \/ lock = Free /\ lock' = {Broker}
      \/ broker.at # "away" /\ lock' = Free /\ broker'.at = "away"
  <2>1. CASE BrokerBegins
    BY <2>1 DEF BrokerBegins
  <2>2. CASE BrokerSeesPending \/ BrokerReadsAuthority \/ BrokerRereads \/ BrokerIntentFails
    BY <2>2 DEF BrokerSeesPending, BrokerReadsAuthority, BrokerRereads, BrokerIntentFails, BrokerIs
  <2>3. CASE BrokerVerifies
    BY <2>3 DEF BrokerVerifies, BrokerIs
  <2>4. CASE BrokerLeaves
    <3>1. broker'.at = "away"
      BY <2>4 DEF BrokerLeaves, Away
    <3> QED BY <2>4, <3>1 DEF BrokerLeaves, BrokerIs, Unlock
  <2>5. ASSUME NEW r \in Requests, BrokerPicks(r) \/ BrokerReserves(r) \/ BrokerReturns(r)
        PROVE  lock' = lock /\ broker.at # "away"
    BY <2>5 DEF BrokerPicks, BrokerReserves, BrokerReturns, BrokerIs, Dispatching
  <2> QED BY <2>1, <2>2, <2>3, <2>4, <2>5 DEF BrokerStep
<1> QED BY <1>1, <1>2, PermissionAssumption DEF LockHeld, UnderLock, At, Op, Free

LEMMA NextLock == Base /\ LockHeld /\ [Next]_permissionVars => LockHeld'
<1> SUFFICES ASSUME Base, LockHeld, [Next]_permissionVars PROVE LockHeld'
  OBVIOUS
<1>1. CASE \E c \in Clients : ClientStarts(c) \/ ClientStep(c)
  BY <1>1, ClientLock
<1>2. CASE BrokerStep
  BY <1>2, BrokerLock
<1>3. CASE Restart
  BY <1>3 DEF Restart, LockHeld, UnderLock, At, Idle, Away
<1>4. CASE UNCHANGED <<handler, broker, lock>>
  BY <1>4 DEF LockHeld, UnderLock, At, Op
<1>5. CASE InvalidatedElsewhere \/ AuthorityChanges \/ UNCHANGED permissionVars
  BY <1>4, <1>5 DEF InvalidatedElsewhere, AuthorityChanges, permissionVars, actors
<1>6. CASE \E r \in Requests : \/ EngineAsks(r) \/ EngineWithdraws(r) \/ TimePasses(r)
                              \/ \E a \in Resolvers : EngineTakes(a, r)
  BY <1>4, <1>6 DEF EngineAsks, EngineWithdraws, TimePasses, EngineTakes, actors
<1> QED BY <1>1, <1>2, <1>3, <1>5, <1>6 DEF Next

-----------------------------------------------------------------------------
(* What a pass of the broker may still approve. *)
Considered == IF broker.at \in {"loop", "verifying", "rereading", "seen", "dispatching"}
              THEN broker.todo \cup broker.request ELSE {}
StillManual ==
  /\ broker.at \in {"snapshot", "ceiling"} => broker.request = {}
  /\ mode = "full-access" /\ ~ activation.cleared =>
       /\ activation.requests \subseteq excluded["activation"]
       /\ Considered \cap activation.requests = {}

LEMMA BrokerConsiders ==
  ASSUME Base, StillManual, BrokerStep
  PROVE  /\ broker'.at \in {"snapshot", "ceiling"} => broker'.request = {}
         /\ \/ Considered' \subseteq Considered
            \/ Considered' \cap excluded["activation"] = {}
         /\ UNCHANGED <<excluded, activation>> /\ mode' \in {mode, "suspended"}
<1>0. broker \in Pass
  BY DEF Base, PermissionTypeOK
<1>1. CASE BrokerBegins
  <2>1. broker'.at = "snapshot" /\ broker'.request = {}
    BY <1>1 DEF BrokerBegins, Away
  <2> QED BY <1>1, <2>1 DEF BrokerBegins, OnlyBroker, store, world, ghosts, Considered
<1>2. CASE BrokerSeesPending
  <2>1. broker'.at = "ceiling" /\ broker'.request = broker.request
    BY <1>0, <1>2 DEF BrokerSeesPending, Pass
  <2> QED BY <1>2, <2>1
          DEF BrokerSeesPending, BrokerIs, StillManual, OnlyBroker, store, world, ghosts, Considered
<1>3. CASE BrokerReadsAuthority
  <2>1. /\ broker'.at = "loop" /\ broker'.request = broker.request
        /\ broker'.todo \cap excluded["activation"] = {}
    BY <1>0, <1>3 DEF BrokerReadsAuthority, Pass
  <2> QED BY <1>3, <2>1
          DEF BrokerReadsAuthority, BrokerIs, StillManual, OnlyBroker, store, world, ghosts, Considered
<1>4. ASSUME NEW dropped, Loops(dropped),
             broker.at \in {"loop", "verifying", "rereading", "seen", "dispatching"}
      PROVE  broker'.at = "loop" /\ Considered' \subseteq Considered
  <2>1. broker'.at = "loop" /\ broker'.request = {} /\ broker'.todo \subseteq broker.todo
    BY <1>0, <1>4 DEF Loops, Pass
  <2> QED BY <1>4, <2>1 DEF Considered
<1>5. ASSUME NEW to \in {"verifying", "rereading", "seen", "dispatching"},
             broker' = [broker EXCEPT !.at = to],
             broker.at \in {"loop", "verifying", "rereading", "seen", "dispatching"}
      PROVE  broker'.at = to /\ Considered' \subseteq Considered
  <2>1. broker'.at = to /\ broker'.request = broker.request /\ broker'.todo = broker.todo
    BY <1>0, <1>5 DEF Pass
  <2> QED BY <1>5, <2>1 DEF Considered
<1>6. CASE BrokerVerifies \/ BrokerRereads \/ BrokerIntentFails
  <2>1. broker'.at \in {"loop", "rereading", "seen"} /\ Considered' \subseteq Considered
    BY <1>4, <1>5, <1>6 DEF BrokerVerifies, BrokerRereads, BrokerIntentFails, BrokerIs
  <2>2. UNCHANGED <<excluded, activation>> /\ mode' \in {mode, "suspended"}
    BY <1>6 DEF BrokerVerifies, BrokerRereads, BrokerIntentFails, OnlyBroker, store, world, ghosts
  <2> QED BY <2>1, <2>2
<1>7. CASE BrokerLeaves
  <2>1. broker'.at = "away"
    BY <1>7 DEF BrokerLeaves, Away
  <2> QED BY <1>7, <2>1 DEF BrokerLeaves, OnlyBroker, store, world, ghosts, Considered
<1>8. ASSUME NEW r \in Requests, BrokerPicks(r)
      PROVE  broker'.at \in {"loop", "verifying"} /\ Considered' \subseteq Considered
  <2>1. CASE Loops({r})
    BY <1>4, <1>8, <2>1 DEF BrokerPicks, BrokerIs
  <2>2. CASE broker' = [broker EXCEPT !.at = "verifying", !.request = {r}]
    <3>1. broker'.at = "verifying" /\ broker'.request = {r} /\ broker'.todo = broker.todo
      BY <1>0, <2>2 DEF Pass
    <3> QED BY <1>8, <3>1 DEF BrokerPicks, BrokerIs, Considered
  <2> QED BY <1>8, <2>1, <2>2 DEF BrokerPicks
<1>9. ASSUME NEW r \in Requests, BrokerReserves(r) \/ BrokerReturns(r)
      PROVE  broker'.at \in {"loop", "dispatching"} /\ Considered' \subseteq Considered
  BY <1>4, <1>5, <1>9 DEF BrokerReserves, BrokerReturns, BrokerIs, Dispatching
<1>10. ASSUME NEW r \in Requests, BrokerPicks(r) \/ BrokerReserves(r) \/ BrokerReturns(r)
       PROVE  UNCHANGED <<excluded, activation, mode>>
  BY <1>10 DEF BrokerPicks, BrokerReserves, BrokerReturns, OnlyBroker, store, world, ghosts,
               WorldOfReply
<1> QED BY <1>1, <1>2, <1>3, <1>6, <1>7, <1>8, <1>9, <1>10 DEF BrokerStep

LEMMA NextManual == Base /\ LockHeld /\ StillManual /\ [Next]_permissionVars => StillManual'
<1> SUFFICES ASSUME Base, LockHeld, StillManual, [Next]_permissionVars PROVE StillManual'
  OBVIOUS
<1>1. CASE UNCHANGED <<mode, activation, excluded, broker>>
  BY <1>1 DEF StillManual, Considered
<1>2. ASSUME NEW c \in Clients, EnableCommits(c) PROVE StillManual'
  <2>1. broker.at = "away" /\ UNCHANGED broker
    BY <1>2, PermissionAssumption DEF EnableCommits, LockHeld, UnderLock, At
  <2>2. CASE UNCHANGED <<mode, activation, excluded>>
    BY <1>1, <2>1, <2>2
  <2>3. CASE /\ excluded' = [excluded EXCEPT !["activation"] = handler[c].boundary]
             /\ activation' = [requests |-> handler[c].boundary, cleared |-> FALSE]
    <3>1. excluded'["activation"] = handler[c].boundary
      BY <2>3 DEF Base, PermissionTypeOK
    <3> QED BY <2>1, <2>3, <3>1 DEF StillManual, Considered
  <2> QED BY <1>2, <2>2, <2>3 DEF EnableCommits
<1>3. ASSUME NEW c \in Clients, DowngradeCommits(c) \/ ClearGrants(c) PROVE StillManual'
  <2>1. CASE UNCHANGED <<mode, activation, excluded>>
    BY <1>1, <1>3, <2>1 DEF DowngradeCommits, ClearGrants
  <2>2. CASE mode' = "request-approval" \/ activation' = [activation EXCEPT !.cleared = TRUE]
    <3>1. mode' = "request-approval" \/ activation'.cleared
      BY <2>2 DEF Base, PermissionTypeOK
    <3> QED BY <1>3, <3>1 DEF StillManual, DowngradeCommits, ClearGrants
  <2> QED BY <1>3, <2>1, <2>2 DEF DowngradeCommits, ClearGrants
<1>4. ASSUME NEW c \in Clients, NEW r \in Requests, GrantReserves(c, r) PROVE StillManual'
  <2>1. excluded'["activation"] = excluded["activation"]
    BY <1>4 DEF GrantReserves, Base, PermissionTypeOK
  <2> QED BY <1>4, <2>1 DEF GrantReserves, world, ghosts, StillManual, Considered
<1>5. ASSUME NEW c \in Clients,
             \/ ClientStarts(c) \/ TakesLock(c) \/ Arms(c) \/ ReplyBlocked(c)
             \/ \E r \in Requests :
                  \/ ReplyReads(c, r) \/ ReplyReserves(c, r) \/ AnswerInvalid(c, r)
                  \/ ReplyReturns(c, r) \/ GrantReads(c, r) \/ GrantReturns(c, r)
      PROVE  StillManual'
  <2>1. UNCHANGED <<mode, activation, excluded, broker>>
    BY <1>5 DEF ClientStarts, StartEnable, StartClear, StartDowngrade, StartGrant, StartReply,
                Begins, TakesLock, Arms, ReplyBlocked, ReplyReads, ReplyReserves, AnswerInvalid,
                ReplyReturns, GrantReads, GrantReturns, store, world, ghosts, WorldOfReply
  <2> QED BY <1>1, <2>1
<1>6. CASE BrokerStep
  BY <1>6, BrokerConsiders DEF StillManual
<1>7. CASE Restart
  BY <1>7 DEF Restart, StillManual, Considered, Away
<1>8. CASE \/ InvalidatedElsewhere \/ AuthorityChanges \/ UNCHANGED permissionVars
           \/ \E r \in Requests : \/ EngineAsks(r) \/ EngineWithdraws(r) \/ TimePasses(r)
                                  \/ \E a \in Resolvers : EngineTakes(a, r)
  BY <1>1, <1>8 DEF InvalidatedElsewhere, AuthorityChanges, permissionVars, EngineAsks,
                    EngineWithdraws, TimePasses,
                    EngineTakes, actors, store, world, ghosts
<1> QED BY <1>2, <1>3, <1>4, <1>5, <1>6, <1>7, <1>8 DEF Next, ClientStep

LEMMA ManualStays ==
  ASSUME Base, StillManual
  PROVE  ManualStaysManual
<1>1. \A r \in Requests : Dispatching(Broker, r) => r \in Considered
  BY DEF Dispatching, Considered
<1>2. activation.requests \subseteq Requests
  BY DEF Base, PermissionTypeOK
<1> QED BY <1>1, <1>2 DEF StillManual, ManualStaysManual

(* What was pending when Full access was enabled is never approved by the    *)
(* broker while that lasts and the grants are not cleared.                   *)
THEOREM ManualIsManual == PermissionSpec => []ManualStaysManual
<1>1. Init => Base /\ LockHeld /\ StillManual
  <2>1. Init => StillManual
    BY DEF Init, StillManual, Considered, Away
  <2> QED BY <2>1, InitBase, InitLock
<1>2. PermissionSpec => [](Base /\ LockHeld /\ StillManual)
  BY <1>1, NextBase, NextLock, NextManual, PTL DEF PermissionSpec
<1>3. Base /\ LockHeld /\ StillManual => ManualStaysManual
  BY ManualStays
<1> QED BY <1>2, <1>3, PTL

-----------------------------------------------------------------------------
(* What the broker has on disk of its replies. *)
CutOff ==
  \A r \in cut : /\ intent[r] = "indeterminate"
                 /\ broker.request = {r} =>
                      broker.at \notin {"verifying", "rereading", "seen", "dispatching"}
Recorded == /\ \A r \in Requests : Dispatching(Broker, r) => intent[r] = "pending"
            /\ CutOff

LEMMA InitRecorded == Init => Recorded
BY DEF Init, Recorded, CutOff, Dispatching, Away

LEMMA NextRecorded == Base /\ Recorded /\ [Next]_permissionVars => Recorded' /\ cut \subseteq cut'
<1> SUFFICES ASSUME Base, Recorded, [Next]_permissionVars PROVE Recorded' /\ cut \subseteq cut'
  OBVIOUS
<1>0. broker \in Pass /\ cut \subseteq Requests
  BY DEF Base, PermissionTypeOK
<1>1. CASE UNCHANGED <<broker, intent, cut>>
  BY <1>1 DEF Recorded, CutOff, Dispatching
<1>2. ASSUME NEW c \in Clients, ClientStarts(c) \/ ClientStep(c)
      PROVE  UNCHANGED <<broker, intent, cut>>
  <2>1. CASE ClientStarts(c)
    BY <2>1 DEF ClientStarts, StartEnable, StartClear, StartDowngrade, StartGrant, StartReply,
                Begins, store, world, ghosts
  <2>2. CASE \/ TakesLock(c) \/ Arms(c) \/ EnableCommits(c) \/ DowngradeCommits(c)
             \/ ClearGrants(c) \/ ReplyBlocked(c)
    BY <2>2 DEF TakesLock, Arms, EnableCommits, DowngradeCommits, ClearGrants, ReplyBlocked,
                store, world, ghosts
  <2>3. ASSUME NEW r \in Requests,
               \/ ReplyReads(c, r) \/ ReplyReserves(c, r) \/ AnswerInvalid(c, r)
               \/ ReplyReturns(c, r) \/ GrantReads(c, r) \/ GrantReserves(c, r)
               \/ GrantReturns(c, r)
        PROVE  UNCHANGED <<broker, intent, cut>>
    BY <2>3 DEF ReplyReads, ReplyReserves, AnswerInvalid, ReplyReturns, GrantReads,
                GrantReserves, GrantReturns, store, world, ghosts, WorldOfReply
  <2> QED BY <1>2, <2>1, <2>2, <2>3 DEF ClientStep
<1>3. \A dropped : Loops(dropped) => broker'.at = "loop"
  BY <1>0 DEF Loops, Pass
<1>4. CASE \/ BrokerBegins \/ BrokerSeesPending \/ BrokerReadsAuthority \/ BrokerVerifies
           \/ BrokerRereads \/ BrokerIntentFails \/ BrokerLeaves
  <2>1. UNCHANGED <<intent, cut>>
    BY <1>4 DEF BrokerBegins, BrokerSeesPending, BrokerReadsAuthority, BrokerVerifies,
                BrokerRereads, BrokerIntentFails, BrokerLeaves, OnlyBroker, store, world, ghosts
  <2>2. \/ broker'.at \in {"away", "snapshot", "ceiling", "loop"}
        \/ /\ broker'.request = broker.request /\ broker'.at \in {"rereading", "seen"}
           /\ broker.at \in {"verifying", "rereading"}
    <3>1. CASE BrokerBegins \/ BrokerLeaves
      <4>1. CASE BrokerBegins
        <5>1. broker'.at = "snapshot"
          BY <4>1 DEF BrokerBegins, Away
        <5> QED BY <5>1
      <4>2. CASE BrokerLeaves
        BY <4>2 DEF BrokerLeaves, Away
      <4> QED BY <3>1, <4>1, <4>2
    <3>2. CASE BrokerSeesPending \/ BrokerReadsAuthority
      BY <1>0, <3>2 DEF BrokerSeesPending, BrokerReadsAuthority, Pass
    <3>3. CASE BrokerVerifies
      BY <1>0, <1>3, <3>3 DEF BrokerVerifies, BrokerIs, Pass
    <3>4. CASE BrokerRereads
      BY <1>0, <1>3, <3>4 DEF BrokerRereads, BrokerIs, Pass
    <3>5. CASE BrokerIntentFails
      BY <1>3, <3>5 DEF BrokerIntentFails
    <3> QED BY <1>4, <3>1, <3>2, <3>3, <3>4, <3>5
  <2> QED BY <2>1, <2>2 DEF Recorded, CutOff, Dispatching
<1>5. ASSUME NEW r \in Requests, BrokerPicks(r) PROVE Recorded' /\ cut \subseteq cut'
  <2>1. UNCHANGED <<intent, cut>>
    BY <1>5 DEF BrokerPicks, OnlyBroker, store, world, ghosts
  <2>2. \/ broker'.at = "loop"
        \/ broker'.at = "verifying" /\ broker'.request = {r} /\ intent[r] = "none"
    BY <1>0, <1>3, <1>5 DEF BrokerPicks, Pass
  <2> QED BY <2>1, <2>2 DEF Recorded, CutOff, Dispatching
<1>6. ASSUME NEW r \in Requests, BrokerReserves(r) PROVE Recorded' /\ cut \subseteq cut'
  <2>1. r \notin cut /\ UNCHANGED cut /\ intent \in [Requests -> {"none", "pending", "indeterminate"}]
    BY <1>6 DEF BrokerReserves, BrokerIs, Recorded, CutOff, world, ghosts, Base, PermissionTypeOK
  <2>2. CASE intent' = [intent EXCEPT ![r] = "pending"] /\ broker' = [broker EXCEPT !.at = "dispatching"]
    <3>1. broker'.at = "dispatching" /\ broker'.request = {r}
      BY <1>0, <1>6, <2>2 DEF BrokerReserves, Pass
    <3> QED BY <1>0, <2>1, <2>2, <3>1 DEF Recorded, CutOff, Dispatching
  <2>3. CASE intent' = [intent EXCEPT ![r] = "indeterminate"] /\ Loops({r})
    <3>1. broker'.at = "loop"
      BY <1>3, <2>3
    <3> QED BY <1>0, <2>1, <2>3, <3>1 DEF Recorded, CutOff, Dispatching
  <2> QED BY <1>6, <2>2, <2>3 DEF BrokerReserves
<1>7. ASSUME NEW r \in Requests, BrokerReturns(r) PROVE Recorded' /\ cut \subseteq cut'
  <2>1. /\ r \notin cut /\ UNCHANGED cut /\ broker'.at = "loop"
        /\ intent \in [Requests -> {"none", "pending", "indeterminate"}]
        /\ intent' = [intent EXCEPT ![r] = "none"]
    BY <1>3, <1>7 DEF BrokerReturns, Dispatching, Recorded, CutOff, WorldOfReply, Base,
                      PermissionTypeOK
  <2> QED BY <1>0, <2>1 DEF Recorded, CutOff, Dispatching
<1>8. CASE Restart
  <2>1. broker'.at = "away" /\ cut' = cut \cup {r \in Requests : Dispatching(Broker, r)}
    BY <1>8 DEF Restart, Away
  <2>2. \A r \in cut' : intent'[r] = "indeterminate"
    BY <1>0, <1>8, <2>1 DEF Restart, InterruptedIntent, Recorded, CutOff
  <2> QED BY <2>1, <2>2 DEF Recorded, CutOff, Dispatching
<1>9. CASE \/ InvalidatedElsewhere \/ AuthorityChanges \/ UNCHANGED permissionVars
           \/ \E r \in Requests : \/ EngineAsks(r) \/ EngineWithdraws(r) \/ TimePasses(r)
                                  \/ \E a \in Resolvers : EngineTakes(a, r)
  <2>1. UNCHANGED <<broker, intent, cut>>
    BY <1>9 DEF InvalidatedElsewhere, AuthorityChanges, permissionVars, EngineAsks,
                EngineWithdraws, TimePasses,
                EngineTakes, actors, store, world, ghosts
  <2> QED BY <1>1, <2>1
<1> QED BY <1>1, <1>2, <1>4, <1>5, <1>6, <1>7, <1>8, <1>9 DEF Next, BrokerStep

(* An automatic reply in which the process died is never sent again.         *)
THEOREM NeverBlind == PermissionSpec => NeverAnsweredBlindly
<1>1. PermissionSpec => [](Base /\ Recorded)
  BY InitBase, InitRecorded, NextBase, NextRecorded, PTL DEF PermissionSpec
<1>2. Base /\ Recorded /\ [Next]_permissionVars =>
        [\A r \in cut : Dispatching(Broker, r)' => Dispatching(Broker, r)]_permissionVars
  <2> SUFFICES ASSUME Base, Recorded, [Next]_permissionVars, NEW r \in cut
               PROVE  ~ Dispatching(Broker, r)'
    OBVIOUS
  <2>1. CutOff' /\ r \in cut'
    BY NextRecorded DEF Recorded
  <2> QED BY <2>1 DEF CutOff, Dispatching
<1> QED BY <1>1, <1>2, PTL DEF PermissionSpec, NeverAnsweredBlindly

-----------------------------------------------------------------------------
(* The steps, by what they do to the answers of a request. *)

(* a has read r as pending, and not yet acted on all of it. *)
Seen(a, r) ==
  IF a = Broker THEN broker.request = {r} /\ broker.at \in {"seen", "dispatching"}
  ELSE About(a, r) /\ handler[a].at \in {"seen", "locking", "arming", "armed", "dispatching"}

Follows(a) ==
  \A r \in Requests :
    /\ Dispatching(a, r)' <=> Dispatching(a, r)
    /\ Dispatching(a, r) => Reply(a)' = Reply(a)
    /\ Seen(a, r)' => Seen(a, r) \/ r \in Pending
NoMoreUsable == \A g \in Requests : Usable(g)' => Usable(g)
NoAnswer     == UNCHANGED <<engine, answeredBy, told, lost>>

QuietStep == /\ UNCHANGED interactions /\ NoAnswer /\ NoMoreUsable
             /\ \A a \in Resolvers : Follows(a)
WatchStep(r) == /\ Unresolved(r) /\ ObservePending(r) /\ NoAnswer /\ NoMoreUsable
                /\ \A a \in Resolvers : Follows(a)
TakeStep(a, r) ==
  /\ Seen(a, r) /\ Reserve(a, r) /\ NoAnswer /\ NoMoreUsable
  /\ \A d \in Resolvers \ {a} : Follows(d)
  /\ \A x \in Requests : /\ ~ Dispatching(a, x) /\ (Dispatching(a, x)' <=> x = r)
                         /\ Seen(a, x)' => x = r
ReturnStep(a, r) ==
  /\ Dispatching(a, r)
  /\ (Succeeds(a, r) /\ Accept(a, r)) \/ (Fails(a, r) /\ Rollback(a, r))
  /\ UNCHANGED <<engine, answeredBy>>
  /\ \A d \in Resolvers \ {a} : Follows(d)
  /\ \A x \in Requests : ~ Dispatching(a, x)' /\ ~ Seen(a, x)'
  /\ \A g \in Requests : Usable(g)' =>
       Usable(g) \/ (g = r /\ Succeeds(a, r) /\ Reply(a) = "allow_once")

LEMMA ClientFollows ==
  ASSUME NEW d \in Clients, handler'[d] = handler[d]
  PROVE  Follows(d)
BY PermissionAssumption DEF Follows, Dispatching, Reply, Seen, At, About, Op

LEMMA BrokerFollows ==
  ASSUME broker' = broker
  PROVE  Follows(Broker)
BY DEF Follows, Dispatching, Reply, Seen

(* A client that is not dispatching and does not begin to. *)
LEMMA ClientMoves ==
  ASSUME NEW c \in Clients, ~ At(c, "dispatching"), ~ At(c, "dispatching")',
         \A r \in Requests : Seen(c, r)' => Seen(c, r) \/ r \in Pending
  PROVE  Follows(c)
BY PermissionAssumption DEF Follows, Dispatching

LEMMA BrokerMoves ==
  ASSUME broker.at # "dispatching", broker'.at # "dispatching",
         \A r \in Requests : Seen(Broker, r)' => Seen(Broker, r) \/ r \in Pending
  PROVE  Follows(Broker)
BY DEF Follows, Dispatching

LEMMA NothingUsable ==
  ASSUME Base, \/ grants' = grants \/ ClearGrantsInternal \/ InvalidateGrants
               \/ grants' = [g \in Requests |-> Interrupted(g)]
  PROVE  NoMoreUsable
<1>1. CASE grants' = grants
  BY <1>1 DEF NoMoreUsable, Usable
<1>2. CASE ClearGrantsInternal
  BY <1>2 DEF ClearGrantsInternal, NoMoreUsable, Usable, NoGrant
<1>3. CASE InvalidateGrants
  <2>1. ASSUME NEW g \in Requests, Usable(g)' PROVE Usable(g)
    <3>1. grants'[g] = Invalidated(g) /\ grants[g] \in Grant
      BY <1>3 DEF InvalidateGrants, Base, PermissionTypeOK
    <3> QED BY <2>1, <3>1 DEF Invalidated, Usable, Grant
  <2> QED BY <2>1 DEF NoMoreUsable
<1>4. CASE grants' = [g \in Requests |-> Interrupted(g)]
  <2>1. ASSUME NEW g \in Requests, Usable(g)' PROVE Usable(g)
    <3>1. grants'[g] = Interrupted(g) /\ grants[g] \in Grant
      BY <1>4 DEF Base, PermissionTypeOK
    <3> QED BY <2>1, <3>1 DEF Interrupted, Usable, Grant
  <2> QED BY <2>1 DEF NoMoreUsable
<1> QED BY <1>1, <1>2, <1>3, <1>4

LEMMA QuietClient ==
  ASSUME Base, NEW c \in Clients,
         \/ ClientStarts(c) \/ TakesLock(c) \/ Arms(c) \/ EnableCommits(c) \/ DowngradeCommits(c)
         \/ ClearGrants(c) \/ ReplyBlocked(c)
         \/ \E r \in Requests : ReplyReads(c, r) \/ GrantReads(c, r)
  PROVE  QuietStep
<1>0. handler \in [Clients -> Handler] /\ handler[c] \in Handler
  BY DEF Base, PermissionTypeOK
<1>1. UNCHANGED <<interactions, broker>> /\ NoAnswer
  <2>1. CASE ClientStarts(c)
    BY <2>1 DEF ClientStarts, StartEnable, StartClear, StartDowngrade, StartGrant, StartReply,
                Begins, world, ghosts, NoAnswer
  <2>2. CASE \/ TakesLock(c) \/ Arms(c) \/ EnableCommits(c) \/ DowngradeCommits(c)
             \/ ClearGrants(c) \/ ReplyBlocked(c)
             \/ \E r \in Requests : ReplyReads(c, r) \/ GrantReads(c, r)
    BY <2>2 DEF TakesLock, Arms, EnableCommits, DowngradeCommits, ClearGrants, ReplyBlocked,
                ReplyReads, GrantReads, world, ghosts, NoAnswer
  <2> QED BY <2>1, <2>2
<1>2. NoMoreUsable
  <2>1. grants' = grants \/ ClearGrantsInternal
    BY DEF ClientStarts, StartEnable, StartClear, StartDowngrade, StartGrant, StartReply, Begins,
           TakesLock, Arms, EnableCommits, DowngradeCommits, ClearGrants, ReplyBlocked, ReplyReads,
           GrantReads, store
  <2> QED BY <2>1, NothingUsable
<1>3. \/ \E at \in {"reading", "locking", "narrowing"} : \E op, subject :
           Begins(c, at, op, subject) /\ (at = "locking" => subject = {})
      \/ Ends(c) /\ handler[c].at # "dispatching"
      \/ Goes(c, "arming") /\ At(c, "locking")
      \/ At(c, "arming") /\ \E b : handler' = [handler EXCEPT ![c].at = "armed", ![c].boundary = b]
      \/ \E r \in Requests : /\ At(c, "reading") /\ About(c, r) /\ r \in Pending
                             /\ Goes(c, "seen") \/ Goes(c, "locking")
  <2>1. CASE ClientStarts(c)
    BY <2>1 DEF ClientStarts, StartEnable, StartClear, StartDowngrade, StartGrant, StartReply
  <2>2. CASE TakesLock(c) \/ Arms(c)
    BY <2>2 DEF TakesLock, Arms, At
  <2>3. CASE EnableCommits(c) \/ DowngradeCommits(c) \/ ClearGrants(c) \/ ReplyBlocked(c)
    BY <2>3 DEF EnableCommits, DowngradeCommits, ClearGrants, ReplyBlocked, At
  <2>4. CASE \E r \in Requests : ReplyReads(c, r) \/ GrantReads(c, r)
    BY <2>4 DEF ReplyReads, GrantReads, At
  <2> QED BY <2>1, <2>2, <2>3, <2>4
<1>4. \A d \in Clients \ {c} : handler'[d] = handler[d]
  <2>1. CASE \E at, op, subject : Begins(c, at, op, subject)
    BY <1>0, <2>1 DEF Begins
  <2>2. CASE Ends(c)
    BY <1>0, <2>2 DEF Ends
  <2>3. CASE \E to : Goes(c, to)
    BY <1>0, <2>3 DEF Goes
  <2>4. CASE \E b : handler' = [handler EXCEPT ![c].at = "armed", ![c].boundary = b]
    BY <1>0, <2>4
  <2> QED BY <1>3, <2>1, <2>2, <2>3, <2>4
<1>5. Follows(c)
  <2>1. CASE \E at \in {"reading", "locking", "narrowing"} : \E op, subject :
               Begins(c, at, op, subject) /\ (at = "locking" => subject = {})
    <3>1. PICK at, op, subject : /\ Begins(c, at, op, subject)
                                 /\ at \in {"reading", "locking", "narrowing"}
                                 /\ (at = "locking" => subject = {})
      BY <2>1
    <3>2. handler'[c].at = at /\ handler'[c].request = subject /\ handler[c].at = "idle"
      BY <1>0, <3>1 DEF Begins, Idle, At
    <3> QED BY <3>1, <3>2, ClientMoves, PermissionAssumption DEF Seen, At, About
  <2>2. CASE Ends(c) /\ handler[c].at # "dispatching"
    <3>1. handler'[c].at = "idle"
      BY <1>0, <2>2 DEF Ends, Idle
    <3> QED BY <2>2, <3>1, ClientMoves, PermissionAssumption DEF Seen, At, About
  <2>3. CASE \/ Goes(c, "arming") /\ At(c, "locking")
             \/ At(c, "arming") /\ \E b : handler' = [handler EXCEPT ![c].at = "armed", ![c].boundary = b]
    <3>1. /\ handler'[c].at \in {"arming", "armed"} /\ handler'[c].request = handler[c].request
          /\ handler[c].at \in {"locking", "arming"}
      BY <1>0, <2>3 DEF Goes, At, Handler
    <3> QED BY <3>1, ClientMoves, PermissionAssumption DEF Seen, At, About
  <2>4. CASE \E r \in Requests : /\ At(c, "reading") /\ About(c, r) /\ r \in Pending
                                 /\ Goes(c, "seen") \/ Goes(c, "locking")
    <3>1. /\ handler'[c].at \in {"seen", "locking"} /\ handler'[c].request = handler[c].request
          /\ handler[c].at = "reading" /\ \A r \in Requests : About(c, r) => r \in Pending
      BY <1>0, <2>4 DEF Goes, At, Handler, About
    <3> QED BY <3>1, ClientMoves, PermissionAssumption DEF Seen, At, About
  <2> QED BY <1>3, <2>1, <2>2, <2>3, <2>4
<1>6. \A a \in Resolvers : Follows(a)
  <2>1. \A d \in Clients : Follows(d)
    BY <1>4, <1>5, ClientFollows
  <2>2. Follows(Broker)
    BY <1>1, BrokerFollows
  <2> QED BY <2>1, <2>2, PermissionAssumption
<1> QED BY <1>1, <1>2, <1>6 DEF QuietStep

LEMMA QuietBroker ==
  ASSUME Base,
         \/ BrokerBegins \/ BrokerSeesPending \/ BrokerReadsAuthority \/ BrokerVerifies
         \/ BrokerRereads \/ BrokerIntentFails \/ BrokerLeaves
         \/ \E r \in Requests : BrokerPicks(r)
  PROVE  QuietStep
<1>0. broker \in Pass
  BY DEF Base, PermissionTypeOK
<1>1. UNCHANGED <<interactions, handler>> /\ NoAnswer
  BY DEF BrokerBegins, BrokerSeesPending, BrokerReadsAuthority, BrokerVerifies, BrokerRereads,
         BrokerIntentFails, BrokerLeaves, BrokerPicks, OnlyBroker, world, ghosts, NoAnswer
<1>2. NoMoreUsable
  <2>1. grants' = grants \/ InvalidateGrants
    BY DEF BrokerBegins, BrokerSeesPending, BrokerReadsAuthority, BrokerVerifies, BrokerRereads,
           BrokerIntentFails, BrokerLeaves, BrokerPicks, OnlyBroker, store
  <2> QED BY <2>1, NothingUsable
<1>3. \A dropped : Loops(dropped) => broker'.at = "loop"
  BY <1>0 DEF Loops, Pass
<1>4. broker.at # "dispatching"
  BY DEF BrokerBegins, BrokerSeesPending, BrokerReadsAuthority, BrokerVerifies, BrokerRereads,
         BrokerIntentFails, BrokerLeaves, BrokerPicks, BrokerIs
<1>5. \/ broker'.at \notin {"seen", "dispatching"}
      \/ /\ broker'.at = "seen" /\ broker'.request = broker.request
         /\ broker.request \subseteq Pending
  <2>1. CASE BrokerBegins
    <3>1. broker'.at = "snapshot"
      BY <2>1 DEF BrokerBegins, Away
    <3> QED BY <3>1
  <2>2. CASE BrokerLeaves
    BY <2>2 DEF BrokerLeaves, Away
  <2>3. CASE BrokerSeesPending \/ BrokerReadsAuthority
    BY <1>0, <2>3 DEF BrokerSeesPending, BrokerReadsAuthority, Pass
  <2>4. CASE BrokerVerifies
    BY <1>0, <1>3, <2>4 DEF BrokerVerifies, Pass
  <2>5. CASE BrokerRereads
    BY <1>0, <1>3, <2>5 DEF BrokerRereads, Pass
  <2>6. CASE BrokerIntentFails
    BY <1>3, <2>6 DEF BrokerIntentFails
  <2>7. CASE \E r \in Requests : BrokerPicks(r)
    BY <1>0, <1>3, <2>7 DEF BrokerPicks, Pass
  <2> QED BY <2>1, <2>2, <2>3, <2>4, <2>5, <2>6, <2>7
<1>6. Follows(Broker)
  BY <1>4, <1>5, BrokerMoves DEF Seen
<1>7. \A a \in Resolvers : Follows(a)
  BY <1>1, <1>6, ClientFollows, PermissionAssumption
<1> QED BY <1>1, <1>2, <1>7 DEF QuietStep

LEMMA ReplySteps ==
  ASSUME Base, NEW c \in Clients, NEW r \in Requests
  PROVE  /\ ReplyReserves(c, r) => TakeStep(c, r) \/ QuietStep
         /\ AnswerInvalid(c, r) => WatchStep(r) \/ QuietStep
         /\ ReplyReturns(c, r) => ReturnStep(c, r)
<1>0. /\ handler \in [Clients -> Handler] /\ handler[c] \in Handler
      /\ c \in Resolvers /\ c # Broker
  BY PermissionAssumption DEF Base, PermissionTypeOK
<1>1. ASSUME Ends(c), UNCHANGED broker
      PROVE  /\ \A d \in Resolvers \ {c} : Follows(d)
             /\ \A x \in Requests : ~ Dispatching(c, x)' /\ ~ Seen(c, x)'
             /\ ~ At(c, "dispatching") => \A d \in Resolvers : Follows(d)
  <2>1. \A d \in Clients \ {c} : handler'[d] = handler[d]
    BY <1>0, <1>1 DEF Ends
  <2>2. \A d \in Resolvers \ {c} : Follows(d)
    BY <1>1, <2>1, ClientFollows, BrokerFollows, PermissionAssumption
  <2>3. handler'[c].at = "idle"
    BY <1>0, <1>1 DEF Ends, Idle
  <2>4. \A x \in Requests : ~ Dispatching(c, x)' /\ ~ Seen(c, x)'
    BY <1>0, <2>3 DEF Dispatching, Seen, At
  <2>5. ~ At(c, "dispatching") => Follows(c)
    BY <1>0, <2>3, <2>4, ClientMoves DEF At
  <2> QED BY <2>2, <2>4, <2>5
<1>2. ASSUME ReplyReserves(c, r) PROVE TakeStep(c, r) \/ QuietStep
  <2>1. /\ UNCHANGED broker /\ NoAnswer /\ NoMoreUsable /\ At(c, "seen") /\ About(c, r)
        /\ Seen(c, r) /\ ~ At(c, "dispatching")
    <3>1. UNCHANGED <<broker, grants>> /\ NoAnswer /\ At(c, "seen") /\ About(c, r)
      BY <1>2 DEF ReplyReserves, store, world, ghosts, NoAnswer
    <3> QED BY <1>0, <3>1, NothingUsable DEF At, Seen
  <2>2. CASE Reserve(c, r) /\ Goes(c, "dispatching")
    <3>1. \A d \in Clients \ {c} : handler'[d] = handler[d]
      BY <1>0, <2>2 DEF Goes
    <3>2. \A d \in Resolvers \ {c} : Follows(d)
      BY <2>1, <3>1, ClientFollows, BrokerFollows, PermissionAssumption
    <3>3. handler'[c].at = "dispatching" /\ handler'[c].request = {r}
      BY <1>0, <2>1, <2>2 DEF Goes, About, Handler
    <3>4. \A x \in Requests : /\ ~ Dispatching(c, x) /\ (Dispatching(c, x)' <=> x = r)
                              /\ Seen(c, x)' => x = r
      BY <1>0, <2>1, <3>3 DEF Dispatching, Seen, At, About
    <3> QED BY <2>1, <2>2, <3>2, <3>4 DEF TakeStep
  <2>3. CASE Ends(c) /\ UNCHANGED interactions
    BY <1>1, <2>1, <2>3 DEF QuietStep
  <2> QED BY <1>2, <2>2, <2>3 DEF ReplyReserves
<1>3. ASSUME AnswerInvalid(c, r) PROVE WatchStep(r) \/ QuietStep
  <2>1. UNCHANGED broker /\ NoAnswer /\ NoMoreUsable /\ ~ At(c, "dispatching")
    BY <1>3, NothingUsable DEF AnswerInvalid, store, world, ghosts, NoAnswer, At
  <2>2. \A d \in Resolvers : Follows(d)
    BY <1>1, <1>3, <2>1 DEF AnswerInvalid
  <2> QED BY <1>3, <2>1, <2>2 DEF AnswerInvalid, WatchStep, QuietStep
<1>4. ASSUME ReplyReturns(c, r) PROVE ReturnStep(c, r)
  <2>1. UNCHANGED broker /\ UNCHANGED <<engine, answeredBy>> /\ NoMoreUsable
    BY <1>4, NothingUsable DEF ReplyReturns, store, WorldOfReply
  <2>2. \A g \in Requests : Usable(g)' =>
            Usable(g) \/ (g = r /\ Succeeds(c, r) /\ Reply(c) = "allow_once")
    BY <2>1 DEF NoMoreUsable
  <2>3. /\ Dispatching(c, r) /\ Ends(c)
        /\ (Succeeds(c, r) /\ Accept(c, r)) \/ (Fails(c, r) /\ Rollback(c, r))
    BY <1>4 DEF ReplyReturns
  <2>4. /\ \A d \in Resolvers \ {c} : Follows(d)
        /\ \A x \in Requests : ~ Dispatching(c, x)' /\ ~ Seen(c, x)'
    BY <1>1, <2>1, <2>3
  <2> QED BY <2>1, <2>2, <2>3, <2>4 DEF ReturnStep
<1> QED BY <1>2, <1>3, <1>4

LEMMA GrantSteps ==
  ASSUME Base, NEW c \in Clients, NEW r \in Requests
  PROVE  /\ GrantReserves(c, r) => TakeStep(c, r) \/ QuietStep
         /\ GrantReturns(c, r) => ReturnStep(c, r)
<1>0. /\ handler \in [Clients -> Handler] /\ handler[c] \in Handler
      /\ c \in Resolvers /\ c # Broker /\ grants \in [Requests -> Grant]
  BY PermissionAssumption DEF Base, PermissionTypeOK
<1>1. ASSUME GrantReserves(c, r) PROVE TakeStep(c, r) \/ QuietStep
  <2>1. /\ UNCHANGED broker /\ NoAnswer /\ At(c, "armed") /\ About(c, r)
        /\ Seen(c, r) /\ ~ At(c, "dispatching")
    <3>1. UNCHANGED broker /\ NoAnswer /\ At(c, "armed") /\ About(c, r)
      BY <1>1 DEF GrantReserves, world, ghosts, NoAnswer
    <3> QED BY <1>0, <3>1 DEF At, Seen
  <2>2. NoMoreUsable
    <3>1. \A g \in Requests : g # r => grants'[g] = grants[g]
      BY <1>0, <1>1 DEF GrantReserves
    <3>2. grants'[r].state = "dispatching" \/ grants'[r] = grants[r]
      BY <1>0, <1>1 DEF GrantReserves
    <3> QED BY <3>1, <3>2 DEF NoMoreUsable, Usable
  <2>3. \A d \in Clients \ {c} : handler'[d] = handler[d]
    BY <1>0, <1>1 DEF GrantReserves, Ends
  <2>4. \A d \in Resolvers \ {c} : Follows(d)
    BY <2>1, <2>3, ClientFollows, BrokerFollows, PermissionAssumption
  <2>5. CASE Reserve(c, r) /\ handler' = [handler EXCEPT ![c].at = "dispatching", ![c].boundary = {}]
    <3>1. handler'[c].at = "dispatching" /\ handler'[c].request = {r}
      BY <1>0, <2>1, <2>5 DEF About, Handler
    <3>2. \A x \in Requests : /\ ~ Dispatching(c, x) /\ (Dispatching(c, x)' <=> x = r)
                              /\ Seen(c, x)' => x = r
      BY <1>0, <2>1, <3>1 DEF Dispatching, Seen, At, About
    <3> QED BY <2>1, <2>2, <2>4, <2>5, <3>2 DEF TakeStep
  <2>6. CASE Ends(c) /\ UNCHANGED interactions
    <3>1. handler'[c].at = "idle"
      BY <1>0, <2>6 DEF Ends, Idle
    <3>2. Follows(c)
      BY <1>0, <2>1, <3>1, ClientMoves DEF At, Seen
    <3> QED BY <2>1, <2>2, <2>4, <2>6, <3>2 DEF QuietStep
  <2> QED BY <1>1, <2>5, <2>6 DEF GrantReserves
<1>2. ASSUME GrantReturns(c, r) PROVE ReturnStep(c, r)
  <2>1. UNCHANGED broker /\ UNCHANGED <<engine, answeredBy>> /\ Dispatching(c, r) /\ Ends(c)
    BY <1>2 DEF GrantReturns, WorldOfReply
  <2>2. \A d \in Clients \ {c} : handler'[d] = handler[d]
    BY <1>0, <2>1 DEF Ends
  <2>3. \A d \in Resolvers \ {c} : Follows(d)
    BY <2>1, <2>2, ClientFollows, BrokerFollows, PermissionAssumption
  <2>4. handler'[c].at = "idle"
    BY <1>0, <2>1 DEF Ends, Idle
  <2>5. \A x \in Requests : ~ Dispatching(c, x)' /\ ~ Seen(c, x)'
    BY <1>0, <2>4 DEF Dispatching, Seen, At
  <2>6. Reply(c) = "allow_once"
    BY <1>2 DEF GrantReturns, Reply
  <2>7. CASE Succeeds(c, r) /\ Accept(c, r) /\ TransitionGrant(r, "active")
    <3>1. \A g \in Requests : g # r => grants'[g] = grants[g]
      BY <1>0, <2>7 DEF TransitionGrant
    <3>2. \A g \in Requests : Usable(g)' => Usable(g) \/ g = r
      BY <3>1 DEF Usable
    <3>3. \A g \in Requests : Usable(g)' =>
            Usable(g) \/ (g = r /\ Succeeds(c, r) /\ Reply(c) = "allow_once")
      BY <2>6, <2>7, <3>2
    <3> QED BY <2>1, <2>3, <2>5, <2>7, <3>3 DEF ReturnStep
  <2>8. CASE Fails(c, r) /\ Rollback(c, r) /\ TransitionGrant(r, "failed")
    <3>1. \A g \in Requests : g # r => grants'[g] = grants[g]
      BY <1>0, <2>8 DEF TransitionGrant
    <3>2. grants'[r].state \in {"none", "failed"} \/ grants'[r] = grants[r]
      <4>1. grants[r] \in Grant
        BY <1>0
      <4>2. CASE grants[r].state = "active"
        <5>1. grants'[r] = [grants[r] EXCEPT !.state = "active"]
          BY <1>0, <2>8, <4>2 DEF TransitionGrant
        <5> QED BY <4>1, <4>2, <5>1 DEF Grant
      <4>3. CASE grants[r].state # "active"
        <5>1. \E st \in {"none", "failed"} : grants'[r] = [grants[r] EXCEPT !.state = st]
          BY <1>0, <2>8, <4>3 DEF TransitionGrant
        <5> QED BY <4>1, <5>1 DEF Grant
      <4> QED BY <4>2, <4>3
    <3>3. \A g \in Requests : Usable(g)' => Usable(g)
      BY <3>1, <3>2 DEF Usable
    <3> QED BY <2>1, <2>3, <2>5, <2>8, <3>3 DEF ReturnStep
  <2> QED BY <1>2, <2>7, <2>8 DEF GrantReturns
<1> QED BY <1>1, <1>2

LEMMA BrokerReplySteps ==
  ASSUME Base, NEW r \in Requests
  PROVE  /\ BrokerReserves(r) => TakeStep(Broker, r) \/ QuietStep
         /\ BrokerReturns(r) => ReturnStep(Broker, r)
<1>0. broker \in Pass /\ Broker \in Resolvers
  BY PermissionAssumption DEF Base, PermissionTypeOK
<1>1. \A dropped : Loops(dropped) => broker'.at = "loop"
  BY <1>0 DEF Loops, Pass
<1>2. ASSUME UNCHANGED handler PROVE \A d \in Resolvers \ {Broker} : Follows(d)
  BY <1>2, ClientFollows, PermissionAssumption
<1>3. ASSUME BrokerReserves(r) PROVE TakeStep(Broker, r) \/ QuietStep
  <2>1. /\ UNCHANGED handler /\ NoAnswer /\ NoMoreUsable /\ Seen(Broker, r)
        /\ broker.at = "seen" /\ broker.request = {r}
    BY <1>3, NothingUsable DEF BrokerReserves, BrokerIs, world, ghosts, NoAnswer, Seen
  <2>2. CASE Reserve(Broker, r) /\ broker' = [broker EXCEPT !.at = "dispatching"]
    <3>1. broker'.at = "dispatching" /\ broker'.request = {r}
      BY <1>0, <2>1, <2>2 DEF Pass
    <3>2. \A x \in Requests : /\ ~ Dispatching(Broker, x) /\ (Dispatching(Broker, x)' <=> x = r)
                              /\ Seen(Broker, x)' => x = r
      BY <2>1, <3>1 DEF Dispatching, Seen
    <3> QED BY <1>2, <2>1, <2>2, <3>2 DEF TakeStep
  <2>3. CASE Loops({r}) /\ UNCHANGED interactions
    <3>1. Follows(Broker)
      BY <1>1, <2>1, <2>3, BrokerMoves DEF Seen
    <3> QED BY <1>2, <2>1, <2>3, <3>1 DEF QuietStep
  <2> QED BY <1>3, <2>2, <2>3 DEF BrokerReserves
<1>4. ASSUME BrokerReturns(r) PROVE ReturnStep(Broker, r)
  <2>1. UNCHANGED handler /\ UNCHANGED <<engine, answeredBy>> /\ NoMoreUsable /\ Loops({r})
    BY <1>4, NothingUsable DEF BrokerReturns, WorldOfReply
  <2>2. \A x \in Requests : ~ Dispatching(Broker, x)' /\ ~ Seen(Broker, x)'
    BY <1>1, <2>1 DEF Dispatching, Seen
  <2>3. \A g \in Requests : Usable(g)' =>
            Usable(g) \/ (g = r /\ Succeeds(Broker, r) /\ Reply(Broker) = "allow_once")
    BY <2>1 DEF NoMoreUsable
  <2>4. /\ Dispatching(Broker, r)
        /\ (Succeeds(Broker, r) /\ Accept(Broker, r)) \/ (Fails(Broker, r) /\ Rollback(Broker, r))
    BY <1>4 DEF BrokerReturns
  <2>5. \A d \in Resolvers \ {Broker} : Follows(d)
    BY <1>2, <2>1
  <2> QED BY <2>1, <2>2, <2>3, <2>4, <2>5 DEF ReturnStep
<1> QED BY <1>3, <1>4

(* Every step is one of those, or one of the world's. *)
LEMMA Steps ==
  ASSUME Base, [Next]_permissionVars
  PROVE  \/ QuietStep \/ Restart
         \/ \E r \in Requests : \/ WatchStep(r) \/ EngineAsks(r) \/ EngineWithdraws(r) \/ TimePasses(r)
                                \/ \E a \in Resolvers :
                                     TakeStep(a, r) \/ ReturnStep(a, r) \/ EngineTakes(a, r)
<1>1. CASE UNCHANGED permissionVars
  <2>1. UNCHANGED <<interactions, handler, broker, grants>> /\ NoAnswer
    BY <1>1 DEF permissionVars, store, actors, world, ghosts, NoAnswer
  <2> QED BY <2>1, NothingUsable, ClientFollows, BrokerFollows, PermissionAssumption DEF QuietStep
<1>2. CASE InvalidatedElsewhere \/ AuthorityChanges
  <2>1. UNCHANGED <<interactions, handler, broker>> /\ NoAnswer
    BY <1>2 DEF InvalidatedElsewhere, AuthorityChanges, store, actors, world, ghosts, NoAnswer
  <2>2. grants' = grants \/ InvalidateGrants
    BY <1>2 DEF InvalidatedElsewhere, AuthorityChanges, store
  <2> QED BY <2>1, <2>2, NothingUsable, ClientFollows, BrokerFollows, PermissionAssumption
          DEF QuietStep
<1>3. ASSUME NEW c \in Clients, ClientStarts(c) \/ ClientStep(c)
      PROVE  \/ QuietStep
             \/ \E r \in Requests : WatchStep(r) \/ TakeStep(c, r) \/ ReturnStep(c, r)
  BY <1>3, QuietClient, ReplySteps, GrantSteps DEF ClientStep
<1>4. ASSUME BrokerStep
      PROVE  QuietStep \/ \E r \in Requests : TakeStep(Broker, r) \/ ReturnStep(Broker, r)
  BY <1>4, QuietBroker, BrokerReplySteps DEF BrokerStep
<1> QED BY <1>1, <1>2, <1>3, <1>4, PermissionAssumption DEF Next

-----------------------------------------------------------------------------
(* What the coordinator's calls leave of a record. *)
Reserved(x)  == interactions[x].status = "reserved"
Tombstone(x) == interactions[x].status = "resolved" /\ interactions[x].late = 0
Keeps(x) == IF Reserved(x)
            THEN Reserved(x)' /\ interactions'[x].holder = interactions[x].holder
            ELSE ~ Reserved(x)' /\ (Tombstone(x) => Tombstone(x)')

LEMMA StatusOf ==
  ASSUME NEW x \in Requests
  PROVE  (Reserved(x) => Status(x) = "reserved") /\ (Tombstone(x) => Status(x) = "resolved")
BY DEF Reserved, Tombstone, Status

LEMMA EvictionsFit ==
  ASSUME NEW r \in Requests, NEW gone \in Evictions(r), NEW x \in gone
  PROVE  x \in Requests /\ ~ Reserved(x) /\ ~ Tombstone(x) /\ (x = r => gone = {r})
<1>1. CASE gone = {r} /\ AtTheLimit(r)
  BY <1>1, StatusOf DEF AtTheLimit
<1>2. CASE \E y \in Others(r, {"pending"}) : gone = {y}
  <2>1. PICK y \in Others(r, {"pending"}) : gone = {y}
    BY <1>2
  <2>2. x = y /\ y \in Requests /\ y # r /\ Status(y) = "pending"
    BY <2>1 DEF Others
  <2> QED BY <2>1, <2>2, StatusOf
<1>3. \/ gone = {r} /\ AtTheLimit(r)
      \/ \E y \in Others(r, {"pending"}) : gone = {y}
  <2>1. AtTheLimit(r)
    BY DEF Evictions
  <2>2. CASE Others(r, {"pending"}) = {}
    BY <2>1, <2>2 DEF Evictions
  <2>3. CASE Others(r, {"pending"}) # {}
    BY <2>1, <2>3 DEF Evictions
  <2> QED BY <2>2, <2>3
<1> QED BY <1>1, <1>2, <1>3

LEMMA ReserveKeeps ==
  ASSUME InteractionsTyped, NEW a \in Resolvers, NEW r \in Requests, Reserve(a, r)
  PROVE  /\ ~ Reserved(r) /\ ~ Tombstone(r)
         /\ Reserved(r)' /\ interactions'[r].holder = {a}
         /\ \A x \in Requests \ {r} : Keeps(x)
<1>1. PICK gone \in Evictions(r) :
        interactions' = [x \in Requests |->
         IF x \in gone THEN Forgotten
         ELSE IF x = r THEN [Observed(r) EXCEPT !.status = "reserved", !.holder = {a}]
         ELSE interactions[x]]
  BY DEF Reserve
<1>2. r \notin gone
  BY EvictionsFit DEF Reserve, Reservable
<1>3. ~ Reserved(r) /\ ~ Tombstone(r)
  BY StatusOf DEF Reserve, Reservable, Unresolved
<1>4. Reserved(r)' /\ interactions'[r].holder = {a}
  <2>1. interactions'[r] = [Observed(r) EXCEPT !.status = "reserved", !.holder = {a}]
    BY <1>1, <1>2
  <2>2. Observed(r) \in Interaction
    BY ObservedTyped
  <2> QED BY <2>1, <2>2 DEF Interaction, Reserved
<1>5. ASSUME NEW x \in Requests \ {r} PROVE Keeps(x)
  <2>1. CASE x \in gone
    <3>1. interactions'[x] = Forgotten
      BY <1>1, <2>1
    <3> QED BY <2>1, <3>1, EvictionsFit DEF Keeps, Reserved, Forgotten
  <2>2. CASE x \notin gone
    <3>1. interactions'[x] = interactions[x]
      BY <1>1, <2>2
    <3> QED BY <3>1 DEF Keeps, Reserved, Tombstone
  <2> QED BY <2>1, <2>2
<1> QED BY <1>3, <1>4, <1>5

LEMMA ObserveKeeps ==
  ASSUME NEW r \in Requests, ObservePending(r)
  PROVE  \A x \in Requests : Keeps(x)
<1>1. PICK gone \in Evictions(r) :
        interactions' = [x \in Requests |->
          IF x \in gone THEN Forgotten ELSE IF x = r THEN Observed(r) ELSE interactions[x]]
  BY DEF ObservePending
<1>2. ASSUME NEW x \in Requests PROVE Keeps(x)
  <2>1. CASE x \in gone
    <3>1. interactions'[x] = Forgotten
      BY <1>1, <2>1
    <3> QED BY <2>1, <3>1, EvictionsFit DEF Keeps, Reserved, Forgotten
  <2>2. CASE x \notin gone /\ x = r
    <3>1. interactions'[x] = Observed(r)
      BY <1>1, <2>2
    <3>2. CASE Status(r) = "absent"
      <4>1. ~ Reserved(r) /\ ~ Tombstone(r)
        BY <3>2, StatusOf
      <4>2. interactions'[r].status = "pending"
        BY <2>2, <3>1, <3>2 DEF Observed
      <4> QED BY <2>2, <4>1, <4>2 DEF Keeps, Reserved
    <3>3. CASE Status(r) # "absent"
      <4>1. interactions'[x] = interactions[x]
        BY <2>2, <3>1, <3>3 DEF Observed
      <4> QED BY <4>1 DEF Keeps, Reserved, Tombstone
    <3> QED BY <3>2, <3>3
  <2>3. CASE x \notin gone /\ x # r
    <3>1. interactions'[x] = interactions[x]
      BY <1>1, <2>3
    <3> QED BY <3>1 DEF Keeps, Reserved, Tombstone
  <2> QED BY <2>1, <2>2, <2>3
<1> QED BY <1>2

LEMMA SettleKeeps ==
  ASSUME InteractionsTyped, NEW a \in Resolvers, NEW r \in Requests, Holder(a, r)
  PROVE  /\ Accept(a, r) => Tombstone(r)' /\ ~ Reserved(r)'
         /\ Rollback(a, r) => ~ Reserved(r)'
         /\ Accept(a, r) \/ Rollback(a, r) => \A x \in Requests \ {r} : Keeps(x)
<1>1. ASSUME Accept(a, r)
      PROVE  Tombstone(r)' /\ ~ Reserved(r)' /\ \A x \in Requests \ {r} : Keeps(x)
  <2>1. interactions'[r] = [status |-> "resolved", late |-> 0, holder |-> {a}]
    BY <1>1 DEF Accept, InteractionsTyped
  <2>2. \A x \in Requests \ {r} : interactions'[x] = interactions[x]
    BY <1>1 DEF Accept, InteractionsTyped
  <2> QED BY <2>1, <2>2 DEF Keeps, Reserved, Tombstone
<1>2. ASSUME Rollback(a, r)
      PROVE  ~ Reserved(r)' /\ \A x \in Requests \ {r} : Keeps(x)
  <2>1. interactions'[r].status = "pending"
    <3>1. interactions' = [interactions EXCEPT ![r] =
            [interactions[r] EXCEPT !.status = "pending", !.holder = {}]]
      BY <1>2 DEF Rollback
    <3>2. interactions'[r] = [interactions[r] EXCEPT !.status = "pending", !.holder = {}]
      BY <3>1 DEF InteractionsTyped
    <3>3. interactions[r] \in Interaction
      BY DEF InteractionsTyped
    <3> QED BY <3>2, <3>3 DEF Interaction
  <2>2. \A x \in Requests \ {r} : interactions'[x] = interactions[x]
    BY <1>2 DEF Rollback, InteractionsTyped
  <2> QED BY <2>1, <2>2 DEF Keeps, Reserved, Tombstone
<1> QED BY <1>1, <1>2

LEMMA DeadlineKeeps ==
  ASSUME InteractionsTyped, NEW r \in Requests, DeadlinePasses(r)
  PROVE  /\ \A x \in Requests \ {r} : Keeps(x)
         /\ ~ Tombstone(r) => Keeps(r)
         /\ IF Reserved(r) THEN Reserved(r)' /\ interactions'[r].holder = interactions[r].holder
                           ELSE ~ Reserved(r)'
<1>1. interactions'[r] = Later(interactions[r]) /\ interactions[r] \in Interaction
  BY DEF DeadlinePasses, InteractionsTyped
<1>2. \A x \in Requests \ {r} : interactions'[x] = interactions[x]
  BY DEF DeadlinePasses, InteractionsTyped
<1>3. IF Reserved(r) THEN Reserved(r)' /\ interactions'[r].holder = interactions[r].holder
                     ELSE ~ Reserved(r)'
  <2>1. CASE interactions[r].late = 1 /\ interactions[r].status # "reserved"
    BY <1>1, <2>1 DEF Later, Reserved, Forgotten
  <2>2. CASE ~ (interactions[r].late = 1 /\ interactions[r].status # "reserved")
    <3>1. /\ interactions'[r].status = interactions[r].status
          /\ interactions'[r].holder = interactions[r].holder
      BY <1>1, <2>2 DEF Later, Interaction
    <3> QED BY <3>1 DEF Reserved
  <2> QED BY <2>1, <2>2
<1> QED BY <1>2, <1>3 DEF Keeps, Reserved, Tombstone

-----------------------------------------------------------------------------
(* A request is reserved by who is dispatching a reply to it. *)
AgreeAt(r) == /\ \A a \in Resolvers : Dispatching(a, r) <=> Holder(a, r)
              /\ Reserved(r) => \E a \in Resolvers : interactions[r].holder = {a}
Agree == \A r \in Requests : AgreeAt(r)

LEMMA InitAgree == Init => Agree
<1> SUFFICES ASSUME Init, NEW r \in Requests PROVE AgreeAt(r)
  BY DEF Agree
<1>1. ~ Reserved(r) /\ \A a \in Resolvers : ~ Holder(a, r)
  BY DEF Init, InteractionsInit, Forgotten, Reserved, Holder
<1>2. \A a \in Resolvers : ~ Dispatching(a, r)
  BY PermissionAssumption DEF Init, Dispatching, At, Idle, Away
<1> QED BY <1>1, <1>2 DEF AgreeAt

LEMMA KeptAgrees ==
  ASSUME Agree, NEW x \in Requests, Keeps(x),
         \A a \in Resolvers : Dispatching(a, x)' <=> Dispatching(a, x)
  PROVE  AgreeAt(x)'
<1>1. AgreeAt(x)
  BY DEF Agree
<1>2. CASE Reserved(x)
  BY <1>1, <1>2 DEF AgreeAt, Keeps, Reserved, Holder
<1>3. CASE ~ Reserved(x)
  BY <1>1, <1>3 DEF AgreeAt, Keeps, Reserved, Holder
<1> QED BY <1>2, <1>3

LEMMA SameKeeps ==
  ASSUME UNCHANGED interactions
  PROVE  \A x \in Requests : Keeps(x)
BY DEF Keeps, Reserved, Tombstone

(* One reply at a time, of one actor to one request. *)
LEMMA OneReply ==
  ASSUME Agree, NEW a \in Resolvers, NEW r \in Requests, Dispatching(a, r)
  PROVE  /\ Holder(a, r) /\ interactions[r].holder = {a}
         /\ \A d \in Resolvers : Dispatching(d, r) => d = a
         /\ \A x \in Requests : Dispatching(a, x) => x = r
<1>1. AgreeAt(r)
  BY DEF Agree
<1>2. Holder(a, r) /\ interactions[r].holder = {a}
  BY <1>1 DEF AgreeAt, Reserved, Holder
<1>3. \A d \in Resolvers : Dispatching(d, r) => d = a
  BY <1>1, <1>2 DEF AgreeAt, Holder
<1>4. \A x \in Requests : Dispatching(a, x) => x = r
  BY DEF Dispatching, About
<1> QED BY <1>2, <1>3, <1>4

LEMMA NextAgree == Base /\ Agree /\ [Next]_permissionVars => Agree'
<1> SUFFICES ASSUME Base, Agree, [Next]_permissionVars, NEW x \in Requests PROVE AgreeAt(x)'
  BY DEF Agree
<1>0. InteractionsTyped
  BY DEF Base, PermissionTypeOK, InteractionsTyped
<1>1. CASE QuietStep
  BY <1>1, SameKeeps, KeptAgrees DEF QuietStep, Follows
<1>2. CASE Restart
  <2>1. ~ Reserved(x)' /\ \A a \in Resolvers : ~ Holder(a, x)'
    BY <1>2 DEF Restart, Forgotten, Reserved, Holder
  <2>2. \A a \in Resolvers : ~ Dispatching(a, x)'
    BY <1>2, PermissionAssumption DEF Restart, Dispatching, At, Idle, Away
  <2> QED BY <2>1, <2>2 DEF AgreeAt
<1>3. ASSUME NEW r \in Requests, WatchStep(r) PROVE AgreeAt(x)'
  BY <1>3, ObserveKeeps, KeptAgrees DEF WatchStep, Follows
<1>4. ASSUME NEW r \in Requests,
             EngineAsks(r) \/ EngineWithdraws(r) \/ \E a \in Resolvers : EngineTakes(a, r)
      PROVE  AgreeAt(x)'
  <2>1. UNCHANGED <<interactions, handler, broker>>
    BY <1>4 DEF EngineAsks, EngineWithdraws, EngineTakes, actors
  <2>2. \A a \in Resolvers : Dispatching(a, x)' <=> Dispatching(a, x)
    BY <2>1 DEF Dispatching, At, About
  <2> QED BY <2>1, <2>2, SameKeeps, KeptAgrees
<1>5. ASSUME NEW r \in Requests, TimePasses(r) PROVE AgreeAt(x)'
  <2>1. UNCHANGED <<handler, broker>> /\ DeadlinePasses(r)
    BY <1>5 DEF TimePasses, actors
  <2>2. \A a \in Resolvers : Dispatching(a, x)' <=> Dispatching(a, x)
    BY <2>1 DEF Dispatching, At, About
  <2>3. CASE x # r
    BY <1>0, <2>1, <2>2, <2>3, DeadlineKeeps, KeptAgrees
  <2>4. CASE x = r /\ Reserved(r)
    <3>1. Reserved(r)' /\ interactions'[r].holder = interactions[r].holder
      BY <1>0, <2>1, <2>4, DeadlineKeeps
    <3> QED BY <2>2, <2>4, <3>1 DEF Agree, AgreeAt, Reserved, Holder
  <2>5. CASE x = r /\ ~ Reserved(r)
    <3>1. ~ Reserved(r)'
      BY <1>0, <2>1, <2>5, DeadlineKeeps
    <3> QED BY <2>2, <2>5, <3>1 DEF Agree, AgreeAt, Reserved, Holder
  <2> QED BY <2>3, <2>4, <2>5
<1>6. ASSUME NEW r \in Requests, NEW a \in Resolvers, TakeStep(a, r) PROVE AgreeAt(x)'
  <2>1. Reserve(a, r)
    BY <1>6 DEF TakeStep
  <2>2. CASE x # r
    <3>1. \A d \in Resolvers : Dispatching(d, x)' <=> Dispatching(d, x)
      BY <1>6, <2>2 DEF TakeStep, Follows
    <3> QED BY <1>0, <2>1, <2>2, <3>1, ReserveKeeps, KeptAgrees
  <2>3. CASE x = r
    <3>1. ~ Reserved(r) /\ Reserved(r)' /\ interactions'[r].holder = {a}
      BY <1>0, <2>1, ReserveKeeps
    <3>2. \A d \in Resolvers : ~ Dispatching(d, r)
      BY <3>1 DEF Agree, AgreeAt, Holder, Reserved
    <3>3. \A d \in Resolvers : Dispatching(d, r)' <=> d = a
      BY <1>6, <3>2 DEF TakeStep, Follows
    <3>4. \A d \in Resolvers : Holder(d, r)' <=> d = a
      BY <3>1 DEF Holder, Reserved
    <3> QED BY <2>3, <3>1, <3>3, <3>4 DEF AgreeAt
  <2> QED BY <2>2, <2>3
<1>7. ASSUME NEW r \in Requests, NEW a \in Resolvers, ReturnStep(a, r) PROVE AgreeAt(x)'
  <2>1. Dispatching(a, r) /\ (Accept(a, r) \/ Rollback(a, r))
    BY <1>7 DEF ReturnStep
  <2>2. Holder(a, r) /\ \A d \in Resolvers : Dispatching(d, r) => d = a
    BY <2>1, OneReply
  <2>3. CASE x # r
    <3>1. ~ Dispatching(a, x)
      BY <2>1, <2>3, OneReply
    <3>2. \A d \in Resolvers : Dispatching(d, x)' <=> Dispatching(d, x)
      BY <1>7, <3>1 DEF ReturnStep, Follows
    <3> QED BY <1>0, <2>1, <2>2, <2>3, <3>2, SettleKeeps, KeptAgrees
  <2>4. CASE x = r
    <3>1. ~ Reserved(r)'
      BY <1>0, <2>1, <2>2, SettleKeeps
    <3>2. \A d \in Resolvers : ~ Dispatching(d, r)'
      BY <1>7, <2>2 DEF ReturnStep, Follows
    <3> QED BY <2>4, <3>1, <3>2 DEF AgreeAt, Holder, Reserved
  <2> QED BY <2>3, <2>4
<1> QED BY <1>1, <1>2, <1>3, <1>4, <1>5, <1>6, <1>7, Steps

(* Only one of the clients, a grant being created and the broker has a reply *)
(* to a request on its way, it holds the reservation, and nobody else does.  *)
THEOREM OneAnswerAtATime == PermissionSpec => []OneDispatch
<1>1. PermissionSpec => [](Base /\ Agree /\ Recorded)
  BY InitBase, InitAgree, InitRecorded, NextBase, NextAgree, NextRecorded, PTL DEF PermissionSpec
<1>2. Base /\ Agree /\ Recorded => OneDispatch
  <2> SUFFICES ASSUME Agree, Recorded, NEW r \in Requests, NEW a \in Resolvers
               PROVE  /\ Holder(a, r) <=> Dispatching(a, r)
                      /\ Dispatching(a, r) => \A d \in Resolvers \ {a} : ~ Dispatching(d, r)
                      /\ Dispatching(Broker, r) => intent[r] = "pending"
    BY DEF OneDispatch
  <2> QED BY OneReply DEF Agree, AgreeAt, Recorded
<1> QED BY <1>1, <1>2, PTL

-----------------------------------------------------------------------------
(* What is known of the answer to a request: while somebody who read it as   *)
(* pending may still act on that, either its tombstone is there or the one   *)
(* whose answer the engine took has it still on its way back.                *)
Settled(x)    == engine[x] \notin {"none", "pending"}
Settles(d, x) == Dispatching(d, x) /\ answeredBy[x] = {d} /\ engine[x] = Reply(d)
Watched(x)    == \E a \in Resolvers : Seen(a, x)
AnswersAt(x) ==
  /\ Watched(x) => engine[x] # "none"
  /\ ~ Settled(x) => answeredBy[x] = {} /\ told[x] = {}
  /\ x \notin lost => /\ told[x] \subseteq answeredBy[x]
                      /\ Usable(x) => engine[x] = "allow_once"
                      /\ Settled(x) /\ Watched(x) =>
                           Tombstone(x) \/ \E d \in Resolvers : Settles(d, x)
Answers == \A x \in Requests : AnswersAt(x)

LEMMA InitAnswers == Init => Answers
<1> SUFFICES ASSUME Init, NEW x \in Requests PROVE AnswersAt(x)
  BY DEF Answers
<1>1. ~ Watched(x)
  BY PermissionAssumption DEF Init, Watched, Seen, About, Idle, Away
<1>2. ~ Usable(x)
  BY DEF Init, Usable, NoGrant
<1>3. engine[x] = "none" /\ answeredBy[x] = {} /\ told[x] = {}
  BY DEF Init
<1> QED BY <1>1, <1>2, <1>3 DEF AnswersAt, Settled

LEMMA Untouched ==
  ASSUME NEW x \in Requests, AnswersAt(x),
         engine'[x] = engine[x], answeredBy'[x] = answeredBy[x], told'[x] = told[x],
         lost \subseteq lost', Usable(x)' => Usable(x),
         Watched(x)' => Watched(x) \/ x \in Pending,
         Watched(x)' => (Tombstone(x) => Tombstone(x)'),
         \A d \in Resolvers : Settles(d, x) => Settles(d, x)'
  PROVE  AnswersAt(x)'
<1>1. Settled(x)' <=> Settled(x)
  BY DEF Settled
<1>2. x \in Pending => engine[x] = "pending"
  BY DEF Pending
<1>3. (Watched(x) => engine[x] # "none")'
  BY <1>2 DEF AnswersAt
<1>4. (~ Settled(x) => answeredBy[x] = {} /\ told[x] = {})'
  BY <1>1 DEF AnswersAt
<1>5. ASSUME x \notin lost'
      PROVE  told'[x] \subseteq answeredBy'[x] /\ (Usable(x)' => engine'[x] = "allow_once")
  BY <1>5 DEF AnswersAt
<1>6. ASSUME x \notin lost', Settled(x)', Watched(x)'
      PROVE  Tombstone(x)' \/ \E d \in Resolvers : Settles(d, x)'
  <2>1. Watched(x)
    BY <1>1, <1>2, <1>6 DEF Settled
  <2> QED BY <1>1, <1>6, <2>1 DEF AnswersAt
<1> QED BY <1>3, <1>4, <1>5, <1>6 DEF AnswersAt

LEMMA FollowsWatched ==
  ASSUME NEW x \in Requests, \A a \in Resolvers : Follows(a)
  PROVE  /\ Watched(x)' => Watched(x) \/ x \in Pending
         /\ engine'[x] = engine[x] /\ answeredBy'[x] = answeredBy[x] =>
              \A d \in Resolvers : Settles(d, x) => Settles(d, x)'
<1>1. Watched(x)' => Watched(x) \/ x \in Pending
  BY DEF Watched, Follows
<1>2. ASSUME engine'[x] = engine[x], answeredBy'[x] = answeredBy[x], NEW d \in Resolvers,
             Settles(d, x)
      PROVE  Settles(d, x)'
  BY <1>2 DEF Settles, Follows
<1> QED BY <1>1, <1>2

LEMMA KeepsTombstone ==
  ASSUME NEW x \in Requests, Keeps(x)
  PROVE  Tombstone(x) => Tombstone(x)'
BY DEF Keeps, Tombstone, Reserved

LEMMA ReplyFits ==
  ASSUME Base, NEW a \in Resolvers, NEW r \in Requests, Dispatching(a, r)
  PROVE  Reply(a) \in Replies /\ Seen(a, r)
BY PermissionAssumption DEF Base, OpsFit, Dispatching, Reply, Seen, At, Op, Replies

(* Who dispatches a reply to a request that is settled has settled it.       *)
LEMMA MyAnswer ==
  ASSUME Base, Agree, Answers, NEW a \in Resolvers, NEW r \in Requests, Dispatching(a, r),
         r \notin lost, r \notin Pending
  PROVE  answeredBy[r] = {a} /\ engine[r] = Reply(a)
<1>1. AnswersAt(r) /\ Watched(r)
  BY ReplyFits DEF Answers, Watched
<1>2. Settled(r)
  BY <1>1 DEF AnswersAt, Settled, Pending
<1>3. ~ Tombstone(r)
  BY OneReply DEF Holder, Tombstone
<1>4. PICK d \in Resolvers : Settles(d, r)
  BY <1>1, <1>2, <1>3 DEF AnswersAt
<1> QED BY <1>4, OneReply DEF Settles

LEMMA NextAnswers == Base /\ Agree /\ Answers /\ [Next]_permissionVars => Answers'
<1> SUFFICES ASSUME Base, Agree, Answers, [Next]_permissionVars, NEW x \in Requests
             PROVE  AnswersAt(x)'
  BY DEF Answers
<1>0. InteractionsTyped /\ AnswersAt(x)
  BY DEF Base, PermissionTypeOK, InteractionsTyped, Answers
<1>1. ASSUME NoAnswer, NoMoreUsable, Keeps(x), \A a \in Resolvers : Follows(a)
      PROVE  AnswersAt(x)'
  BY <1>0, <1>1, FollowsWatched, KeepsTombstone, Untouched DEF NoAnswer, NoMoreUsable
<1>2. CASE QuietStep
  BY <1>1, <1>2, SameKeeps DEF QuietStep
<1>3. ASSUME NEW r \in Requests, WatchStep(r) PROVE AnswersAt(x)'
  BY <1>1, <1>3, ObserveKeeps DEF WatchStep
<1>4. CASE Restart
  <2>1. ~ Watched(x)'
    BY <1>4, PermissionAssumption DEF Restart, Watched, Seen, About, Idle, Away
  <2>2. NoMoreUsable /\ UNCHANGED <<engine, answeredBy, told, lost>>
    BY <1>4, NothingUsable DEF Restart
  <2>3. Settled(x)' <=> Settled(x)
    BY <2>2 DEF Settled
  <2> QED BY <1>0, <2>1, <2>2, <2>3 DEF AnswersAt, NoMoreUsable
<1>5. ASSUME NEW r \in Requests, EngineAsks(r) PROVE AnswersAt(x)'
  <2>1. /\ UNCHANGED <<interactions, handler, broker, grants, answeredBy, told, lost>>
        /\ engine[r] = "none"
    BY <1>5 DEF EngineAsks, store, actors, ghosts
  <2>2. Usable(x)' <=> Usable(x)
    BY <2>1 DEF Usable
  <2>3. Watched(x)' <=> Watched(x)
    BY <2>1 DEF Watched, Seen, About
  <2>4. CASE x = r
    <3>1. engine'[x] = "pending"
      BY <1>5, <2>4 DEF EngineAsks, Base, PermissionTypeOK
    <3> QED BY <1>0, <2>1, <2>2, <2>4, <3>1 DEF AnswersAt, Settled
  <2>5. CASE x # r
    <3>1. engine'[x] = engine[x]
      BY <1>5, <2>5 DEF EngineAsks, Base, PermissionTypeOK
    <3>2. \A d \in Resolvers : Settles(d, x) => Settles(d, x)'
      BY <2>1, <3>1 DEF Settles, Dispatching, At, About, Reply, Op
    <3> QED BY <1>0, <2>1, <2>2, <2>3, <3>1, <3>2, Untouched DEF Tombstone
  <2> QED BY <2>4, <2>5
<1>10. ASSUME NEW r \in Requests, EngineWithdraws(r) PROVE AnswersAt(x)'
  <2>1. /\ UNCHANGED <<interactions, handler, broker, grants, answeredBy, told>>
        /\ engine[r] = "pending" /\ engine' = [engine EXCEPT ![r] = "withdrawn"]
        /\ lost' = lost \cup {r}
    BY <1>10 DEF EngineWithdraws, store, actors, Pending
  <2>2. Usable(x)' <=> Usable(x)
    BY <2>1 DEF Usable
  <2>3. Watched(x)' <=> Watched(x)
    BY <2>1 DEF Watched, Seen, About
  <2>4. CASE x = r
    <3>1. engine'[x] = "withdrawn"
      BY <2>1, <2>4 DEF Base, PermissionTypeOK
    <3>2. x \in lost' /\ Settled(x)'
      BY <2>1, <2>4, <3>1 DEF Settled
    <3> QED BY <3>1, <3>2 DEF AnswersAt
  <2>5. CASE x # r
    <3>1. engine'[x] = engine[x]
      BY <2>1, <2>5 DEF Base, PermissionTypeOK
    <3>2. \A d \in Resolvers : Settles(d, x) => Settles(d, x)'
      BY <2>1, <3>1 DEF Settles, Dispatching, At, About, Reply, Op
    <3> QED BY <1>0, <2>1, <2>2, <2>3, <3>1, <3>2, Untouched DEF Tombstone
  <2> QED BY <2>4, <2>5
<1>6. ASSUME NEW r \in Requests, NEW a \in Resolvers, EngineTakes(a, r) PROVE AnswersAt(x)'
  <2>1. /\ UNCHANGED <<interactions, handler, broker, grants, told, lost>>
        /\ Dispatching(a, r) /\ engine[r] = "pending"
        /\ engine' = [engine EXCEPT ![r] = Reply(a)]
        /\ answeredBy' = [answeredBy EXCEPT ![r] = {a}]
    BY <1>6 DEF EngineTakes, store, actors, ghosts, Pending
  <2>2. Usable(x)' <=> Usable(x)
    BY <2>1 DEF Usable
  <2>3. Watched(x)' <=> Watched(x)
    BY <2>1 DEF Watched, Seen, About
  <2>4. \A d \in Resolvers : (Dispatching(d, x)' <=> Dispatching(d, x)) /\ Reply(d)' = Reply(d)
    BY <2>1 DEF Dispatching, At, About, Reply, Op
  <2>5. CASE x = r
    <3>1. engine'[x] = Reply(a) /\ answeredBy'[x] = {a} /\ Reply(a) \in Replies
      BY <2>1, <2>5, ReplyFits DEF Base, PermissionTypeOK
    <3>2. Settles(a, x)'
      BY <2>1, <2>4, <2>5, <3>1 DEF Settles
    <3>3. Settled(x)' /\ engine'[x] # "none"
      BY <3>1 DEF Settled, Replies
    <3>4. told[x] = {}
      BY <1>0, <2>1, <2>5 DEF AnswersAt, Settled
    <3>5. x \notin lost => ~ Usable(x)
      BY <1>0, <2>1, <2>5 DEF AnswersAt
    <3> QED BY <2>1, <2>2, <3>2, <3>3, <3>4, <3>5 DEF AnswersAt
  <2>6. CASE x # r
    <3>1. engine'[x] = engine[x] /\ answeredBy'[x] = answeredBy[x]
      BY <2>1, <2>6 DEF Base, PermissionTypeOK
    <3>2. \A d \in Resolvers : Settles(d, x) => Settles(d, x)'
      BY <2>4, <3>1 DEF Settles
    <3> QED BY <1>0, <2>1, <2>2, <2>3, <3>1, <3>2, Untouched DEF Tombstone
  <2> QED BY <2>5, <2>6
<1>7. ASSUME NEW r \in Requests, TimePasses(r) PROVE AnswersAt(x)'
  <2>1. /\ UNCHANGED <<handler, broker, grants, engine, answeredBy, told, lost>>
        /\ DeadlinePasses(r)
    BY <1>7 DEF TimePasses, store, actors, world, ghosts
  <2>2. Usable(x)' <=> Usable(x)
    BY <2>1 DEF Usable
  <2>3. Watched(x)' <=> Watched(x)
    BY <2>1 DEF Watched, Seen, About
  <2>4. \A d \in Resolvers : Settles(d, x) => Settles(d, x)'
    BY <2>1 DEF Settles, Dispatching, At, About, Reply, Op
  <2>5. Watched(x)' => (Tombstone(x) => Tombstone(x)')
    <3>1. CASE x # r \/ ~ Tombstone(r)
      BY <1>0, <2>1, <3>1, DeadlineKeeps, KeepsTombstone
    <3>2. CASE x = r /\ Tombstone(r)
      <4>1. ~ InProgress(r) /\ broker.request # {r}
        BY <1>7, <3>2 DEF TimePasses, Tombstone
      <4>2. ~ Watched(r)
        BY <4>1, PermissionAssumption DEF Watched, Seen, About, InProgress
      <4> QED BY <2>3, <3>2, <4>2
    <3> QED BY <3>1, <3>2
  <2> QED BY <1>0, <2>1, <2>2, <2>3, <2>4, <2>5, Untouched
<1>8. ASSUME NEW r \in Requests, NEW a \in Resolvers, TakeStep(a, r) PROVE AnswersAt(x)'
  <2>1. Reserve(a, r) /\ NoAnswer /\ NoMoreUsable /\ Seen(a, r) /\ \A y \in Requests : ~ Dispatching(a, y)
    BY <1>8 DEF TakeStep
  <2>2. \A d \in Resolvers : Settles(d, x) => Settles(d, x)'
    BY <1>8, <2>1 DEF TakeStep, Follows, Settles, NoAnswer
  <2>3. CASE x # r
    <3>1. Watched(x)' => Watched(x) \/ x \in Pending
      BY <1>8, <2>3 DEF TakeStep, Follows, Watched
    <3>2. Tombstone(x) => Tombstone(x)'
      BY <1>0, <2>1, <2>3, ReserveKeeps, KeepsTombstone
    <3> QED BY <1>0, <2>1, <2>2, <3>1, <3>2, Untouched DEF NoAnswer, NoMoreUsable
  <2>4. CASE x = r
    <3>1. Watched(x)
      BY <2>1, <2>4 DEF Watched
    <3>2. ~ Tombstone(x)
      BY <1>0, <2>1, <2>4, ReserveKeeps
    <3> QED BY <1>0, <2>1, <2>2, <3>1, <3>2, Untouched DEF NoAnswer, NoMoreUsable
  <2> QED BY <2>3, <2>4
<1>9. ASSUME NEW r \in Requests, NEW a \in Resolvers, ReturnStep(a, r) PROVE AnswersAt(x)'
  <2>1. /\ Dispatching(a, r) /\ Holder(a, r) /\ UNCHANGED <<engine, answeredBy>>
        /\ (Succeeds(a, r) /\ Accept(a, r)) \/ (Fails(a, r) /\ Rollback(a, r))
    BY <1>9, OneReply DEF ReturnStep
  <2>2. Settled(x)' <=> Settled(x)
    BY <2>1 DEF Settled
  <2>3. lost \subseteq lost' /\ (x # r => told'[x] = told[x])
    BY <2>1 DEF Succeeds, Fails, Base, PermissionTypeOK
  <2>4. CASE x # r
    <3>1. Watched(x)' => Watched(x) \/ x \in Pending
      BY <1>9 DEF ReturnStep, Follows, Watched
    <3>2. Tombstone(x) => Tombstone(x)'
      BY <1>0, <2>1, <2>4, SettleKeeps, KeepsTombstone
    <3>3. \A d \in Resolvers : Settles(d, x) => Settles(d, x)'
      <4>1. ~ Dispatching(a, x)
        BY <2>1, <2>4, OneReply
      <4> QED BY <1>9, <2>1, <4>1 DEF ReturnStep, Follows, Settles
    <3>4. Usable(x)' => Usable(x)
      BY <1>9, <2>4 DEF ReturnStep
    <3> QED BY <1>0, <2>1, <2>3, <2>4, <3>1, <3>2, <3>3, <3>4, Untouched
  <2>5. CASE x = r
    <3>1. engine[r] # "none"
      BY <1>0, <2>1, <2>5, ReplyFits DEF AnswersAt, Watched
    <3>2. CASE Succeeds(a, r) /\ Accept(a, r)
      <4>1. r \notin Pending /\ lost' = lost /\ told'[r] = told[r] \cup {a} /\ Settled(r)
        BY <3>1, <3>2 DEF Succeeds, Base, PermissionTypeOK, Settled, Pending
      <4>2. Tombstone(r)'
        BY <1>0, <2>1, <3>2, SettleKeeps
      <4>3. ASSUME r \notin lost'
            PROVE  told'[r] \subseteq answeredBy'[r] /\ (Usable(r)' => engine'[r] = "allow_once")
        <5>1. answeredBy[r] = {a} /\ engine[r] = Reply(a)
          BY <2>1, <4>1, <4>3, MyAnswer
        <5>2. told[r] \subseteq {a} /\ (Usable(r) => engine[r] = "allow_once")
          BY <1>0, <2>5, <4>1, <4>3, <5>1 DEF AnswersAt
        <5> QED BY <1>9, <2>1, <4>1, <5>1, <5>2 DEF ReturnStep
      <4> QED BY <2>1, <2>2, <2>5, <3>1, <4>1, <4>2, <4>3 DEF AnswersAt
    <3>3. CASE Fails(a, r) /\ Rollback(a, r)
      <4>1. told' = told /\ (Usable(r)' => Usable(r) \/ r \notin Pending)
        BY <1>9, <3>3 DEF Fails, ReturnStep, Succeeds
      <4>2. Settled(r) => r \in lost'
        <5>1. ASSUME Settled(r), r \notin lost PROVE r \in lost'
          <6>1. answeredBy[r] = {a}
            BY <2>1, <5>1, MyAnswer DEF Settled, Pending
          <6> QED BY <3>3, <6>1 DEF Fails
        <5> QED BY <2>3, <5>1
      <4>3. ~ Settled(r) => r \in Pending
        BY <3>1 DEF Settled, Pending
      <4> QED BY <1>0, <2>1, <2>2, <2>3, <2>5, <3>1, <4>1, <4>2, <4>3 DEF AnswersAt
    <3> QED BY <2>1, <3>2, <3>3
  <2> QED BY <2>4, <2>5
<1> QED BY <1>2, <1>3, <1>4, <1>5, <1>6, <1>7, <1>8, <1>9, <1>10, Steps

LEMMA AnswersHold == PermissionSpec => []Answers
BY InitBase, InitAgree, InitAnswers, NextBase, NextAgree, NextAnswers, PTL DEF PermissionSpec

(* Who is told that its answer resolved a request gave the answer the engine *)
(* took, unless the engine withdrew that request or its answer to a reply of *)
(* it was lost.                                                              *)
THEOREM TheAnswerStands == PermissionSpec => []AnswerStands
<1>1. Answers => AnswerStands
  BY DEF Answers, AnswersAt, AnswerStands
<1> QED BY <1>1, AnswersHold, PTL

(* A grant that gives authority stands on an approval the engine took, but   *)
(* for a request that it withdrew or its answer to which was lost.           *)
THEOREM GrantsAreApproved == PermissionSpec => []GrantFollowsApproval
<1>1. Answers => GrantFollowsApproval
  BY DEF Answers, AnswersAt, GrantFollowsApproval
<1> QED BY <1>1, AnswersHold, PTL
=============================================================================
