------------------------ MODULE MediaGenerationProofs ------------------------
(***************************************************************************)
(* Proofs about video generation, for any requests, callers, passes of the *)
(* worker, adapters, limits and bounds.                                    *)
(*                                                                         *)
(* The rows are written in few ways: a write checked against the revision  *)
(* its actor holds, the failure after a fresh read, and the three          *)
(* unchecked ones of submit, time and cancellation.                        *)
(***************************************************************************)
EXTENDS MediaGeneration, TLAPS

(* What was sent, what the provider has, and what the row says of it. *)
Ledger ==
  \A j \in Jobs :
    /\ submissions[j] = IF wire[j] = "none" THEN 0 ELSE 1
    /\ job[j].status = "absent" => wire[j] = "none"
    /\ provider[j] # "none" => wire[j] = "taken"
    /\ wire[j] = "taken" => provider[j] # "none"
    /\ job[j].status \in {"absent", "queued", "submitting"} => ~ job[j].providerJobId

(* What a submission or a pass in progress works on. *)
CallerRecord == [at : {"idle", "sent", "lookup"}, job : Jobs \cup {NoJob}]
PassRecord   == [at : {"idle", "listed", "lookup", "cancelling", "checking",
                       "inspecting", "downloading", "published"},
                 job : Jobs \cup {NoJob}, todo : [Jobs -> Row]]

Exists(j) == j \in Jobs /\ job[j].status # "absent"

PassHolds(r) ==
  /\ r.at \notin {"idle", "listed"} => Exists(r.job)
  /\ r.at \in {"downloading", "published"} => provider[r.job] = "completed"
  /\ r.at = "published" => r.job \in disk
  /\ \A j \in Jobs : r.todo[j] # NoCopy =>
       /\ Exists(j)
       /\ r.todo[j].status \notin Terminal \cup {"absent"}
       /\ r.todo[j].status \in {"queued", "submitting"} => ~ r.todo[j].providerJobId

CallersHold == \A c \in Callers : caller[c].at # "idle" => Exists(caller[c].job)
PassesHold  == \A p \in Passes : PassHolds(pass[p])
Holders     == CallersHold /\ PassesHold

Inductive == MediaTypeOK /\ Ledger /\ Holders /\ OutcomeIsEarned

-----------------------------------------------------------------------------
(* Rows. *)

LEMMA AbsentIsRow == Absent \in Row
BY MediaAssumption DEF Absent, Row, Statuses, Terminal

LEMMA MovedIsRow ==
  ASSUME MediaTypeOK, NEW j \in Jobs, NEW to \in Statuses
  PROVE  /\ Moved(j, to) \in Row /\ Polled(j, to) \in Row /\ Submitted(j) \in Row
         /\ Moved(j, to).status = to /\ Polled(j, to).status = to
         /\ Submitted(j).status = "submitted" /\ Submitted(j).providerJobId
         /\ Moved(j, to).providerJobId = job[j].providerJobId
         /\ Polled(j, to).providerJobId = job[j].providerJobId
<1>1. job[j] \in Row
  BY DEF MediaTypeOK
<1>2. Bump(job[j].pollAttempts) \in 0 .. MaxMissing
  BY <1>1, MediaAssumption DEF Row, Bump
<1> QED
  BY <1>1, <1>2 DEF Moved, Polled, Submitted, Row, Statuses, Terminal

(* A row that may move has not ended, is there, and moves to a state.        *)
LEMMA MayMoveFacts ==
  ASSUME MediaTypeOK, NEW j \in Jobs, NEW a, NEW to, MayMove(a, j, to)
  PROVE  /\ to \in Statuses
         /\ job[j].status \in Statuses \ Terminal
         /\ to = "submission_unknown" => job[j].status = "submitting"
         /\ to = "queued" => job[j].status = "queued"
         /\ to = "submitting" => job[j].status \in {"queued", "submitting"}
<1>1. job[j].status \in Statuses \cup {"absent"}
  BY DEF MediaTypeOK, Row
<1> QED
  BY <1>1 DEF MayMove, Allowed, Statuses, Terminal

(* What may be written over the row of j: a row that has not ended keeps its *)
(* identity, and ends only with what the outcome needs.                      *)
Good(j, row) ==
  /\ row \in Row
  /\ row.status # "absent"
  /\ job[j].status \notin Terminal
  /\ job[j].providerJobId => row.providerJobId
  /\ row.providerJobId => job[j].providerJobId \/ provider[j] # "none"
  /\ row.status = "completed" => j \in disk
  /\ row.status = "cancelled" => provider[j] = "cancelled"
  /\ row.status \in {"queued", "submitting", "submission_unknown"} => ~ row.providerJobId

RowStep(j) == job'[j] = job[j] \/ Good(j, job'[j])
RowSteps   == job' \in [Jobs -> Row] /\ fresh' \in [Jobs -> SUBSET Actors]
                /\ \A j \in Jobs : RowStep(j)

LEMMA UnwrittenIsStep ==
  ASSUME MediaTypeOK, job' = job, fresh' \in [Jobs -> SUBSET Actors]
  PROVE  RowSteps
BY DEF RowSteps, RowStep, MediaTypeOK

LEMMA RewriteIsStep ==
  ASSUME MediaTypeOK, NEW j \in Jobs, NEW row, Good(j, row),
         job' = [job EXCEPT ![j] = row], fresh' \in [Jobs -> SUBSET Actors]
  PROVE  RowSteps
BY DEF RowSteps, RowStep, Good, MediaTypeOK

LEMMA WriteIsStep ==
  ASSUME MediaTypeOK, NEW j \in Jobs, NEW a \in Actors, NEW row, Good(j, row), Write(a, j, row)
  PROVE  RowSteps
<1>1. fresh' \in [Jobs -> SUBSET Actors]
  BY DEF Write, MediaTypeOK
<1> QED
  BY <1>1, RewriteIsStep DEF Write

LEMMA TryWriteIsStep ==
  ASSUME MediaTypeOK, NEW j \in Jobs, NEW a \in Actors, NEW row,
         MayMove(a, j, row.status) => Good(j, row), TryWrite(a, j, row)
  PROVE  RowSteps
<1>1. CASE MayMove(a, j, row.status)
  BY <1>1, WriteIsStep DEF TryWrite
<1>2. CASE ~ MayMove(a, j, row.status)
  BY <1>2, UnwrittenIsStep DEF TryWrite, MediaTypeOK
<1> QED
  BY <1>1, <1>2

(* The rows the actors write are good where they may be written. *)
LEMMA MovedIsGood ==
  ASSUME Inductive, NEW j \in Jobs, NEW to \in Statuses \ {"queued", "submitting"},
         job[j].status \in Statuses \ Terminal,
         to = "completed" => j \in disk,
         to = "cancelled" => provider[j] = "cancelled",
         to = "submission_unknown" => job[j].status = "submitting"
  PROVE  Good(j, Moved(j, to))
<1>1. job[j] \in Row
  BY DEF Inductive, MediaTypeOK
<1>2. job[j].status = "submitting" => ~ job[j].providerJobId
  BY DEF Inductive, Ledger
<1>3. /\ Moved(j, to) \in Row /\ Moved(j, to).status = to
      /\ Moved(j, to).providerJobId = job[j].providerJobId
  BY MovedIsRow DEF Inductive
<1> QED
  BY <1>1, <1>2, <1>3 DEF Good, Statuses, Terminal

LEMMA PolledIsGood ==
  ASSUME Inductive, NEW j \in Jobs, NEW to \in Statuses \ Terminal,
         job[j].status \in Statuses \ Terminal,
         to \in {"queued", "submitting"} => ~ job[j].providerJobId
  PROVE  Good(j, Polled(j, to))
<1>1. job[j] \in Row
  BY DEF Inductive, MediaTypeOK
<1>3. /\ Polled(j, to) \in Row /\ Polled(j, to).status = to
      /\ Polled(j, to).providerJobId = job[j].providerJobId
  BY MovedIsRow DEF Inductive
<1> QED
  BY <1>1, <1>3 DEF Good, Statuses, Terminal

LEMMA SubmittedIsGood ==
  ASSUME Inductive, NEW j \in Jobs, job[j].status \in Statuses \ Terminal, provider[j] # "none"
  PROVE  Good(j, Submitted(j))
<1>1. job[j] \in Row
  BY DEF Inductive, MediaTypeOK
<1>2. "running" \in Statuses
  BY DEF Statuses
<1>3. Submitted(j) \in Row /\ Submitted(j).status = "submitted" /\ Submitted(j).providerJobId
  BY <1>2, MovedIsRow DEF Inductive
<1> QED
  BY <1>1, <1>3 DEF Good, Statuses, Terminal

LEMMA FailsIsStep ==
  ASSUME Inductive, NEW p \in Passes, pass[p].job \in Jobs, job[pass[p].job].status # "absent",
         Fails(p)
  PROVE  RowSteps
<1> DEFINE j == pass[p].job
<1>1. CASE job[j].status \in Terminal
  BY <1>1, UnwrittenIsStep DEF Fails, Inductive, MediaTypeOK
<1>2. CASE job[j].status \notin Terminal
  <2>1. job[j].status \in Statuses \ Terminal
    BY <1>2 DEF Inductive, MediaTypeOK, Row
  <2>2. Good(j, Moved(j, "failed"))
    <3>1. "failed" \in Statuses \ {"queued", "submitting"}
      BY DEF Statuses, Terminal
    <3> QED
      BY <2>1, <3>1, MovedIsGood
  <2> QED
    BY <1>2, <2>2, WriteIsStep DEF Fails, Actors, Inductive
<1> QED
  BY <1>1, <1>2
-----------------------------------------------------------------------------
(* What a step does to the world outside the rows. *)

ProviderStays ==
  /\ provider' \in [Jobs -> ProviderStates]
  /\ \A j \in Jobs : \/ provider'[j] = provider[j]
                     \/ provider[j] \in {"none"} \cup Working /\ provider'[j] # "none"
WorldStep == ProviderStays /\ disk \subseteq disk'

LEMMA SameWorld ==
  ASSUME MediaTypeOK, provider' = provider, disk' = disk
  PROVE  WorldStep
BY DEF WorldStep, ProviderStays, MediaTypeOK

LEMMA ExistsStays ==
  ASSUME Inductive, RowSteps, NEW j, Exists(j)
  PROVE  Exists(j)'
BY DEF Exists, RowSteps, RowStep, Good

LEMMA PassHoldsStays ==
  ASSUME Inductive, RowSteps, WorldStep, NEW r \in PassRecord, PassHolds(r)
  PROVE  PassHolds(r)'
<1>1. \A j : Exists(j) => Exists(j)'
  BY ExistsStays
<1>2. r.at \in {"downloading", "published"} => r.job \in Jobs
  BY DEF PassHolds, Exists
<1>3. \A j \in Jobs : provider[j] = "completed" => provider'[j] = "completed"
  BY DEF WorldStep, ProviderStays, Working
<1>4. disk \subseteq disk'
  BY DEF WorldStep
<1> QED
  BY <1>1, <1>2, <1>3, <1>4 DEF PassHolds

LEMMA OutcomeStays ==
  ASSUME Inductive, RowSteps, WorldStep,
         \A j \in disk' \ disk : provider[j] = "completed"
  PROVE  (\A j \in Jobs :
            /\ j \in disk => provider[j] = "completed"
            /\ job[j].status = "completed" => j \in disk
            /\ job[j].status = "cancelled" => provider[j] = "cancelled"
            /\ job[j].providerJobId => provider[j] # "none"
            /\ job[j].status = "submission_unknown" => ~ job[j].providerJobId)'
<1> SUFFICES ASSUME NEW j \in Jobs
             PROVE  /\ j \in disk' => provider'[j] = "completed"
                    /\ job'[j].status = "completed" => j \in disk'
                    /\ job'[j].status = "cancelled" => provider'[j] = "cancelled"
                    /\ job'[j].providerJobId => provider'[j] # "none"
                    /\ job'[j].status = "submission_unknown" => ~ job'[j].providerJobId
  OBVIOUS
<1>1. /\ provider[j] = "completed" => provider'[j] = "completed"
      /\ provider[j] = "cancelled" => provider'[j] = "cancelled"
      /\ provider[j] # "none" => provider'[j] # "none"
  BY DEF WorldStep, ProviderStays, Working
<1>2. job'[j] = job[j] \/ Good(j, job'[j])
  BY DEF RowSteps, RowStep
<1>3. disk \subseteq disk'
  BY DEF WorldStep
<1> QED
  BY <1>1, <1>2, <1>3 DEF Good, Inductive, OutcomeIsEarned

(* With the ledger untouched, the rows keep theirs. *)
LEMMA LedgerStays ==
  ASSUME Inductive, RowSteps, UNCHANGED <<wire, submissions>>,
         \A j \in Jobs : provider'[j] # "none" <=> provider[j] # "none"
  PROVE  Ledger'
<1> SUFFICES ASSUME NEW j \in Jobs
             PROVE  /\ submissions'[j] = IF wire'[j] = "none" THEN 0 ELSE 1
                    /\ job'[j].status = "absent" => wire'[j] = "none"
                    /\ provider'[j] # "none" => wire'[j] = "taken"
                    /\ wire'[j] = "taken" => provider'[j] # "none"
                    /\ job'[j].status \in {"absent", "queued", "submitting"}
                         => ~ job'[j].providerJobId
  BY DEF Ledger
<1>1. job'[j] = job[j] \/ Good(j, job'[j])
  BY DEF RowSteps, RowStep
<1> QED
  BY <1>1 DEF Good, Inductive, Ledger

(* The counters. *)
CountersOK == /\ pollFailures \in [Jobs -> 0 .. MaxPollFailures - 1]
              /\ stopped \in BOOLEAN
              /\ offer \in Offers
              /\ workspace \in [Jobs -> WorkspaceStates]
              /\ crashes \in Nat /\ cancels \in Nat

LEMMA Assemble ==
  ASSUME Inductive, RowSteps, WorldStep, Ledger',
         \A j \in disk' \ disk : provider[j] = "completed",
         disk' \subseteq Jobs,
         caller' \in [Callers -> CallerRecord], CallersHold',
         pass' \in [Passes -> PassRecord], PassesHold',
         wire' \in [Jobs -> {"none", "sent", "taken", "refused"}],
         submissions' \in [Jobs -> Nat], CountersOK'
  PROVE  Inductive' /\ RowSteps
<1>1. MediaTypeOK'
  BY DEF MediaTypeOK, RowSteps, WorldStep, ProviderStays, CallerRecord, PassRecord, CountersOK
<1>2. OutcomeIsEarned'
  <2>1. \A j \in Jobs : submissions'[j] <= 1 /\ (provider'[j] # "none" => submissions'[j] = 1)
    BY DEF Ledger
  <2> QED
    BY OutcomeStays DEF OutcomeIsEarned
<1> QED
  BY <1>1, <1>2 DEF Inductive, Holders
-----------------------------------------------------------------------------
(* Steps of submissions and of passes. *)

LEMMA CallerWrites ==
  ASSUME Inductive, RowSteps, NEW c \in Callers, NEW r \in CallerRecord,
         r.at # "idle" => Exists(r.job),
         caller' = [caller EXCEPT ![c] = r], OnlyCaller
  PROVE  Inductive' /\ RowSteps
<1>0. /\ UNCHANGED <<wire, submissions>> /\ provider' = provider /\ disk' = disk /\ pass' = pass
      /\ UNCHANGED <<pollFailures, stopped, offer, workspace, crashes, cancels>>
  BY DEF OnlyCaller, external
<1>1. WorldStep
  BY <1>0, SameWorld DEF Inductive
<1>2. Ledger'
  BY <1>0, LedgerStays
<1>3. caller' \in [Callers -> CallerRecord]
  BY DEF Inductive, MediaTypeOK, CallerRecord
<1>4. CallersHold'
  <2>1. \A j : Exists(j) => Exists(j)'
    BY ExistsStays
  <2> QED
    BY <2>1 DEF CallersHold, Inductive, MediaTypeOK, Holders
<1>5. pass' \in [Passes -> PassRecord]
  BY <1>0 DEF Inductive, MediaTypeOK, PassRecord
<1>6. PassesHold'
  <2>1. ASSUME NEW q \in Passes
        PROVE  PassHolds(pass[q])'
    <3>1. pass[q] \in PassRecord /\ PassHolds(pass[q])
      BY DEF Inductive, MediaTypeOK, PassRecord, Holders, PassesHold
    <3>2. \A x \in PassRecord : PassHolds(x) => PassHolds(x)'
      BY <1>1, PassHoldsStays
    <3> QED
      BY <3>1, <3>2, <1>0 DEF PassHolds, Exists
  <2> QED
    BY <2>1 DEF PassesHold
<1>7. CountersOK'
  BY <1>0 DEF Inductive, MediaTypeOK, CountersOK
<1>8. /\ wire' \in [Jobs -> {"none", "sent", "taken", "refused"}]
      /\ submissions' \in [Jobs -> Nat] /\ disk' \subseteq Jobs
  BY <1>0 DEF Inductive, MediaTypeOK
<1> QED
  BY <1>0, <1>1, <1>2, <1>3, <1>4, <1>5, <1>6, <1>7, <1>8, Assemble

LEMMA PassWrites ==
  ASSUME Inductive, RowSteps, WorldStep, NEW p \in Passes, NEW r \in PassRecord, PassHolds(r)',
         pass' = [pass EXCEPT ![p] = r],
         \A j \in Jobs : provider'[j] # "none" <=> provider[j] # "none",
         \A j \in disk' \ disk : provider[j] = "completed", disk' \subseteq Jobs,
         pollFailures' \in [Jobs -> 0 .. MaxPollFailures - 1],
         UNCHANGED <<caller, stopped, offer, workspace, wire, submissions, crashes, cancels>>
  PROVE  Inductive' /\ RowSteps
<1>2. Ledger'
  BY LedgerStays
<1>3. caller' \in [Callers -> CallerRecord]
  BY DEF Inductive, MediaTypeOK, CallerRecord
<1>4. CallersHold'
  <2>1. \A j : Exists(j) => Exists(j)'
    BY ExistsStays
  <2> QED
    BY <2>1 DEF CallersHold, Inductive, MediaTypeOK, Holders
<1>5. pass' \in [Passes -> PassRecord]
  BY DEF Inductive, MediaTypeOK, PassRecord
<1>6. PassesHold'
  <2>1. ASSUME NEW q \in Passes
        PROVE  PassHolds(pass[q])'
    <3>1. pass[q] \in PassRecord /\ PassHolds(pass[q])
      BY DEF Inductive, MediaTypeOK, PassRecord, Holders, PassesHold
    <3>2. PassHolds(pass[q]) => \A x \in PassRecord : PassHolds(x) => PassHolds(x)'
      BY PassHoldsStays
    <3>3. pass'[q] = IF q = p THEN r ELSE pass[q]
      BY DEF Inductive, MediaTypeOK
    <3> QED
      BY <3>1, <3>2, <3>3 DEF PassHolds, Exists
  <2> QED
    BY <2>1 DEF PassesHold
<1>7. CountersOK'
  BY DEF Inductive, MediaTypeOK, CountersOK
<1>8. /\ wire' \in [Jobs -> {"none", "sent", "taken", "refused"}]
      /\ submissions' \in [Jobs -> Nat]
  BY DEF Inductive, MediaTypeOK
<1> QED
  BY <1>2, <1>3, <1>4, <1>5, <1>6, <1>7, <1>8, Assemble

(* A step of a pass that leaves the world alone. *)
LEMMA PassOnly ==
  ASSUME Inductive, RowSteps, NEW p \in Passes, NEW r \in PassRecord, PassHolds(r),
         pass' = [pass EXCEPT ![p] = r], pollFailures' \in [Jobs -> 0 .. MaxPollFailures - 1],
         OnlyPass
  PROVE  Inductive' /\ RowSteps
<1>1. /\ UNCHANGED <<caller, stopped, offer, workspace, wire, submissions, crashes, cancels>>
      /\ provider' = provider /\ disk' = disk
  BY DEF OnlyPass, external
<1>2. WorldStep
  BY <1>1, SameWorld DEF Inductive
<1>3. PassHolds(r)'
  BY <1>2, PassHoldsStays
<1>4. disk' \subseteq Jobs
  BY <1>1 DEF Inductive, MediaTypeOK
<1> QED
  BY <1>1, <1>2, <1>3, <1>4, PassWrites

LEMMA PassFacts ==
  ASSUME Inductive, NEW p \in Passes
  PROVE  pass[p] \in PassRecord /\ PassHolds(pass[p])
BY DEF Inductive, MediaTypeOK, PassRecord, Holders, PassesHold

LEMMA NoCopyIsRow == NoCopy \in Row /\ IdlePass.todo \in [Jobs -> Row]
BY AbsentIsRow DEF NoCopy, IdlePass

(* The list that is left is one a pass may hold. *)
LEMMA GoesOnHolds ==
  ASSUME Inductive, NEW p \in Passes, NEW rest \in [Jobs -> Row],
         \A j \in Jobs : rest[j] # NoCopy => rest[j] = pass[p].todo[j],
         PassGoesOn(p, rest)
  PROVE  \E r \in PassRecord : PassHolds(r) /\ pass' = [pass EXCEPT ![p] = r]
<1> DEFINE r == IF rest = IdlePass.todo THEN IdlePass
                ELSE [at |-> "listed", job |-> NoJob, todo |-> rest]
<1>1. pass' = [pass EXCEPT ![p] = r]
  BY DEF PassGoesOn
<1>2. r \in PassRecord
  BY NoCopyIsRow DEF PassRecord, IdlePass
<1>3. PassHolds(r)
  <2>1. PassHolds(pass[p])
    BY PassFacts
  <2>2. \A j \in Jobs : r.todo[j] # NoCopy => r.todo[j] = pass[p].todo[j]
    BY DEF IdlePass
  <2>3. r.at \in {"idle", "listed"}
    BY DEF IdlePass
  <2> QED
    BY <2>1, <2>2, <2>3 DEF PassHolds
<1> QED
  BY <1>1, <1>2, <1>3

LEMMA DropIsLeft ==
  ASSUME Inductive, NEW p \in Passes, NEW j \in Jobs
  PROVE  /\ Drop(p, j) \in [Jobs -> Row]
         /\ \A i \in Jobs : Drop(p, j)[i] # NoCopy => Drop(p, j)[i] = pass[p].todo[i]
         /\ pass[p].todo \in [Jobs -> Row]
<1>1. pass[p].todo \in [Jobs -> Row]
  BY PassFacts DEF PassRecord
<1> QED
  BY <1>1, NoCopyIsRow DEF Drop

(* A step of a pass that goes on with the rest of its list. *)
LEMMA PassEndsJob ==
  ASSUME Inductive, RowSteps, NEW p \in Passes, NEW rest,
         rest = pass[p].todo \/ rest = IdlePass.todo \/ \E j \in Jobs : rest = Drop(p, j),
         PassGoesOn(p, rest),
         pollFailures' \in [Jobs -> 0 .. MaxPollFailures - 1], OnlyPass
  PROVE  Inductive' /\ RowSteps
<1>1. rest \in [Jobs -> Row] /\ \A j \in Jobs : rest[j] # NoCopy => rest[j] = pass[p].todo[j]
  <2>1. CASE rest = pass[p].todo
    BY <2>1, PassFacts DEF PassRecord
  <2>2. CASE rest = IdlePass.todo
    BY <2>2, NoCopyIsRow DEF IdlePass
  <2>3. CASE \E j \in Jobs : rest = Drop(p, j)
    BY <2>3, DropIsLeft
  <2> QED
    BY <2>1, <2>2, <2>3
<1>2. PICK r \in PassRecord : PassHolds(r) /\ pass' = [pass EXCEPT ![p] = r]
  BY <1>1, GoesOnHolds
<1> QED
  BY <1>2, PassOnly

(* A step of a pass that begins to wait for the adapter. *)
LEMMA PassWaits ==
  ASSUME Inductive, RowSteps, NEW p \in Passes, NEW j \in Jobs, j \in Todo(p),
         NEW at \in {"lookup", "cancelling", "checking", "inspecting"},
         Waits(p, j, at), UNCHANGED pollFailures, OnlyPass
  PROVE  Inductive' /\ RowSteps
<1> DEFINE r == [pass[p] EXCEPT !.at = at, !.job = j, !.todo = Drop(p, j)]
<1>1. pass' = [pass EXCEPT ![p] = r]
  BY PassFacts DEF Waits, Inductive, MediaTypeOK
<1>2. pass[p] \in PassRecord /\ PassHolds(pass[p])
  BY PassFacts
<1>3. /\ Drop(p, j) \in [Jobs -> Row]
      /\ \A i \in Jobs : Drop(p, j)[i] # NoCopy => Drop(p, j)[i] = pass[p].todo[i]
  BY DropIsLeft
<1>4. r \in PassRecord /\ r.at = at /\ r.job = j /\ r.todo = Drop(p, j)
  BY <1>2, <1>3 DEF PassRecord
<1>5. PassHolds(r)
  BY <1>2, <1>3, <1>4 DEF PassHolds, Todo
<1>6. pollFailures' \in [Jobs -> 0 .. MaxPollFailures - 1]
  BY DEF Inductive, MediaTypeOK
<1> QED
  BY <1>1, <1>4, <1>5, <1>6, PassOnly
-----------------------------------------------------------------------------
(* The actions of a submission. *)

(* A write that may conflict with a row that is good where it does not.      *)
LEMMA TryMoved ==
  ASSUME Inductive, NEW j \in Jobs, NEW a \in Actors,
         NEW to \in {"failed", "submission_unknown", "completed"},
         to = "completed" => j \in disk,
         TryWrite(a, j, Moved(j, to))
  PROVE  RowSteps
<1>1. to \in Statuses \ {"queued", "submitting"}
  BY DEF Statuses, Terminal
<1>2. Moved(j, to).status = to
  BY <1>1, MovedIsRow DEF Inductive
<1>3. MayMove(a, j, to) => Good(j, Moved(j, to))
  <2> SUFFICES ASSUME MayMove(a, j, to) PROVE Good(j, Moved(j, to))
    OBVIOUS
  <2>1. /\ job[j].status \in Statuses \ Terminal
        /\ to = "submission_unknown" => job[j].status = "submitting"
    BY MayMoveFacts DEF Inductive
  <2> QED
    BY <1>1, <2>1, MovedIsGood
<1> QED
  BY <1>2, <1>3, TryWriteIsStep DEF Inductive

LEMMA TrySubmitted ==
  ASSUME Inductive, NEW j \in Jobs, NEW a \in Actors, provider[j] # "none",
         TryWrite(a, j, Submitted(j))
  PROVE  RowSteps
<1>1. MayMove(a, j, Submitted(j).status) => Good(j, Submitted(j))
  BY MayMoveFacts, SubmittedIsGood DEF Inductive
<1> QED
  BY <1>1, TryWriteIsStep DEF Inductive

LEMMA CallerFacts ==
  ASSUME Inductive, NEW c \in Callers
  PROVE  /\ caller[c] \in CallerRecord /\ IdleCaller \in CallerRecord
         /\ caller[c].at # "idle" => Exists(caller[c].job) /\ caller[c].job \in Jobs
         /\ c \in Actors
BY DEF Inductive, MediaTypeOK, CallerRecord, IdleCaller, Holders, CallersHold, Exists, Actors

(* A submission that returns to its client. *)
LEMMA CallerReturns ==
  ASSUME Inductive, RowSteps, NEW c \in Callers, CallerEnds(c), OnlyCaller
  PROVE  Inductive' /\ RowSteps
<1>1. IdleCaller \in CallerRecord /\ IdleCaller.at = "idle"
  BY CallerFacts DEF IdleCaller
<1> QED
  BY <1>1, CallerWrites DEF CallerEnds

LEMMA UnknownKeeps ==
  ASSUME Inductive, NEW c \in Callers, caller[c].at = "sent", OutcomeUnknown(c), OnlyCaller
  PROVE  Inductive' /\ RowSteps
<1>1. caller[c].job \in Jobs /\ Exists(caller[c].job) /\ c \in Actors
  BY CallerFacts
<1>2. CASE "lookup" \in offer
  <2> DEFINE r == [caller[c] EXCEPT !.at = "lookup"]
  <2>1. r \in CallerRecord /\ r.job = caller[c].job /\ caller' = [caller EXCEPT ![c] = r]
    BY <1>2, CallerFacts DEF OutcomeUnknown, CallerRecord, Inductive, MediaTypeOK
  <2>2. RowSteps
    BY <1>2, UnwrittenIsStep DEF OutcomeUnknown, Inductive, MediaTypeOK
  <2> QED
    BY <1>1, <2>1, <2>2, CallerWrites
<1>3. CASE "lookup" \notin offer
  <2>1. RowSteps
    BY <1>1, <1>3, TryMoved DEF OutcomeUnknown
  <2> QED
    BY <1>3, <2>1, CallerReturns DEF OutcomeUnknown
<1> QED
  BY <1>2, <1>3

LEMMA CallerStepKeeps ==
  ASSUME Inductive, NEW c \in Callers, CallerStep(c)
  PROVE  Inductive' /\ RowSteps
<1>0. caller[c].at # "idle" => caller[c].job \in Jobs /\ Exists(caller[c].job) /\ c \in Actors
  BY CallerFacts
<1>1. CASE SubmitAccepted(c)
  <2> DEFINE j == caller[c].job
  <2>1. j \in Jobs /\ c \in Actors /\ caller[c].at = "sent"
    BY <1>0, <1>1 DEF SubmitAccepted, CallerAt
  <2>2. CASE MayMove(c, j, "submitted")
    <3>1. provider[j] # "none"
      BY <1>1, <2>1 DEF SubmitAccepted, Inductive, Ledger
    <3>2. job[j].status \in Statuses \ Terminal
      BY <2>1, <2>2, MayMoveFacts DEF Inductive
    <3>3. RowSteps
      BY <1>1, <2>1, <2>2, <3>1, <3>2, SubmittedIsGood, WriteIsStep DEF SubmitAccepted, Inductive
    <3> QED
      BY <1>1, <2>2, <3>3, CallerReturns DEF SubmitAccepted
  <2>3. CASE ~ MayMove(c, j, "submitted")
    BY <1>1, <2>1, <2>3, UnknownKeeps DEF SubmitAccepted
  <2> QED
    BY <2>2, <2>3
<1>2. CASE SubmitRejected(c)
  <2>1. RowSteps
    BY <1>0, <1>2, TryMoved DEF SubmitRejected, CallerAt
  <2> QED
    BY <1>2, <2>1, CallerReturns DEF SubmitRejected
<1>3. CASE SubmitLost(c)
  BY <1>3, UnknownKeeps DEF SubmitLost, CallerAt
<1>4. CASE CallerLooksUp(c)
  <2>1. caller[c].job \in Jobs /\ c \in Actors
    BY <1>0, <1>4 DEF CallerLooksUp, CallerAt
  <2>2. RowSteps
    BY <1>4, <2>1, TrySubmitted, TryMoved DEF CallerLooksUp
  <2> QED
    BY <1>4, <2>2, CallerReturns DEF CallerLooksUp
<1> QED
  BY <1>1, <1>2, <1>3, <1>4 DEF CallerStep

-----------------------------------------------------------------------------
(* The actions of a pass. *)

LEMMA SameCounts == Inductive /\ UNCHANGED pollFailures =>
                      pollFailures' \in [Jobs -> 0 .. MaxPollFailures - 1]
BY DEF Inductive, MediaTypeOK

(* The pass that waits has a row to come back to. *)
LEMMA WaitingFacts ==
  ASSUME Inductive, NEW p \in Passes, pass[p].at \notin {"idle", "listed"}
  PROVE  pass[p].job \in Jobs /\ job[pass[p].job].status \in Statuses /\ p \in Actors
<1>1. Exists(pass[p].job)
  BY PassFacts DEF PassHolds
<1> QED
  BY <1>1 DEF Exists, Inductive, MediaTypeOK, Row, Actors

LEMMA FailsCounts ==
  ASSUME Inductive, NEW p \in Passes, Fails(p)
  PROVE  pollFailures' \in [Jobs -> 0 .. MaxPollFailures - 1]
<1>1. pollFailures \in [Jobs -> 0 .. MaxPollFailures - 1] /\ 0 \in 0 .. MaxPollFailures - 1
  BY MediaAssumption DEF Inductive, MediaTypeOK
<1> QED
  BY <1>1 DEF Fails

LEMMA PassFails ==
  ASSUME Inductive, NEW p \in Passes, pass[p].at \notin {"idle", "listed"}, Fails(p),
         PassGoesOn(p, pass[p].todo), OnlyPass
  PROVE  Inductive' /\ RowSteps
<1>1. RowSteps
  <2>1. pass[p].job \in Jobs /\ job[pass[p].job].status # "absent"
    BY PassFacts DEF PassHolds, Exists
  <2> QED
    BY <2>1, FailsIsStep
<1> QED
  BY <1>1, FailsCounts, PassEndsJob

LEMMA PassStartKeeps ==
  ASSUME Inductive, NEW p \in Passes, PassStart(p)
  PROVE  Inductive' /\ RowSteps
<1> DEFINE r == [at |-> "listed", job |-> NoJob,
                 todo |-> [j \in Jobs |-> IF j \in Reconcilable THEN job[j] ELSE NoCopy]]
<1>1. pass' = [pass EXCEPT ![p] = r]
  BY DEF PassStart
<1>2. r \in PassRecord
  BY NoCopyIsRow DEF PassRecord, Inductive, MediaTypeOK
<1>3. PassHolds(r)
  BY DEF PassHolds, Exists, Reconcilable, Active, Inductive, Ledger
<1>4. RowSteps
  <2>1. fresh' \in [Jobs -> SUBSET Actors]
    BY DEF PassStart, Inductive, MediaTypeOK, Actors
  <2> QED
    BY <2>1, UnwrittenIsStep DEF PassStart, Inductive
<1> QED
  BY <1>1, <1>2, <1>3, <1>4, SameCounts, PassOnly DEF PassStart, OnlyPass

(* The first step of reconcile for a row of the list. *)
LEMMA BeginKeeps ==
  ASSUME Inductive, NEW p \in Passes, NEW j \in Jobs,
         \/ PassThrows(p, j) \/ FinishFromDisk(p, j) \/ LookUp(p, j) \/ SubmissionUnknown(p, j)
         \/ DeferOrFail(p, j) \/ Inspect(p, j) \/ HandleCancellation(p, j)
  PROVE  Inductive' /\ RowSteps
<1>0. p \in Actors
  BY DEF Actors
<1>1. CASE FinishFromDisk(p, j)
  <2>1. RowSteps
    BY <1>0, <1>1, TryMoved DEF FinishFromDisk, OnDisk
  <2> QED
    BY <1>1, <2>1, SameCounts, PassEndsJob DEF FinishFromDisk
<1>2. CASE LookUp(p, j)
  <2>1. RowSteps
    BY <1>2, UnwrittenIsStep DEF LookUp, Inductive, MediaTypeOK
  <2> QED
    BY <1>2, <2>1, PassWaits DEF LookUp, Begins
<1>3. CASE SubmissionUnknown(p, j)
  <2>1. RowSteps
    BY <1>0, <1>3, TryMoved DEF SubmissionUnknown
  <2> QED
    BY <1>3, <2>1, SameCounts, PassEndsJob DEF SubmissionUnknown
<1>4. CASE DeferOrFail(p, j)
  <2>1. RowSteps
    <3>1. CASE Copy(p, j).pollAttempts + 1 >= MaxMissing
      BY <1>0, <1>4, <3>1, TryMoved DEF DeferOrFail
    <3>2. CASE ~ (Copy(p, j).pollAttempts + 1 >= MaxMissing)
      <4> DEFINE to == Copy(p, j).status
      <4>1. TryWrite(p, j, Polled(j, to))
        BY <1>4, <3>2 DEF DeferOrFail
      <4>2. /\ to # "absent" /\ to \in Statuses
            /\ to \in {"queued", "submitting"} => ~ Copy(p, j).providerJobId
        BY <1>4, PassFacts DEF DeferOrFail, Begins, Todo, Copy, PassHolds, PassRecord, Row
      <4>3. to # "submitting"
        BY <1>4, <4>2 DEF DeferOrFail
      <4>4. Polled(j, to).status = to
        BY <4>2, MovedIsRow DEF Inductive
      <4>5. MayMove(p, j, to) /\ to \notin Terminal => Good(j, Polled(j, to))
        <5> SUFFICES ASSUME MayMove(p, j, to), to \notin Terminal
                     PROVE  Good(j, Polled(j, to))
          OBVIOUS
        <5>1. /\ job[j].status \in Statuses \ Terminal
              /\ to = "queued" => job[j].status = "queued"
          BY MayMoveFacts DEF Inductive
        <5>2. to = "queued" => ~ job[j].providerJobId
          BY <5>1 DEF Inductive, Ledger
        <5> QED
          BY <4>2, <4>3, <5>1, <5>2, PolledIsGood
      <4>6. to \notin Terminal
        BY <1>4, PassFacts DEF DeferOrFail, Begins, Todo, Copy, PassHolds
      <4> QED
        BY <1>0, <4>1, <4>4, <4>5, <4>6, TryWriteIsStep DEF Inductive
    <3> QED
      BY <3>1, <3>2
  <2> QED
    BY <1>4, <2>1, SameCounts, PassEndsJob DEF DeferOrFail
<1>5. CASE Inspect(p, j)
  <2>1. RowSteps
    BY <1>0, <1>5, UnwrittenIsStep DEF Inspect, Reads, Inductive, MediaTypeOK
  <2> QED
    BY <1>5, <2>1, PassWaits DEF Inspect, Begins
<1>6. CASE HandleCancellation(p, j)
  <2>1. RowSteps
    BY <1>6, UnwrittenIsStep DEF HandleCancellation, Inductive, MediaTypeOK
  <2> QED
    BY <1>6, <2>1, PassWaits DEF HandleCancellation, Begins
<1>7. CASE PassThrows(p, j)
  <2>1. RowSteps
    BY <1>7, UnwrittenIsStep DEF PassThrows, Inductive, MediaTypeOK
  <2> QED
    BY <1>7, <2>1, SameCounts, PassEndsJob DEF PassThrows
<1> QED
  BY <1>1, <1>2, <1>3, <1>4, <1>5, <1>6, <1>7

(* A pass that goes on waiting, for the query, with the row read again.      *)
LEMMA PassInspects ==
  ASSUME Inductive, NEW p \in Passes, pass[p].at \notin {"idle", "listed"},
         pass' = [pass EXCEPT ![p].at = "inspecting"], Reads(p, pass[p].job), job' = job,
         UNCHANGED <<pollFailures, disk, caller, stopped, offer, workspace, wire, submissions,
                     crashes, cancels>>,
         ProviderStays, \A j \in Jobs : provider'[j] # "none" <=> provider[j] # "none"
  PROVE  Inductive' /\ RowSteps
<1>0. pass[p] \in PassRecord /\ PassHolds(pass[p])
  BY PassFacts
<1>r. PICK r \in PassRecord : r = [pass[p] EXCEPT !.at = "inspecting"]
  BY <1>0 DEF PassRecord
<1>1. pass' = [pass EXCEPT ![p] = r]
  BY <1>r DEF Inductive, MediaTypeOK
<1>2. PassHolds(r)
  BY <1>0, <1>r DEF PassRecord, PassHolds
<1>3. RowSteps
  <2>1. p \in Actors
    BY DEF Actors
  <2>2. fresh' \in [Jobs -> SUBSET Actors]
    BY <2>1 DEF Reads, Inductive, MediaTypeOK
  <2> QED
    BY <2>2, UnwrittenIsStep DEF Inductive
<1>4. WorldStep
  BY DEF WorldStep
<1>5. PassHolds(r)'
  BY <1>2, <1>3, <1>4, PassHoldsStays
<1>6. disk' \subseteq Jobs
  BY DEF Inductive, MediaTypeOK
<1> QED
  BY <1>1, <1>2, <1>3, <1>4, <1>5, <1>6, SameCounts, PassWrites

(* The steps that follow what the adapter answers. *)
LEMMA AnswerKeeps ==
  ASSUME Inductive, NEW p \in Passes,
         \/ LookUpReturns(p) \/ AwaitFails(p) \/ InspectFails(p) \/ CancelReturns(p)
         \/ CheckReturns(p) \/ InspectReturns(p) \/ Download(p) \/ Publish(p)
  PROVE  Inductive' /\ RowSteps
<1> DEFINE j == pass[p].job
<1>0. /\ pass[p].at \notin {"idle", "listed"}
      /\ j \in Jobs /\ p \in Actors /\ job[j].status \in Statuses
  BY WaitingFacts DEF LookUpReturns, AwaitFails, InspectFails, CancelReturns, CheckReturns,
       InspectReturns, Download, Publish
<1>1. CASE LookUpReturns(p)
  <2>1. RowSteps
    BY <1>0, <1>1, TrySubmitted, TryMoved DEF LookUpReturns
  <2> QED
    BY <1>1, <2>1, SameCounts, PassEndsJob DEF LookUpReturns
<1>2. CASE AwaitFails(p)
  BY <1>0, <1>2, PassFails DEF AwaitFails
<1>3. CASE InspectFails(p)
  <2>1. CASE job[j].status \notin Terminal /\ pollFailures[j] + 1 < MaxPollFailures
    <3>1. Write(p, j, Polled(j, job[j].status))
      BY <1>3, <2>1 DEF InspectFails
    <3>2. job[j].status \in {"queued", "submitting"} => ~ job[j].providerJobId
      BY <1>0 DEF Inductive, Ledger
    <3>3. RowSteps
      BY <1>0, <2>1, <3>1, <3>2, PolledIsGood, WriteIsStep DEF Inductive
    <3>4. pollFailures' \in [Jobs -> 0 .. MaxPollFailures - 1]
      BY <1>0, <1>3, <2>1, MediaAssumption DEF InspectFails, Inductive, MediaTypeOK
    <3> QED
      BY <1>3, <3>3, <3>4, PassEndsJob DEF InspectFails
  <2>2. CASE ~ (job[j].status \notin Terminal /\ pollFailures[j] + 1 < MaxPollFailures)
    BY <1>0, <1>3, <2>2, PassFails DEF InspectFails
  <2> QED
    BY <2>1, <2>2
<1>4. CASE CancelReturns(p)
  <2>1. ProviderStays /\ \A i \in Jobs : provider'[i] # "none" <=> provider[i] # "none"
    BY <1>0, <1>4 DEF CancelReturns, ProviderStays, ProviderStates, Working, Inductive, MediaTypeOK
  <2> QED
    BY <1>0, <1>4, <2>1, PassInspects DEF CancelReturns
<1>5. CASE CheckReturns(p)
  <2>0. provider' = provider /\ ProviderStays
    BY <1>5 DEF CheckReturns, OnlyPass, external, ProviderStays, Inductive, MediaTypeOK
  <2>1. CASE provider[j] \in Working /\ MayMove(p, j, "cancel_requested")
    <3>1. Write(p, j, Polled(j, "cancel_requested"))
      BY <1>5, <2>1 DEF CheckReturns
    <3>2. job[j].status \in Statuses \ Terminal
      BY <1>0, <2>1, MayMoveFacts DEF Inductive
    <3>3. "cancel_requested" \in Statuses \ Terminal
      BY DEF Statuses, Terminal
    <3>4. RowSteps
      BY <1>0, <3>1, <3>2, <3>3, PolledIsGood, WriteIsStep DEF Inductive
    <3> QED
      BY <1>5, <2>1, <3>4, SameCounts, PassEndsJob DEF CheckReturns
  <2>2. CASE provider[j] \in Working /\ ~ MayMove(p, j, "cancel_requested")
    BY <1>0, <1>5, <2>2, PassFails DEF CheckReturns
  <2>3. CASE provider[j] \notin Working
    BY <1>0, <1>5, <2>0, <2>3, PassInspects DEF CheckReturns, OnlyPass, external
  <2> QED
    BY <2>1, <2>2, <2>3
<1>6. CASE InspectReturns(p)
  <2> DEFINE to  == Report(provider[j])
             end == IF NoPlaceFor(j, to) THEN "failed" ELSE to
             row == IF provider[j] \in Working THEN Polled(j, to) ELSE Moved(j, end)
  <2>1. CASE MayMove(p, j, to)
    <3>1. provider[j] \in ProviderStates /\ job[j].status \in Statuses \ Terminal
      BY <1>0, <2>1, MayMoveFacts DEF Inductive, MediaTypeOK
    <3>2. Good(j, row)
      <4>1. CASE provider[j] \in Working
        <5>1. to \in {"submitted", "running"}
          BY <4>1 DEF Report, Working
        <5>2. to \in Statuses \ Terminal
          BY <5>1 DEF Statuses, Terminal
        <5> QED
          BY <1>0, <3>1, <4>1, <5>1, <5>2, PolledIsGood
      <4>2. CASE provider[j] \notin Working
        <5>1. to \in {"none", "downloading", "failed", "cancelled"}
              /\ (to = "cancelled" => provider[j] = "cancelled")
          BY <3>1, <4>2 DEF Report, ProviderStates, Working
        <5>2. to \in Statuses
          BY <1>0, <2>1, MayMoveFacts DEF Inductive
        <5> HIDE DEF to
        <5>3. /\ to \in Statuses \ {"queued", "submitting"}
              /\ to \notin {"completed", "submission_unknown"}
          BY <5>1, <5>2
        <5>4. /\ end \in Statuses \ {"queued", "submitting"}
              /\ end \notin {"completed", "submission_unknown"}
              /\ end = "cancelled" => provider[j] = "cancelled"
          BY <5>1, <5>3 DEF Statuses, Terminal
        <5> HIDE DEF end
        <5> QED
          BY <1>0, <3>1, <4>2, <5>4, MovedIsGood
      <4> QED
        BY <4>1, <4>2
    <3>3. Write(p, j, row)
      BY <1>6, <2>1 DEF InspectReturns
    <3>4. RowSteps
      BY <1>0, <3>2, <3>3, WriteIsStep DEF Inductive
    <3>5. pollFailures' \in [Jobs -> 0 .. MaxPollFailures - 1]
      BY <1>6, <2>1, MediaAssumption DEF InspectReturns, Inductive, MediaTypeOK
    <3>6. CASE to = "downloading" /\ ~ NoPlaceFor(j, to)
      <4> DEFINE r == [pass[p] EXCEPT !.at = "downloading"]
      <4>1. pass' = [pass EXCEPT ![p] = r] /\ pass[p] \in PassRecord /\ PassHolds(pass[p])
        BY <1>6, <2>1, <3>6, PassFacts DEF InspectReturns, Inductive, MediaTypeOK
      <4>2. provider[j] = "completed"
        BY <3>1, <3>6 DEF Report, ProviderStates, Working
      <4>3. r \in PassRecord /\ PassHolds(r)
        BY <1>0, <4>1, <4>2 DEF PassRecord, PassHolds
      <4> QED
        BY <1>6, <3>4, <3>5, <4>1, <4>3, PassOnly DEF InspectReturns
    <3>7. CASE ~ (to = "downloading" /\ ~ NoPlaceFor(j, to))
      BY <1>6, <2>1, <3>4, <3>5, <3>7, PassEndsJob DEF InspectReturns
    <3> QED
      BY <3>6, <3>7
  <2>2. CASE ~ MayMove(p, j, to)
    BY <1>0, <1>6, <2>2, PassFails DEF InspectReturns
  <2> QED
    BY <2>1, <2>2
<1>7. CASE Download(p)
  <2>0. pass[p] \in PassRecord /\ PassHolds(pass[p])
    BY PassFacts
  <2>r. PICK r \in PassRecord : r = [pass[p] EXCEPT !.at = "published"]
    BY <2>0 DEF PassRecord
  <2>1. pass' = [pass EXCEPT ![p] = r]
    BY <1>7, <2>r DEF Download, Inductive, MediaTypeOK
  <2>2. provider[j] = "completed" /\ pass[p].at = "downloading"
    BY <1>7, <2>0 DEF Download, PassHolds
  <2>3. r.at = "published" /\ r.job = j /\ r.todo = pass[p].todo
    BY <2>0, <2>r DEF PassRecord
  <2>4. /\ UNCHANGED <<job, provider, caller, stopped, offer, workspace, wire, submissions,
                       crashes, cancels>>
        /\ disk' = disk \cup {j} /\ fresh' = fresh
    BY <1>7 DEF Download, external
  <2>5. RowSteps
    BY <2>4, UnwrittenIsStep DEF Inductive, MediaTypeOK
  <2>6. WorldStep
    BY <2>4 DEF WorldStep, ProviderStays, Inductive, MediaTypeOK
  <2>7. PassHolds(r)'
    <3>1. r.at' = r.at /\ r.job' = r.job /\ r.todo' = r.todo
      OBVIOUS
    <3> QED
      BY <1>0, <2>0, <2>2, <2>3, <2>4, <3>1 DEF PassHolds, Exists
  <2>8. disk' \subseteq Jobs /\ \A i \in disk' \ disk : provider[i] = "completed"
    BY <1>0, <2>2, <2>4 DEF Inductive, MediaTypeOK
  <2>9. pollFailures' \in [Jobs -> 0 .. MaxPollFailures - 1]
    BY <1>7, SameCounts DEF Download
  <2> QED
    BY <2>1, <2>3, <2>4, <2>5, <2>6, <2>7, <2>8, <2>9, PassWrites
<1>8. CASE Publish(p)
  <2>1. CASE MayMove(p, j, "completed")
    <3>1. j \in disk
      BY <1>8, PassFacts DEF Publish, PassHolds
    <3>2. "completed" \in Statuses \ {"queued", "submitting"}
      BY DEF Statuses, Terminal
    <3>3. job[j].status \in Statuses \ Terminal
      BY <1>0, <2>1, MayMoveFacts DEF Inductive
    <3>4. Good(j, Moved(j, "completed"))
      BY <1>0, <3>1, <3>2, <3>3, MovedIsGood
    <3>5. RowSteps
      BY <1>0, <1>8, <2>1, <3>4, WriteIsStep DEF Publish, Inductive
    <3> QED
      BY <1>8, <2>1, <3>5, SameCounts, PassEndsJob DEF Publish
  <2>2. CASE ~ MayMove(p, j, "completed")
    BY <1>0, <1>8, <2>2, PassFails DEF Publish
  <2> QED
    BY <2>1, <2>2
<1> QED
  BY <1>1, <1>2, <1>3, <1>4, <1>5, <1>6, <1>7, <1>8

LEMMA PassStepKeeps ==
  ASSUME Inductive, NEW p \in Passes, PassStep(p)
  PROVE  Inductive' /\ RowSteps
<1>1. CASE PassStops(p)
  <2>1. RowSteps
    BY <1>1, UnwrittenIsStep DEF PassStops, Inductive, MediaTypeOK
  <2> QED
    BY <1>1, <2>1, SameCounts, PassEndsJob DEF PassStops, OnlyPass
<1> QED
  BY <1>1, PassStartKeeps, BeginKeeps, AnswerKeeps DEF PassStep

-----------------------------------------------------------------------------
(* The other steps. *)

LEMMA MadeRow ==
  ASSUME Inductive, NEW j \in Jobs, ~ Known(j)
  PROVE  /\ Good(j, [Absent EXCEPT !.status = "submitting"])
         /\ Good(j, [Absent EXCEPT !.status = "queued", !.due = TRUE])
<1>1. job[j].status = "absent" /\ ~ job[j].providerJobId
  BY DEF Known, Inductive, Ledger
<1> QED
  BY <1>1, AbsentIsRow DEF Good, Absent, Row, Statuses, Terminal

(* A step that leaves the submissions, the passes and the world alone. *)
LEMMA RowsOnly ==
  ASSUME Inductive, RowSteps, CountersOK',
         UNCHANGED <<caller, pass, disk, wire, provider, submissions>>
  PROVE  Inductive' /\ RowSteps
<1>1. WorldStep
  BY SameWorld DEF Inductive
<1>2. Ledger'
  BY LedgerStays
<1>3. CallersHold'
  <2>1. \A j : Exists(j) => Exists(j)'
    BY ExistsStays
  <2> QED
    BY <2>1 DEF CallersHold, Inductive, Holders
<1>4. PassesHold'
  <2>1. ASSUME NEW q \in Passes
        PROVE  PassHolds(pass[q])'
    <3>1. pass[q] \in PassRecord /\ PassHolds(pass[q])
      BY PassFacts
    <3>2. \A x \in PassRecord : PassHolds(x) => PassHolds(x)'
      BY <1>1, PassHoldsStays
    <3> QED
      BY <3>1, <3>2 DEF PassHolds, Exists
  <2> QED
    BY <2>1 DEF PassesHold
<1>5. /\ caller' \in [Callers -> CallerRecord] /\ pass' \in [Passes -> PassRecord]
      /\ wire' \in [Jobs -> {"none", "sent", "taken", "refused"}]
      /\ submissions' \in [Jobs -> Nat] /\ disk' \subseteq Jobs
  BY DEF Inductive, MediaTypeOK, CallerRecord, PassRecord
<1> QED
  BY <1>1, <1>2, <1>3, <1>4, <1>5, Assemble

LEMMA ClockAndCancelKeep ==
  ASSUME Inductive, NEW j \in Jobs, BecomesDue(j) \/ RequestCancellation(j)
  PROVE  Inductive' /\ RowSteps
<1>1. CASE BecomesDue(j)
  <2>1. job[j] \in Row /\ job[j].status \notin Terminal \cup {"absent"}
    BY <1>1 DEF BecomesDue, Active, Inductive, MediaTypeOK
  <2>2. Good(j, [job[j] EXCEPT !.due = TRUE])
    BY <2>1 DEF Good, Row, Terminal, Inductive, Ledger
  <2>3. job' = [job EXCEPT ![j] = [job[j] EXCEPT !.due = TRUE]]
    BY <1>1 DEF BecomesDue, Inductive, MediaTypeOK
  <2>4. RowSteps
    BY <1>1, <2>2, <2>3, RewriteIsStep DEF BecomesDue, Inductive, MediaTypeOK
  <2>5. CountersOK' /\ UNCHANGED <<caller, pass, disk, wire, provider, submissions>>
    BY <1>1 DEF BecomesDue, external, CountersOK, Inductive, MediaTypeOK
  <2> QED
    BY <2>4, <2>5, RowsOnly
<1>2. CASE RequestCancellation(j)
  <2>1. job[j].status \in Statuses \ Terminal
    BY <1>2 DEF RequestCancellation, Active, Inductive, MediaTypeOK, Row
  <2>2. "cancel_requested" \in Statuses \ {"queued", "submitting"}
    BY DEF Statuses
  <2>3. Good(j, Moved(j, "cancel_requested"))
    BY <2>1, <2>2, MovedIsGood
  <2>4. fresh' \in [Jobs -> SUBSET Actors]
    BY <1>2 DEF RequestCancellation, Inductive, MediaTypeOK
  <2>5. RowSteps
    BY <1>2, <2>3, <2>4, RewriteIsStep DEF RequestCancellation, Inductive
  <2>6. CountersOK' /\ UNCHANGED <<caller, pass, disk, wire, provider, submissions>>
    BY <1>2 DEF RequestCancellation, CountersOK, Inductive, MediaTypeOK
  <2> QED
    BY <2>5, <2>6, RowsOnly
<1> QED
  BY <1>1, <1>2

(* The provider goes on; what it has it keeps having. *)
LEMMA ProviderKeeps ==
  ASSUME Inductive, NEW j \in Jobs, ProviderStep(j)
  PROVE  Inductive' /\ RowSteps
<1>1. UNCHANGED <<job, fresh, disk, caller, pass, pollFailures, stopped, offer, workspace,
                  submissions, crashes, cancels>>
  BY DEF ProviderStep, ProviderTakes, ProviderRefuses, ProviderWorks
<1>2. RowSteps
  BY <1>1, UnwrittenIsStep DEF Inductive, MediaTypeOK
<1>3. ProviderStays /\ wire' \in [Jobs -> {"none", "sent", "taken", "refused"}]
  <2>1. CASE ProviderTakes(j)
    BY <2>1 DEF ProviderTakes, ProviderStays, ProviderStates, Working, Inductive, MediaTypeOK,
                Ledger
  <2>2. CASE ProviderRefuses(j)
    BY <2>2 DEF ProviderRefuses, ProviderStays, Inductive, MediaTypeOK
  <2>3. CASE ProviderWorks(j)
    BY <2>3 DEF ProviderWorks, ProviderStays, ProviderStates, Working, Inductive, MediaTypeOK
  <2> QED
    BY <2>1, <2>2, <2>3 DEF ProviderStep
<1>4. Ledger'
  <2>1. CASE ProviderTakes(j)
    BY <1>1, <2>1 DEF ProviderTakes, Ledger, Inductive, MediaTypeOK
  <2>2. CASE ProviderRefuses(j)
    BY <1>1, <2>2 DEF ProviderRefuses, Ledger, Inductive, MediaTypeOK
  <2>3. CASE ProviderWorks(j)
    BY <1>1, <2>3 DEF ProviderWorks, Ledger, Inductive, MediaTypeOK, Working
  <2> QED
    BY <2>1, <2>2, <2>3 DEF ProviderStep
<1>5. WorldStep
  BY <1>1, <1>3 DEF WorldStep
<1>6. CallersHold'
  BY <1>1 DEF CallersHold, Exists, Inductive, Holders
<1>7. PassesHold'
  <2>1. ASSUME NEW q \in Passes
        PROVE  PassHolds(pass[q])'
    <3>1. pass[q] \in PassRecord /\ PassHolds(pass[q])
      BY PassFacts
    <3>2. \A x \in PassRecord : PassHolds(x) => PassHolds(x)'
      BY <1>2, <1>5, PassHoldsStays
    <3> QED
      BY <1>1, <3>1, <3>2 DEF PassHolds, Exists
  <2> QED
    BY <2>1 DEF PassesHold
<1>8. /\ caller' \in [Callers -> CallerRecord] /\ pass' \in [Passes -> PassRecord]
      /\ submissions' \in [Jobs -> Nat] /\ disk' \subseteq Jobs /\ disk' = disk /\ CountersOK'
  BY <1>1 DEF Inductive, MediaTypeOK, CallerRecord, PassRecord, CountersOK
<1> QED
  BY <1>2, <1>3, <1>4, <1>5, <1>6, <1>7, <1>8, Assemble

LEMMA SubmitKeeps ==
  ASSUME Inductive, NEW c \in Callers, NEW j \in Jobs, Submit(c, j)
  PROVE  Inductive' /\ RowSteps
<1> DEFINE row == [Absent EXCEPT !.status = "submitting"]
<1>2. Good(j, row) /\ row.status = "submitting" /\ c \in Actors
  BY MadeRow DEF Submit, Actors, Absent
<1>3. Write(c, j, row)
  BY DEF Submit
<1>4. RowSteps
  BY <1>2, <1>3, WriteIsStep DEF Inductive
<1>5. job'[j] = row
  BY <1>3 DEF Write, Inductive, MediaTypeOK
<1>6. /\ UNCHANGED <<disk, pass, pollFailures, stopped, offer, workspace, provider, crashes, cancels>>
      /\ caller' = [caller EXCEPT ![c] = [at |-> "sent", job |-> j]]
      /\ wire' = [wire EXCEPT ![j] = "sent"]
      /\ submissions' = [submissions EXCEPT ![j] = @ + 1]
      /\ ~ Known(j)
  BY DEF Submit
<1>7. WorldStep
  BY <1>6, SameWorld DEF Inductive
<1>8. Ledger'
  <2> SUFFICES ASSUME NEW i \in Jobs
               PROVE  /\ submissions'[i] = IF wire'[i] = "none" THEN 0 ELSE 1
                      /\ job'[i].status = "absent" => wire'[i] = "none"
                      /\ provider'[i] # "none" => wire'[i] = "taken"
                      /\ wire'[i] = "taken" => provider'[i] # "none"
                      /\ job'[i].status \in {"absent", "queued", "submitting"}
                           => ~ job'[i].providerJobId
    BY DEF Ledger
  <2>1. CASE i = j
    <3>1. wire[j] = "none" \/ job[j].status # "absent"
      BY DEF Inductive, Ledger
    <3>2. submissions'[j] = 1 /\ wire'[j] = "sent" /\ provider[j] = "none"
      BY <1>6, <3>1 DEF Known, Inductive, Ledger, MediaTypeOK
    <3> QED
      BY <1>2, <1>5, <1>6, <2>1, <3>2 DEF Good
  <2>2. CASE i # j
    BY <1>3, <1>6, <2>2 DEF Write, Inductive, Ledger, MediaTypeOK
  <2> QED
    BY <2>1, <2>2
<1>9. CallersHold'
  <2>1. \A i : Exists(i) => Exists(i)'
    BY <1>4, ExistsStays
  <2>2. Exists(j)'
    BY <1>2, <1>5 DEF Exists
  <2> QED
    BY <1>6, <2>1, <2>2 DEF CallersHold, Inductive, MediaTypeOK, Holders
<1>10. PassesHold'
  <2>1. ASSUME NEW q \in Passes
        PROVE  PassHolds(pass[q])'
    <3>1. pass[q] \in PassRecord /\ PassHolds(pass[q])
      BY PassFacts
    <3>2. \A x \in PassRecord : PassHolds(x) => PassHolds(x)'
      BY <1>4, <1>7, PassHoldsStays
    <3> QED
      BY <1>6, <3>1, <3>2 DEF PassHolds, Exists
  <2> QED
    BY <2>1 DEF PassesHold
<1>11. /\ caller' \in [Callers -> CallerRecord] /\ pass' \in [Passes -> PassRecord]
       /\ submissions' \in [Jobs -> Nat] /\ disk' \subseteq Jobs /\ CountersOK'
       /\ wire' \in [Jobs -> {"none", "sent", "taken", "refused"}]
  BY <1>6 DEF Inductive, MediaTypeOK, CallerRecord, PassRecord, CountersOK
<1> QED
  BY <1>4, <1>6, <1>7, <1>8, <1>9, <1>10, <1>11, Assemble

LEMMA IdlePassHolds == IdlePass \in PassRecord /\ PassHolds(IdlePass) /\ PassHolds(IdlePass)'
BY NoCopyIsRow DEF IdlePass, PassRecord, PassHolds

(* A process that begins anew holds nothing. *)
LEMMA NewProcessKeeps ==
  ASSUME Inductive, RowSteps, MemoryLost, crashes' = crashes + 1
  PROVE  Inductive' /\ RowSteps
<1>1. UNCHANGED <<disk, offer, workspace, wire, provider, submissions, cancels>>
  BY DEF MemoryLost
<1>2. WorldStep
  BY <1>1, SameWorld DEF Inductive
<1>3. Ledger'
  BY <1>1, LedgerStays
<1>4. caller' \in [Callers -> CallerRecord] /\ CallersHold'
  BY DEF MemoryLost, IdleCaller, CallerRecord, CallersHold
<1>5. pass' \in [Passes -> PassRecord] /\ PassesHold'
  BY IdlePassHolds DEF MemoryLost, PassesHold, PassHolds
<1>6. CountersOK'
  <2>1. 0 \in 0 .. MaxPollFailures - 1
    BY MediaAssumption
  <2>2. pollFailures' \in [Jobs -> 0 .. MaxPollFailures - 1] /\ stopped' \in BOOLEAN
    BY <2>1 DEF MemoryLost
  <2> QED
    BY <1>1, <2>2 DEF CountersOK, Inductive, MediaTypeOK
<1>7. /\ wire' \in [Jobs -> {"none", "sent", "taken", "refused"}]
      /\ submissions' \in [Jobs -> Nat] /\ disk' \subseteq Jobs
  BY <1>1 DEF Inductive, MediaTypeOK
<1> QED
  BY <1>1, <1>2, <1>3, <1>4, <1>5, <1>6, <1>7, Assemble

LEMMA WorkspaceKeeps ==
  ASSUME Inductive, NEW j \in Jobs, WorkspaceChanges(j)
  PROVE  Inductive' /\ RowSteps
<1>1. RowSteps
  BY UnwrittenIsStep DEF WorkspaceChanges, Inductive, MediaTypeOK
<1>2. CountersOK' /\ UNCHANGED <<caller, pass, disk, wire, provider, submissions>>
  BY DEF WorkspaceChanges, CountersOK, Inductive, MediaTypeOK
<1> QED
  BY <1>1, <1>2, RowsOnly

LEMMA ProcessKeeps ==
  ASSUME Inductive, Dispose \/ Restart \/ \E j \in Jobs : KilledBeforeClaim(j)
  PROVE  Inductive' /\ RowSteps
<1>1. CASE Dispose
  <2>1. RowSteps
    BY <1>1, UnwrittenIsStep DEF Dispose, Inductive, MediaTypeOK
  <2>2. CountersOK' /\ UNCHANGED <<caller, pass, disk, wire, provider, submissions>>
    BY <1>1 DEF Dispose, external, CountersOK, Inductive, MediaTypeOK
  <2> QED
    BY <2>1, <2>2, RowsOnly
<1>2. CASE Restart
  <2>1. RowSteps
    BY <1>2, UnwrittenIsStep DEF Restart, Inductive
  <2> QED
    BY <1>2, <2>1, NewProcessKeeps DEF Restart
<1>3. CASE \E j \in Jobs : KilledBeforeClaim(j)
  <2>1. PICK j \in Jobs : KilledBeforeClaim(j)
    BY <1>3
  <2>2. Good(j, [Absent EXCEPT !.status = "queued", !.due = TRUE])
    BY <2>1, MadeRow DEF KilledBeforeClaim
  <2>3. fresh' \in [Jobs -> SUBSET Actors]
    BY <2>1 DEF KilledBeforeClaim
  <2>4. RowSteps
    BY <2>1, <2>2, <2>3, RewriteIsStep DEF KilledBeforeClaim, Inductive
  <2> QED
    BY <2>1, <2>4, NewProcessKeeps DEF KilledBeforeClaim
<1> QED
  BY <1>1, <1>2, <1>3

-----------------------------------------------------------------------------
(* Theorems. *)

LEMMA InitInductive == Init => Inductive
<1> SUFFICES ASSUME Init PROVE Inductive
  OBVIOUS
<1>1. MediaTypeOK
  <2>1. 0 \in 0 .. MaxPollFailures - 1
    BY MediaAssumption
  <2>2. IdleCaller \in CallerRecord /\ IdlePass \in PassRecord
    BY IdlePassHolds DEF IdleCaller, CallerRecord
  <2>3. /\ job \in [Jobs -> Row] /\ pollFailures \in [Jobs -> 0 .. MaxPollFailures - 1]
        /\ provider \in [Jobs -> ProviderStates]
    BY <2>1, AbsentIsRow DEF Init, ProviderStates
  <2>4. caller \in [Callers -> CallerRecord] /\ pass \in [Passes -> PassRecord]
    BY <2>2 DEF Init
  <2> QED
    BY <2>3, <2>4 DEF Init, MediaTypeOK, CallerRecord, PassRecord, WorkspaceStates
<1>2. Ledger /\ OutcomeIsEarned
  BY DEF Init, Ledger, OutcomeIsEarned, Absent
<1>3. Holders
  BY IdlePassHolds DEF Init, Holders, CallersHold, PassesHold, IdleCaller
<1> QED
  BY <1>1, <1>2, <1>3 DEF Inductive

LEMMA NextInductive == Inductive /\ [Next]_mediaVars => Inductive' /\ RowSteps
<1> SUFFICES ASSUME Inductive, [Next]_mediaVars PROVE Inductive' /\ RowSteps
  OBVIOUS
<1>1. CASE UNCHANGED mediaVars
  <2>1. RowSteps
    BY <1>1, UnwrittenIsStep DEF mediaVars, Inductive, MediaTypeOK
  <2>2. CountersOK' /\ UNCHANGED <<caller, pass, disk, wire, provider, submissions>>
    BY <1>1 DEF mediaVars, external, CountersOK, Inductive, MediaTypeOK
  <2> QED
    BY <2>1, <2>2, RowsOnly
<1>2. CASE Next
  BY <1>2, SubmitKeeps, ClockAndCancelKeep, ProviderKeeps, ProcessKeeps, WorkspaceKeeps,
     CallerStepKeeps, PassStepKeeps DEF Next
<1> QED
  BY <1>1, <1>2

(* MediaGeneration is typed, with the pass of a worker never on a job that   *)
(* is not there.                                                             *)
THEOREM MediaTypeCorrect == MediaSpec => []MediaTypeOK
<1>1. Inductive => MediaTypeOK
  BY DEF Inductive
<1> QED
  BY <1>1, InitInductive, NextInductive, PTL DEF MediaSpec

(* No request is submitted to the provider twice: submissions of a request   *)
(* count what is on its wire, and only a request without a row is sent.      *)
THEOREM SubmittedOnce == MediaSpec => []OneSubmission
<1>1. Inductive => OneSubmission
  BY DEF Inductive, Ledger, OneSubmission
<1> QED
  BY <1>1, InitInductive, NextInductive, PTL DEF MediaSpec

(* Completed, cancelled and unknown are said only of a job that has earned   *)
(* it, whichever passes and submissions write over one another, and whatever  *)
(* becomes of their workspaces.                                              *)
THEOREM OutcomesEarned == MediaSpec => []OutcomeIsEarned
<1>1. Inductive => OutcomeIsEarned
  BY DEF Inductive
<1> QED
  BY <1>1, InitInductive, NextInductive, PTL DEF MediaSpec
(* The row of a job that has ended is written no more, and no write drops    *)
(* the provider's identity.                                                  *)
THEOREM EndsForGood == MediaSpec => EndedForGood
<1>1. Inductive /\ RowSteps => \A j \in Jobs :
        /\ job[j].status \in Terminal => job'[j] = job[j]
        /\ job[j].providerJobId => job'[j].providerJobId
  BY DEF RowSteps, RowStep, Good
<1>2. Inductive /\ [Next]_mediaVars => [\A j \in Jobs :
        /\ job[j].status \in Terminal => job'[j] = job[j]
        /\ job[j].providerJobId => job'[j].providerJobId]_mediaVars
  BY <1>1, NextInductive
<1> QED
  BY <1>2, InitInductive, NextInductive, PTL DEF MediaSpec, EndedForGood
=============================================================================
