------------------------- MODULE SessionRunJournal -------------------------
(***************************************************************************)
(* The durable run journal of the server (session-run-journal.ts): one     *)
(* SQLite row per run, the generation counter, the ordered lifecycle feed  *)
(* read by the desktop and the cloud, and the terminal outbox read by      *)
(* notification clients.  Every operator below is one BEGIN IMMEDIATE ..   *)
(* COMMIT transaction; a transaction that throws is rolled back and leaves *)
(* every variable as it was, so it has no operator of its own.             *)
(*                                                                         *)
(* Abstracted: titles, time stamps, origins, start correlation ids and the *)
(* revision columns (bookkeeping no decision reads); the diagnostic table  *)
(* session_run_journal (written by every transaction, never read back by   *)
(* the program's logic); and purge, which deletes terminals 30 days old: a *)
(* behaviour here is shorter than the retention.                           *)
(***************************************************************************)
EXTENDS Naturals, Sequences

CONSTANTS
  Sessions,        \* (workspace, session) keys
  RunIds,          \* identities randomUUID may produce
  Commands,        \* abort correlation ids sent by remote clients
  NoCommand        \* SQL NULL / null: the local renderer sends no id

ASSUME CommandAssumption == NoCommand \notin Commands

VARIABLES
  generation,      \* session_run_generation.value
  rows,            \* session_runs: run id -> row
  feed,            \* session_lifecycle_feed in sequence order
  outbox           \* session_run_terminals in id order

journalVars == <<generation, rows, feed, outbox>>

AbortCommands == Commands \cup {NoCommand}
ActiveStatus  == {"starting", "running", "waiting", "retrying", "aborting"}
RunOutcome    == {"completed", "failed", "aborted"}
RowReason     == RunOutcome \cup {"dispatch_failed", "null"}

Row == [session  : Sessions,
        gen      : Nat \ {0},
        status   : ActiveStatus \cup {"terminal"},
        observed : BOOLEAN,
        abortCmd : AbortCommands,
        reason   : RowReason]

FeedEntry == [run : RunIds, session : Sessions, gen : Nat \ {0},
              status : RunOutcome \cup {"running"}]
Terminal  == [run : RunIds, reason : RunOutcome]

(* A map with one key set, and a map with one key removed. *)
Put(f, k, v) == [x \in DOMAIN f \cup {k} |-> IF x = k THEN v ELSE f[x]]
Drop(f, k)   == [x \in DOMAIN f \ {k} |-> f[x]]

-----------------------------------------------------------------------------
(* Mutant: listActive without terminal_reason IS NULL. *)
EveryRow == DOMAIN rows

(* terminal_reason IS NULL *)
IsOpen(r)   == r \in DOMAIN rows /\ rows[r].reason = "null"
OpenRuns    == {r \in DOMAIN rows : rows[r].reason = "null"}

(* appendFeed: next_sequence advances with the insert, so the sequence      *)
(* number of an entry is its position.                                      *)
Published(s, run, status) ==
  Append(feed, [run |-> run.id, session |-> s, gen |-> run.gen, status |-> status])

JournalInit ==
  /\ generation = 0
  /\ rows = [r \in {} |-> {}]
  /\ feed = <<>>
  /\ outbox = <<>>

(* Mutant: the counter is read but not written back. *)
AllocateWithoutCommit == UNCHANGED generation

AllocateGeneration == generation' = generation + 1

(* record, event run_reserved.  run_id is UNIQUE and session_runs_one_active *)
(* refuses a second open row of the session.                                *)
RecordReserved(s, run) ==
  /\ run.id \notin DOMAIN rows
  /\ \A r \in OpenRuns : rows[r].session # s
  /\ rows' = Put(rows, run.id,
                 [session |-> s, gen |-> run.gen, status |-> run.status,
                  observed |-> run.observed, abortCmd |-> run.abortCmd,
                  reason |-> "null"])
  /\ UNCHANGED <<feed, outbox>>

(* record, the events that leave the run active.  A progress event for a    *)
(* known run whose row is already closed is tolerated; every other event    *)
(* throws session_run_update_conflict.                                      *)
RecordUpdate(event, s, run) ==
  /\ \/ /\ IsOpen(run.id)
        /\ rows[run.id].session = s
        /\ rows' = [rows EXCEPT ![run.id] =
                      [@ EXCEPT !.status = run.status, !.observed = run.observed,
                                !.abortCmd = run.abortCmd]]
     \/ /\ ~ IsOpen(run.id)
        /\ event = "progress"
        /\ run.id \in DOMAIN rows
        /\ rows' = rows
  /\ feed' = IF \/ event = "run_started"
                \/ event = "title_updated" /\ run.status # "starting"
             THEN Published(s, run, "running")
             ELSE feed
  /\ UNCHANGED <<generation, outbox>>

(* Mutant: the row is marked terminal but keeps terminal_reason NULL. *)
RecordUnclosed(event, s, run, reason) ==
  /\ IsOpen(run.id)
  /\ rows' = [rows EXCEPT ![run.id].status = "terminal"]
  /\ feed' = IF reason \in RunOutcome THEN Published(s, run, reason) ELSE feed
  /\ UNCHANGED <<generation, outbox>>

(* Mutant: an aborted run is not announced to the notification clients. *)
RecordClosedQuietly(event, s, run, reason) ==
  /\ IsOpen(run.id)
  /\ rows' = [rows EXCEPT ![run.id] = [@ EXCEPT !.status = "terminal", !.reason = reason]]
  /\ feed' = IF reason \in RunOutcome THEN Published(s, run, reason) ELSE feed
  /\ outbox' = IF reason \in RunOutcome \ {"aborted"}
               THEN Append(outbox, [run |-> run.id, reason |-> reason])
               ELSE outbox
  /\ UNCHANGED generation

(* record, events run_terminal and start_rolled_back.  Closing a row that   *)
(* is not open throws session_run_terminal_conflict.                        *)
RecordClosed(event, s, run, reason) ==
  /\ IsOpen(run.id)
  /\ rows[run.id].session = s
  /\ rows' = [rows EXCEPT ![run.id] = [@ EXCEPT !.status = "terminal", !.reason = reason]]
  /\ feed' = IF reason \in RunOutcome THEN Published(s, run, reason) ELSE feed
  /\ outbox' = IF /\ event = "run_terminal"
                  /\ reason \in RunOutcome
                  /\ \A i \in DOMAIN outbox : outbox[i].run # run.id
               THEN Append(outbox, [run |-> run.id, reason |-> reason])
               ELSE outbox
  /\ UNCHANGED generation

JournalTypeOK ==
  /\ generation \in Nat
  /\ DOMAIN rows \subseteq RunIds
  /\ \A r \in DOMAIN rows : rows[r] \in Row
  /\ feed \in Seq(FeedEntry)
  /\ outbox \in Seq(Terminal)
=============================================================================
