----------------------- MODULE SessionMutationProofs -----------------------
(***************************************************************************)
(* Theorems about the coordinator and its journal, for every set of        *)
(* sessions, runs and abort commands, every bound and any number of        *)
(* concurrent requests.                                                    *)
(*                                                                         *)
(* TypeOK and JournalMirrorsMemory are inductive together: the journal     *)
(* stays typed because the run a transaction writes is the typed run in    *)
(* memory, the memory stays typed across a restart because the open rows   *)
(* mirror it.                                                              *)
(***************************************************************************)
EXTENDS SessionMutation, TLAPS

(* The memory's share of TypeOK, and what the operations preserve. *)
RunsTypeOK ==
  /\ DOMAIN runs \subseteq Sessions
  /\ \A s \in DOMAIN runs : runs[s] \in Run

StateOK == JournalTypeOK /\ RunsTypeOK /\ JournalMirrorsMemory

TicketsOK == starts \subseteq StartTicket /\ aborts \subseteq AbortTicket

-----------------------------------------------------------------------------
(* A sequence stays typed when a typed element is appended. *)
LEMMA AppendTyped ==
  ASSUME NEW S, NEW q \in Seq(S), NEW e \in S
  PROVE  Append(q, e) \in Seq(S)
OBVIOUS

-----------------------------------------------------------------------------
(* The three ways a transaction and the memory move together. *)

(* An active run is typed, its open row mirrors it, and no other session     *)
(* holds it.                                                                 *)
LEMMA MirroredRun ==
  ASSUME StateOK, NEW s \in DOMAIN runs
  PROVE  /\ s \in Sessions /\ runs[s] \in Run
         /\ IsOpen(runs[s].id) /\ runs[s].id \in DOMAIN rows
         /\ rows[runs[s].id] \in Row
         /\ rows[runs[s].id].session = s /\ rows[runs[s].id].gen = runs[s].gen
         /\ rows[runs[s].id].status = runs[s].status /\ rows[runs[s].id].reason = "null"
         /\ rows[runs[s].id].observed = runs[s].observed
         /\ rows[runs[s].id].abortCmd = runs[s].abortCmd
         /\ \A t \in DOMAIN runs : runs[t].id = runs[s].id => t = s
<1>1. s \in Sessions /\ runs[s] \in Run
  BY DEF StateOK, RunsTypeOK
<1>2. \A t \in DOMAIN runs :
        /\ IsOpen(runs[t].id)
        /\ rows[runs[t].id] =
             [session |-> t, gen |-> runs[t].gen, status |-> runs[t].status,
              observed |-> runs[t].observed, abortCmd |-> runs[t].abortCmd,
              reason |-> "null"]
  BY DEF StateOK, JournalMirrorsMemory
<1>3. ASSUME NEW t \in DOMAIN runs
      PROVE  rows[runs[t].id].session = t
  <2>1. rows[runs[t].id] =
          [session |-> t, gen |-> runs[t].gen, status |-> runs[t].status,
           observed |-> runs[t].observed, abortCmd |-> runs[t].abortCmd,
           reason |-> "null"]
    BY <1>2
  <2> QED BY <2>1
<1>4. \A t \in DOMAIN runs : runs[t].id = runs[s].id => t = s
  <2> SUFFICES ASSUME NEW t \in DOMAIN runs, runs[t].id = runs[s].id
               PROVE  t = s
    OBVIOUS
  <2>1. rows[runs[t].id].session = t /\ rows[runs[s].id].session = s
    BY <1>3
  <2> QED BY <2>1
<1>5. /\ IsOpen(runs[s].id) /\ runs[s].id \in DOMAIN rows
      /\ rows[runs[s].id] =
           [session |-> s, gen |-> runs[s].gen, status |-> runs[s].status,
            observed |-> runs[s].observed, abortCmd |-> runs[s].abortCmd,
            reason |-> "null"]
  BY <1>2 DEF IsOpen
<1>6. rows[runs[s].id] \in Row
  BY <1>5 DEF StateOK, JournalTypeOK
<1> QED BY <1>1, <1>4, <1>5, <1>6

(* A run that stays active: same identity and fence in both. *)
LEMMA AdvanceKeeps ==
  ASSUME StateOK, NEW event, NEW s \in DOMAIN runs, NEW next \in Run,
         next.id = runs[s].id, next.gen = runs[s].gen,
         Advance(event, s, next)
  PROVE  StateOK'
<1> DEFINE old == runs[s]
<1> USE DEF StateOK
<1>1. /\ s \in Sessions /\ old \in Run
      /\ IsOpen(old.id) /\ old.id \in DOMAIN rows /\ rows[old.id].session = s
      /\ rows[old.id].gen = old.gen /\ rows[old.id].reason = "null"
      /\ rows[old.id] \in Row
  BY MirroredRun
<1>2. /\ rows' = [rows EXCEPT ![old.id] =
                    [@ EXCEPT !.status = next.status, !.observed = next.observed,
                              !.abortCmd = next.abortCmd]]
      /\ feed' = feed \/ feed' = Published(s, next, "running")
      /\ UNCHANGED <<generation, outbox>>
      /\ runs' = Put(runs, s, next)
  BY <1>1 DEF Advance, RecordUpdate, IsOpen
<1>3. /\ DOMAIN rows' = DOMAIN rows
      /\ rows'[old.id] = [session |-> s, gen |-> next.gen, status |-> next.status,
                          observed |-> next.observed, abortCmd |-> next.abortCmd,
                          reason |-> "null"]
      /\ \A r \in DOMAIN rows : r # old.id => rows'[r] = rows[r]
  BY <1>1, <1>2 DEF Row
<1>4. /\ DOMAIN runs' = DOMAIN runs
      /\ runs'[s] = next
      /\ \A t \in DOMAIN runs : t # s => runs'[t] = runs[t]
  BY <1>1, <1>2 DEF Put
<1>5. JournalTypeOK'
  <2>1. rows'[old.id] \in Row
    BY <1>1, <1>3 DEF Run, Row, ActiveStatus, RowReason
  <2>2. \A r \in DOMAIN rows' : rows'[r] \in Row
    BY <2>1, <1>3 DEF JournalTypeOK
  <2>3. [run |-> next.id, session |-> s, gen |-> next.gen, status |-> "running"] \in FeedEntry
    BY <1>1 DEF FeedEntry, Run
  <2>4. feed' \in Seq(FeedEntry)
    BY <2>3, <1>2, AppendTyped DEF Published, JournalTypeOK
  <2> QED BY <2>2, <2>4, <1>2, <1>3 DEF JournalTypeOK
<1>6. RunsTypeOK'
  BY <1>4 DEF RunsTypeOK
<1>7. JournalMirrorsMemory'
  <2>1. \A t \in DOMAIN runs : t # s => runs[t].id # old.id
    BY MirroredRun
  <2>2. ASSUME NEW t \in DOMAIN runs'
        PROVE  /\ IsOpen(runs[t].id)'
               /\ rows'[runs'[t].id] =
                    [session |-> t, gen |-> runs'[t].gen, status |-> runs'[t].status,
                     observed |-> runs'[t].observed, abortCmd |-> runs'[t].abortCmd,
                     reason |-> "null"]
    <3>1. CASE t = s
      BY <3>1, <1>1, <1>3, <1>4 DEF IsOpen
    <3>2. CASE t # s
      <4>1. runs'[t] = runs[t] /\ t \in DOMAIN runs /\ runs[t].id # old.id
        BY <3>2, <1>4, <2>1
      <4>2. IsOpen(runs[t].id) /\ rows'[runs[t].id] = rows[runs[t].id]
        BY <4>1, <1>3 DEF JournalMirrorsMemory, IsOpen
      <4> QED BY <4>1, <4>2, <1>3 DEF JournalMirrorsMemory, IsOpen
    <3> QED BY <3>1, <3>2
  <2>3. ASSUME NEW r \in OpenRuns'
        PROVE  Holds(rows[r].session, r)'
    <3>1. r \in OpenRuns /\ rows'[r].session = rows[r].session
      BY <1>1, <1>3 DEF OpenRuns
    <3>2. Holds(rows[r].session, r)
      BY <3>1 DEF JournalMirrorsMemory
    <3> QED BY <3>1, <3>2, <1>1, <1>4 DEF Holds
  <2> QED BY <2>2, <2>3 DEF JournalMirrorsMemory
<1> QED BY <1>5, <1>6, <1>7

(* A run that is closed leaves both. *)
LEMMA SettleKeeps ==
  ASSUME StateOK, NEW event, NEW s \in DOMAIN runs, NEW reason \in RunOutcome \cup {"dispatch_failed"},
         Settle(event, s, reason)
  PROVE  StateOK'
<1> DEFINE old == runs[s]
<1>1. /\ s \in Sessions /\ old \in Run
      /\ old.id \in DOMAIN rows /\ rows[old.id] \in Row /\ rows[old.id].session = s
  BY MirroredRun
<1>2. /\ rows' = [rows EXCEPT ![old.id] = [@ EXCEPT !.status = "terminal", !.reason = reason]]
      /\ \/ feed' = feed
         \/ reason \in RunOutcome /\ feed' = Published(s, old, reason)
      /\ \/ outbox' = outbox
         \/ reason \in RunOutcome /\ outbox' = Append(outbox, [run |-> old.id, reason |-> reason])
      /\ generation' = generation
      /\ runs' = Drop(runs, s)
  <2>1. RecordClosed(event, s, old, reason) /\ runs' = Drop(runs, s)
    BY DEF Settle
  <2>2. rows' = [rows EXCEPT ![old.id] = [@ EXCEPT !.status = "terminal", !.reason = reason]]
    BY <2>1 DEF RecordClosed
  <2>3. \/ feed' = feed
        \/ reason \in RunOutcome /\ feed' = Published(s, old, reason)
    BY <2>1 DEF RecordClosed
  <2>4. \/ outbox' = outbox
        \/ reason \in RunOutcome /\ outbox' = Append(outbox, [run |-> old.id, reason |-> reason])
    <3>1. CASE /\ event = "run_terminal" /\ reason \in RunOutcome
               /\ \A i \in DOMAIN outbox : outbox[i].run # old.id
      BY <3>1, <2>1 DEF RecordClosed
    <3>2. CASE ~ (/\ event = "run_terminal" /\ reason \in RunOutcome
                  /\ \A i \in DOMAIN outbox : outbox[i].run # old.id)
      BY <3>2, <2>1 DEF RecordClosed
    <3> QED BY <3>1, <3>2
  <2>5. generation' = generation
    BY <2>1 DEF RecordClosed
  <2> QED BY <2>1, <2>2, <2>3, <2>4, <2>5
<1>3. /\ DOMAIN rows' = DOMAIN rows
      /\ rows'[old.id] \in Row /\ rows'[old.id].reason # "null"
      /\ \A r \in DOMAIN rows : r # old.id => rows'[r] = rows[r]
  BY <1>1, <1>2 DEF Row, RowReason, RunOutcome
<1>4. /\ DOMAIN runs' = DOMAIN runs \ {s}
      /\ \A t \in DOMAIN runs : t # s => runs'[t] = runs[t]
  BY <1>2 DEF Drop
<1>5. JournalTypeOK'
  <2>1. \A r \in DOMAIN rows' : rows'[r] \in Row
    BY <1>3 DEF StateOK, JournalTypeOK
  <2>2. feed' \in Seq(FeedEntry)
    <3>1. CASE feed' = feed
      BY <3>1 DEF StateOK, JournalTypeOK
    <3>2. CASE reason \in RunOutcome /\ feed' = Published(s, old, reason)
      <4>1. [run |-> old.id, session |-> s, gen |-> old.gen, status |-> reason] \in FeedEntry
        BY <3>2, <1>1 DEF FeedEntry, Run
      <4> QED BY <4>1, <3>2, AppendTyped DEF Published, StateOK, JournalTypeOK
    <3> QED BY <3>1, <3>2, <1>2
  <2>3. outbox' \in Seq(Terminal)
    <3>1. CASE outbox' = outbox
      BY <3>1 DEF StateOK, JournalTypeOK
    <3>2. CASE reason \in RunOutcome /\ outbox' = Append(outbox, [run |-> old.id, reason |-> reason])
      <4>1. [run |-> old.id, reason |-> reason] \in Terminal
        BY <3>2, <1>1 DEF Terminal, Run
      <4> QED BY <4>1, <3>2, AppendTyped DEF StateOK, JournalTypeOK
    <3> QED BY <3>1, <3>2, <1>2
  <2> QED BY <2>1, <2>2, <2>3, <1>2, <1>3 DEF StateOK, JournalTypeOK
<1>6. RunsTypeOK'
  BY <1>4 DEF StateOK, RunsTypeOK
<1>7. JournalMirrorsMemory'
  <2>1. ASSUME NEW t \in DOMAIN runs'
        PROVE  /\ IsOpen(runs[t].id)'
               /\ rows'[runs'[t].id] =
                    [session |-> t, gen |-> runs'[t].gen, status |-> runs'[t].status,
                     observed |-> runs'[t].observed, abortCmd |-> runs'[t].abortCmd,
                     reason |-> "null"]
    <3>1. /\ t \in DOMAIN runs /\ runs'[t] = runs[t] /\ runs[t].id # old.id
      BY <1>4, MirroredRun
    <3>2. IsOpen(runs[t].id) /\ rows'[runs[t].id] = rows[runs[t].id]
      BY <3>1, <1>3, MirroredRun
    <3> QED BY <3>1, <3>2, <1>3 DEF StateOK, JournalMirrorsMemory, IsOpen
  <2>2. ASSUME NEW r \in OpenRuns'
        PROVE  Holds(rows[r].session, r)'
    <3>1. r \in OpenRuns /\ r # old.id /\ rows'[r] = rows[r]
      BY <1>3 DEF OpenRuns
    <3>2. Holds(rows[r].session, r)
      BY <3>1 DEF StateOK, JournalMirrorsMemory
    <3> QED BY <3>1, <3>2, <1>4 DEF Holds
  <2> QED BY <2>1, <2>2 DEF JournalMirrorsMemory
<1> QED BY <1>5, <1>6, <1>7 DEF StateOK

(* A reservation enters both, under the generation just allocated. *)
LEMMA ReserveKeeps ==
  ASSUME StateOK, NEW s \in Sessions, NEW r \in RunIds, ReserveStart(s, r)
  PROVE  StateOK'
<1> DEFINE new == FreshRun(r)
<1>1. new \in Run
  BY DEF StateOK, JournalTypeOK, FreshRun, Run, ActiveStatus, AbortCommands, IdleSample
<1>2. /\ new.id = r /\ new.status = "starting" /\ new.observed = FALSE
      /\ new.abortCmd = NoCommand /\ new.gen = generation + 1
  BY DEF FreshRun
<1>3. /\ s \notin DOMAIN runs /\ r \notin DOMAIN rows
      /\ generation' = generation + 1
      /\ rows' = Put(rows, r, [session |-> s, gen |-> new.gen, status |-> new.status,
                               observed |-> new.observed, abortCmd |-> new.abortCmd,
                               reason |-> "null"])
      /\ runs' = Put(runs, s, new)
      /\ UNCHANGED <<feed, outbox>>
  BY <1>2 DEF ReserveStart, AllocateGeneration, RecordReserved
<1>4. /\ DOMAIN rows' = DOMAIN rows \cup {r}
      /\ rows'[r] = [session |-> s, gen |-> new.gen, status |-> new.status,
                     observed |-> new.observed, abortCmd |-> new.abortCmd, reason |-> "null"]
      /\ \A q \in DOMAIN rows : q # r /\ rows'[q] = rows[q]
  BY <1>3 DEF Put
<1>5. /\ DOMAIN runs' = DOMAIN runs \cup {s}
      /\ runs'[s] = new
      /\ \A t \in DOMAIN runs : t # s /\ runs'[t] = runs[t]
  BY <1>3 DEF Put
<1>6. JournalTypeOK'
  <2>1. rows'[r] \in Row
    BY <1>1, <1>4 DEF Run, Row, RowReason
  <2>2. \A q \in DOMAIN rows' : rows'[q] \in Row
    BY <2>1, <1>4 DEF StateOK, JournalTypeOK
  <2>3. DOMAIN rows' \subseteq RunIds
    BY <1>4 DEF StateOK, JournalTypeOK
  <2> QED BY <2>2, <2>3, <1>3 DEF StateOK, JournalTypeOK
<1>7. RunsTypeOK'
  BY <1>1, <1>5 DEF StateOK, RunsTypeOK
<1>8. JournalMirrorsMemory'
  <2>1. ASSUME NEW t \in DOMAIN runs'
        PROVE  /\ IsOpen(runs[t].id)'
               /\ rows'[runs'[t].id] =
                    [session |-> t, gen |-> runs'[t].gen, status |-> runs'[t].status,
                     observed |-> runs'[t].observed, abortCmd |-> runs'[t].abortCmd,
                     reason |-> "null"]
    <3>1. CASE t = s
      BY <3>1, <1>2, <1>4, <1>5 DEF IsOpen
    <3>2. CASE t # s
      <4>1. t \in DOMAIN runs /\ runs'[t] = runs[t]
        BY <3>2, <1>5
      <4>2. IsOpen(runs[t].id) /\ runs[t].id \in DOMAIN rows
        BY <4>1, MirroredRun
      <4> QED BY <4>1, <4>2, <1>4 DEF StateOK, JournalMirrorsMemory, IsOpen
    <3> QED BY <3>1, <3>2
  <2>2. ASSUME NEW q \in OpenRuns'
        PROVE  Holds(rows[q].session, q)'
    <3>1. CASE q = r
      BY <3>1, <1>2, <1>4, <1>5 DEF Holds
    <3>2. CASE q # r
      <4>1. q \in OpenRuns /\ rows'[q] = rows[q]
        BY <3>2, <1>4 DEF OpenRuns
      <4>2. Holds(rows[q].session, q)
        BY <4>1 DEF StateOK, JournalMirrorsMemory
      <4> QED BY <4>1, <4>2, <1>5 DEF Holds
    <3> QED BY <3>1, <3>2
  <2> QED BY <2>1, <2>2 DEF JournalMirrorsMemory
<1> QED BY <1>6, <1>7, <1>8 DEF StateOK

(* Only the idle sample of a run changes. *)
LEMMA SampleKeeps ==
  ASSUME StateOK, NEW s \in DOMAIN runs, NEW i \in IdleSample,
         runs' = [runs EXCEPT ![s].idle = i], UNCHANGED journalVars
  PROVE  StateOK'
<1>1. runs[s] \in Run /\ [runs[s] EXCEPT !.idle = i] \in Run
  BY MirroredRun DEF Run
<1>2. /\ DOMAIN runs' = DOMAIN runs
      /\ runs'[s] = [runs[s] EXCEPT !.idle = i]
      /\ \A t \in DOMAIN runs : t # s => runs'[t] = runs[t]
  OBVIOUS
<1>3. \A t \in DOMAIN runs : /\ runs'[t].id = runs[t].id
                             /\ runs'[t].gen = runs[t].gen
                             /\ runs'[t].status = runs[t].status
                             /\ runs'[t].observed = runs[t].observed
                             /\ runs'[t].abortCmd = runs[t].abortCmd
  BY <1>1, <1>2 DEF Run
<1>4. JournalTypeOK'
  BY DEF StateOK, JournalTypeOK, journalVars
<1>5. RunsTypeOK'
  BY <1>1, <1>2 DEF StateOK, RunsTypeOK
<1>6. JournalMirrorsMemory'
  <2>1. ASSUME NEW t \in DOMAIN runs'
        PROVE  /\ IsOpen(runs[t].id)'
               /\ rows'[runs'[t].id] =
                    [session |-> t, gen |-> runs'[t].gen, status |-> runs'[t].status,
                     observed |-> runs'[t].observed, abortCmd |-> runs'[t].abortCmd,
                     reason |-> "null"]
    BY <1>2, <1>3 DEF StateOK, JournalMirrorsMemory, IsOpen, journalVars
  <2>2. ASSUME NEW r \in OpenRuns'
        PROVE  Holds(rows[r].session, r)'
    BY <1>2, <1>3 DEF StateOK, JournalMirrorsMemory, OpenRuns, Holds, journalVars
  <2> QED BY <2>1, <2>2 DEF JournalMirrorsMemory
<1> QED BY <1>4, <1>5, <1>6 DEF StateOK

(* A restart reloads exactly what the open rows mirror. *)
LEMMA RestoreKeeps ==
  ASSUME StateOK, Restore
  PROVE  StateOK'
<1>1. /\ DOMAIN runs' = {rows[r].session : r \in OpenRuns}
      /\ \A s \in DOMAIN runs' : runs'[s] = Restored(s)
      /\ UNCHANGED journalVars
  BY DEF Restore
<1>2. ASSUME NEW r \in OpenRuns
      PROVE  /\ rows[r].session \in DOMAIN runs /\ runs[rows[r].session].id = r
             /\ r \in DOMAIN rows /\ rows[r].reason = "null"
  BY DEF StateOK, JournalMirrorsMemory, Holds, OpenRuns
<1>3. ASSUME NEW s \in DOMAIN runs'
      PROVE  /\ s \in DOMAIN runs
             /\ Restored(s) = [id |-> runs[s].id, gen |-> rows[runs[s].id].gen,
                  status |-> rows[runs[s].id].status, observed |-> rows[runs[s].id].observed,
                  abortCmd |-> rows[runs[s].id].abortCmd,
                  abortAccepted |-> rows[runs[s].id].status = "aborting", idle |-> "null"]
  <2>1. PICK r \in OpenRuns : rows[r].session = s
    BY <1>1
  <2>2. \A q \in OpenRuns : rows[q].session = s => q = runs[s].id
    BY <1>2
  <2>3. (CHOOSE q \in OpenRuns : rows[q].session = s) = runs[s].id
    BY <2>1, <2>2
  <2> QED BY <2>1, <2>3, <1>2 DEF Restored
<1>4. ASSUME NEW s \in DOMAIN runs'
      PROVE  /\ runs'[s] \in Run /\ runs'[s].id = runs[s].id /\ runs'[s].gen = runs[s].gen
             /\ runs'[s].status = runs[s].status /\ runs'[s].observed = runs[s].observed
             /\ runs'[s].abortCmd = runs[s].abortCmd
  <2>1. s \in DOMAIN runs /\ runs'[s] = Restored(s)
    BY <1>1, <1>3
  <2>2. /\ runs[s] \in Run
        /\ rows[runs[s].id].gen = runs[s].gen
        /\ rows[runs[s].id].status = runs[s].status
        /\ rows[runs[s].id].observed = runs[s].observed
        /\ rows[runs[s].id].abortCmd = runs[s].abortCmd
    BY <2>1, MirroredRun
  <2>3. runs'[s] = [id |-> runs[s].id, gen |-> runs[s].gen, status |-> runs[s].status,
                    observed |-> runs[s].observed, abortCmd |-> runs[s].abortCmd,
                    abortAccepted |-> runs[s].status = "aborting", idle |-> "null"]
    BY <2>1, <2>2, <1>3
  <2>4. (runs[s].status = "aborting") \in BOOLEAN
    OBVIOUS
  <2>5. runs'[s] \in Run
    BY <2>2, <2>3, <2>4 DEF Run, IdleSample
  <2> QED BY <2>3, <2>5
<1>5. JournalTypeOK'
  BY <1>1 DEF StateOK, JournalTypeOK, journalVars
<1>6. RunsTypeOK'
  BY <1>3, <1>4 DEF StateOK, RunsTypeOK
<1>7. JournalMirrorsMemory'
  <2>1. ASSUME NEW t \in DOMAIN runs'
        PROVE  /\ IsOpen(runs[t].id)'
               /\ rows'[runs'[t].id] =
                    [session |-> t, gen |-> runs'[t].gen, status |-> runs'[t].status,
                     observed |-> runs'[t].observed, abortCmd |-> runs'[t].abortCmd,
                     reason |-> "null"]
    BY <1>1, <1>3, <1>4 DEF StateOK, JournalMirrorsMemory, IsOpen, journalVars
  <2>2. ASSUME NEW r \in OpenRuns'
        PROVE  Holds(rows[r].session, r)'
    <3>1. r \in OpenRuns /\ rows' = rows
      BY <1>1 DEF OpenRuns, journalVars
    <3>2. rows[r].session \in DOMAIN runs'
      BY <1>1, <3>1
    <3> QED BY <3>1, <3>2, <1>2, <1>4 DEF Holds
  <2> QED BY <2>1, <2>2 DEF JournalMirrorsMemory
<1> QED BY <1>5, <1>6, <1>7 DEF StateOK

(* Nothing changes. *)
LEMMA StutterKeeps ==
  ASSUME StateOK, NoChange
  PROVE  StateOK'
BY DEF StateOK, NoChange, journalVars, JournalTypeOK, RunsTypeOK, JournalMirrorsMemory,
       IsOpen, OpenRuns, Holds

-----------------------------------------------------------------------------
(* The operations, one lemma each: the cases of the operation, each of them *)
(* one of the ways above.                                                   *)

(* acceptStart keeps memory and journal together: the run starts running in  *)
(* both, or only its idle sample is cleared, or nothing changes.             *)
LEMMA AcceptStartKeeps ==
  ASSUME StateOK, NEW s \in Sessions, NEW r \in RunIds, AcceptStart(s, r)
  PROVE  StateOK'
<1>1. CASE /\ Holds(s, r)
           /\ Advance("run_started", s, [runs[s] EXCEPT !.status = "running"])
  <2>1. s \in DOMAIN runs /\ runs[s] \in Run
    BY <1>1, MirroredRun DEF Holds
  <2>2. [runs[s] EXCEPT !.status = "running"] \in Run
    BY <2>1 DEF Run, ActiveStatus
  <2>3. /\ [runs[s] EXCEPT !.status = "running"].id = runs[s].id
        /\ [runs[s] EXCEPT !.status = "running"].gen = runs[s].gen
    BY <2>1 DEF Run
  <2> QED BY <1>1, <2>1, <2>2, <2>3, AdvanceKeeps
<1>2. CASE Holds(s, r) /\ runs' = [runs EXCEPT ![s].idle = "null"] /\ UNCHANGED journalVars
  BY <1>2, SampleKeeps DEF Holds, IdleSample
<1>3. CASE NoChange
  BY <1>3, StutterKeeps
<1> QED BY <1>1, <1>2, <1>3 DEF AcceptStart

(* rollbackStart takes the run out of memory and closes its row, or does     *)
(* nothing when the run is gone.                                             *)
LEMMA RollbackStartKeeps ==
  ASSUME StateOK, NEW s \in Sessions, NEW r \in RunIds, RollbackStart(s, r)
  PROVE  StateOK'
BY SettleKeeps, StutterKeeps DEF RollbackStart, Holds

(* reserveAbort marks the run aborting, under its command, in both.          *)
LEMMA ReserveAbortKeeps ==
  ASSUME StateOK, NEW s \in Sessions, NEW r \in RunIds, NEW c \in AbortCommands,
         ReserveAbort(s, r, c)
  PROVE  StateOK'
<1> DEFINE next == [runs[s] EXCEPT !.status = "aborting", !.abortCmd = c,
                                   !.abortAccepted = FALSE, !.idle = "null"]
<1>1. s \in DOMAIN runs /\ runs[s] \in Run
  BY MirroredRun DEF ReserveAbort, Holds
<1>2. next \in Run /\ next.id = runs[s].id /\ next.gen = runs[s].gen
  BY <1>1 DEF Run, ActiveStatus, IdleSample
<1>3. Advance("abort_requested", s, next)
  BY DEF ReserveAbort
<1> HIDE DEF next
<1> QED BY <1>1, <1>2, <1>3, AdvanceKeeps

(* acceptAbort changes only what a restart rebuilds from the row: that an    *)
(* aborting run counts as accepted.                                          *)
LEMMA AcceptAbortKeeps ==
  ASSUME StateOK, NEW s \in Sessions, NEW r \in RunIds, NEW c \in AbortCommands,
         AcceptAbort(s, r, c)
  PROVE  StateOK'
<1> DEFINE next == [runs[s] EXCEPT !.abortAccepted = TRUE]
<1>1. CASE AbortMatches(s, r, c) /\ Advance("abort_accepted", s, next)
  <2>1. s \in DOMAIN runs /\ runs[s] \in Run
    BY <1>1, MirroredRun DEF AbortMatches, Holds
  <2>2. next \in Run /\ next.id = runs[s].id /\ next.gen = runs[s].gen
    BY <2>1 DEF Run
  <2> HIDE DEF next
  <2> QED BY <1>1, <2>1, <2>2, AdvanceKeeps
<1>2. CASE NoChange
  BY <1>2, StutterKeeps
<1> QED BY <1>1, <1>2 DEF AcceptAbort

(* rollbackAbort puts the previous status back in both.                      *)
LEMMA RollbackAbortKeeps ==
  ASSUME StateOK, NEW s \in Sessions, NEW r \in RunIds, NEW c \in AbortCommands,
         NEW previousStatus \in ActiveStatus, RollbackAbort(s, r, c, previousStatus)
  PROVE  StateOK'
<1> DEFINE next == [runs[s] EXCEPT !.status = previousStatus, !.abortCmd = NoCommand,
                                   !.idle = "null"]
<1>1. CASE AbortMatches(s, r, c) /\ Advance("abort_rolled_back", s, next)
  <2>1. s \in DOMAIN runs /\ runs[s] \in Run
    BY <1>1, MirroredRun DEF AbortMatches, Holds
  <2>2. next \in Run /\ next.id = runs[s].id /\ next.gen = runs[s].gen
    BY <2>1 DEF Run, AbortCommands, IdleSample
  <2> HIDE DEF next
  <2> QED BY <1>1, <2>1, <2>2, AdvanceKeeps
<1>2. CASE NoChange
  BY <1>2, StutterKeeps
<1> QED BY <1>1, <1>2 DEF RollbackAbort

(* observe settles or advances the run in both, whatever status is reported. *)
LEMMA ObserveKeeps ==
  ASSUME StateOK, NEW s \in Sessions, NEW r \in RunIds, NEW status \in ReportedStatus,
         Observe(s, r, status)
  PROVE  StateOK'
<1>1. CASE status = "idle"
  <2>1. ObserveIdle(s, r)
    BY <1>1 DEF Observe, RunOutcome, ActiveStatus
  <2>2. CASE NoChange
    BY <2>2, StutterKeeps
  <2>3. CASE Holds(s, r) /\ \E reason \in {"aborted", "completed"} : Settle("run_terminal", s, reason)
    BY <2>3, SettleKeeps DEF Holds, RunOutcome
  <2> QED BY <2>1, <2>2, <2>3 DEF ObserveIdle
<1>2. CASE status \in RunOutcome
  <2>1. ObserveTerminal(s, r, status)
    BY <1>2 DEF Observe, RunOutcome, ActiveStatus
  <2> QED BY <2>1, <1>2, SettleKeeps, StutterKeeps DEF ObserveTerminal, Holds
<1>3. CASE status \in EngineActivity \cup {"starting", "aborting"}
  <2>1. status \in ActiveStatus /\ status \notin RunOutcome /\ status # "idle"
    BY <1>3, ActivityAssumption DEF ActiveStatus, RunOutcome
  <2>2. ObserveActivity(s, r, status)
    BY <2>1 DEF Observe
  <2> DEFINE next == [runs[s] EXCEPT !.observed = @ \/ status # "starting",
                                     !.status = IF @ = "aborting" THEN @ ELSE status,
                                     !.idle = "null"]
  <2>3. CASE Holds(s, r) /\ Advance("progress", s, next)
    <3>1. s \in DOMAIN runs /\ runs[s] \in Run
      BY <2>3, MirroredRun DEF Holds
    <3>2. next \in Run /\ next.id = runs[s].id /\ next.gen = runs[s].gen
      BY <3>1, <2>1 DEF Run, IdleSample
    <3> HIDE DEF next
    <3> QED BY <2>3, <3>1, <3>2, AdvanceKeeps
  <2>4. CASE NoChange
    BY <2>4, StutterKeeps
  <2> QED BY <2>2, <2>3, <2>4 DEF ObserveActivity
<1> QED BY <1>1, <1>2, <1>3 DEF ReportedStatus

(* reconcileAuthoritativeIdle settles the run in both, or changes only its   *)
(* idle sample.                                                              *)
LEMMA ReconcileKeeps ==
  ASSUME StateOK, NEW s \in Sessions, NEW r \in RunIds, ReconcileAuthoritativeIdle(s, r)
  PROVE  StateOK'
<1> DEFINE next == [runs[s] EXCEPT !.idle = "recent"]
<1>1. CASE Holds(s, r) /\ \E reason \in {"aborted", "completed"} : Settle("run_terminal", s, reason)
  BY <1>1, SettleKeeps DEF Holds, RunOutcome
<1>2. CASE Holds(s, r) /\ Advance("idle_suspected", s, next)
  <2>1. s \in DOMAIN runs /\ runs[s] \in Run
    BY <1>2, MirroredRun DEF Holds
  <2>2. next \in Run /\ next.id = runs[s].id /\ next.gen = runs[s].gen
    BY <2>1 DEF Run, IdleSample
  <2> HIDE DEF next
  <2> QED BY <1>2, <2>1, <2>2, AdvanceKeeps
<1>3. CASE NoChange
  BY <1>3, StutterKeeps
<1> QED BY <1>1, <1>2, <1>3 DEF ReconcileAuthoritativeIdle

(* updateTitle changes neither (titles are abstracted) but publishes an entry. *)
LEMMA UpdateTitleKeeps ==
  ASSUME StateOK, NEW s \in Sessions, UpdateTitle(s)
  PROVE  StateOK'
BY AdvanceKeeps, MirroredRun DEF UpdateTitle

(* Ageing an idle sample is not journaled.                                   *)
LEMMA IntervalKeeps ==
  ASSUME StateOK, NEW s \in Sessions, IntervalElapses(s)
  PROVE  StateOK'
BY SampleKeeps DEF IntervalElapses, IdleSample

(* A reserveStart whose insert throws leaves a gap in the generations and    *)
(* nothing else.                                                             *)
LEMMA ReserveStartFailsKeeps ==
  ASSUME StateOK, NEW s \in Sessions, ReserveStartFails(s)
  PROVE  StateOK'
BY DEF StateOK, ReserveStartFails, AllocateGeneration, JournalTypeOK, RunsTypeOK,
       JournalMirrorsMemory, IsOpen, OpenRuns, Holds

-----------------------------------------------------------------------------
(* The inductive invariant. *)

Inv == StateOK /\ TicketsOK

(* A new database and an empty coordinator agree.                            *)
LEMMA InitInv == Init => Inv
<1> SUFFICES ASSUME Init PROVE Inv
  OBVIOUS
<1>1. DOMAIN runs = {} /\ DOMAIN rows = {} /\ starts = {} /\ aborts = {}
  BY DEF Init, JournalInit
<1>2. JournalTypeOK
  BY <1>1 DEF Init, JournalInit, JournalTypeOK
<1> QED BY <1>1, <1>2 DEF Inv, StateOK, RunsTypeOK, JournalMirrorsMemory, OpenRuns, TicketsOK

(* Every request, observation, rename, failed write and restart preserves the *)
(* invariant: one case per action, each by the lemma of its operation.       *)
LEMMA NextInv == Inv /\ [Next]_vars => Inv'
<1> SUFFICES ASSUME Inv, [Next]_vars PROVE Inv'
  OBVIOUS
<1> USE DEF Inv
<1>1. ASSUME NEW s \in Sessions, NEW r \in RunIds, BeginStart(s, r)
      PROVE  Inv'
  BY <1>1, ReserveKeeps DEF BeginStart, TicketsOK, StartTicket
<1>2. ASSUME NEW s \in Sessions, NEW r \in RunIds, NEW c \in AbortCommands, BeginAbort(s, r, c)
      PROVE  Inv'
  <2>1. s \in DOMAIN runs /\ runs[s] \in Run /\ runs[s].status # "aborting"
    BY <1>2, MirroredRun DEF BeginAbort, ReserveAbort, Holds
  <2>2. [session |-> s, run |-> r, cmd |-> c, prev |-> runs[s].status] \in AbortTicket
    BY <2>1 DEF AbortTicket, Run
  <2> QED BY <1>2, <2>2, ReserveAbortKeeps DEF BeginAbort, TicketsOK
<1>3. ASSUME NEW s \in Sessions, NEW r \in RunIds, NEW status \in ReportedStatus, Report(s, r, status)
      PROVE  Inv'
  BY <1>3, ObserveKeeps DEF Report, RequestVars, TicketsOK
<1>4. ASSUME NEW s \in Sessions, NEW r \in RunIds, SampleIdle(s, r)
      PROVE  Inv'
  BY <1>4, ReconcileKeeps DEF SampleIdle, RequestVars, TicketsOK
<1>5. ASSUME NEW s \in Sessions, BeginStartFails(s)
      PROVE  Inv'
  BY <1>5, ReserveStartFailsKeeps DEF BeginStartFails, RequestVars, TicketsOK
<1>6. ASSUME NEW s \in Sessions, Rename(s)
      PROVE  Inv'
  BY <1>6, UpdateTitleKeeps DEF Rename, RequestVars, TicketsOK
<1>7. ASSUME NEW s \in Sessions, TimePasses(s)
      PROVE  Inv'
  BY <1>7, IntervalKeeps DEF TimePasses, RequestVars, TicketsOK
<1>8. ASSUME NEW t \in starts, FinishStart(t)
      PROVE  Inv'
  <2>1. t.session \in Sessions /\ t.run \in RunIds
    BY DEF TicketsOK, StartTicket
  <2> QED BY <1>8, <2>1, AcceptStartKeeps DEF FinishStart, TicketsOK
<1>9. ASSUME NEW t \in starts, AbandonStart(t)
      PROVE  Inv'
  <2>1. t.session \in Sessions /\ t.run \in RunIds
    BY DEF TicketsOK, StartTicket
  <2> QED BY <1>9, <2>1, RollbackStartKeeps, StutterKeeps DEF AbandonStart, TicketsOK
<1>10. ASSUME NEW t \in aborts, FinishAbort(t)
       PROVE  Inv'
  <2>1. t.session \in Sessions /\ t.run \in RunIds /\ t.cmd \in AbortCommands
    BY DEF TicketsOK, AbortTicket
  <2> QED BY <1>10, <2>1, AcceptAbortKeeps DEF FinishAbort, TicketsOK
<1>11. ASSUME NEW t \in aborts, AbandonAbort(t)
       PROVE  Inv'
  <2>1. /\ t.session \in Sessions /\ t.run \in RunIds /\ t.cmd \in AbortCommands
        /\ t.prev \in ActiveStatus
    BY DEF TicketsOK, AbortTicket
  <2> QED BY <1>11, <2>1, RollbackAbortKeeps, StutterKeeps DEF AbandonAbort, TicketsOK
<1>12. CASE Restart
  BY <1>12, RestoreKeeps DEF Restart, TicketsOK
<1>13. CASE UNCHANGED vars
  <2>1. NoChange /\ UNCHANGED <<starts, aborts>>
    BY <1>13 DEF vars, NoChange, journalVars
  <2> QED BY <2>1, StutterKeeps DEF TicketsOK
<1> QED
  BY <1>1, <1>2, <1>3, <1>4, <1>5, <1>6, <1>7, <1>8, <1>9, <1>10, <1>11, <1>12, <1>13 DEF Next

(* The invariant holds in every reachable state.                             *)
LEMMA Invariance == Spec => []Inv
<1> QED BY InitInv, NextInv, PTL DEF Spec

(* Every variable keeps its type, whatever the requests do and whenever the *)
(* server restarts.                                                         *)
THEOREM TypeCorrect == Spec => []TypeOK
<1>1. Inv => TypeOK
  BY DEF Inv, StateOK, RunsTypeOK, TicketsOK, TypeOK
<1> QED BY <1>1, Invariance, PTL

(* A crash at any point reloads exactly the runs the memory held. *)
THEOREM MemoryIsDurable == Spec => []JournalMirrorsMemory
<1>1. Inv => JournalMirrorsMemory
  BY DEF Inv, StateOK
<1> QED BY <1>1, Invariance, PTL
=============================================================================
