------------------------ MODULE InteractionResolution ------------------------
(***************************************************************************)
(* The coordinator of answers to permissions and questions                 *)
(* (interaction-resolution-coordinator.ts), in the memory of the server.   *)
(*                                                                         *)
(* Every call first settles what time has done to the records (maintain),  *)
(* so a record is stored as it was last written, with the number of its    *)
(* deadlines that have passed since: after the first a pending or resolved *)
(* interaction is expired, after the second it is forgotten.  A reserved   *)
(* one has deadlines that only count once it is rolled back.               *)
(***************************************************************************)
EXTENDS Integers, FiniteSets

CONSTANTS
  Requests,     \* interaction ids of one session
  Resolvers,    \* who may answer one
  MaxPending    \* maxPending

VARIABLE interactions

Forgotten == [status |-> "absent", late |-> 0, holder |-> {}]
Interaction == [status : {"absent", "pending", "reserved", "resolved"}, late : 0 .. 2,
                holder : SUBSET Resolvers]

InteractionsInit == interactions = [r \in Requests |-> Forgotten]

(* status, after maintain. *)
Status(r) ==
  LET i == interactions[r] IN
  IF i.status \in {"absent", "reserved"} \/ i.late = 0 THEN i.status
  ELSE IF i.late = 1 THEN "expired" ELSE "absent"

Unresolved(r) == Status(r) \in {"absent", "pending"}

(* Mutants: an expired interaction is never forgotten, or expires again and  *)
(* again.                                                                    *)
DeadlinePassesOnce(r) ==
  /\ interactions[r].status # "absent" /\ interactions[r].late = 0
  /\ interactions' = [interactions EXCEPT ![r].late = 1]
DeadlinePassesAgain(r) ==
  /\ interactions[r].status # "absent"
  /\ interactions' = [interactions EXCEPT ![r].late = @ + 1]

(* A deadline of the record passes. *)
Later(i) == IF i.late = 1 /\ i.status # "reserved" THEN Forgotten
            ELSE [i EXCEPT !.late = i.late + 1]
DeadlinePasses(r) ==
  /\ interactions[r].status # "absent" /\ interactions[r].late < 2
  /\ interactions' = [interactions EXCEPT ![r] = Later(interactions[r])]

(* What observePending leaves of r, and what it makes the coordinator drop:  *)
(* the oldest pending interaction over the limit, r itself if the others are *)
(* all reserved.  Which of several is the oldest is left open.               *)
Others(r, statuses) == {x \in Requests \ {r} : Status(x) \in statuses}
AtTheLimit(r) == Status(r) = "absent" /\
                   Cardinality(Others(r, {"pending", "reserved"})) >= MaxPending
Evictions(r)  == IF ~ AtTheLimit(r) THEN {{}}
                 ELSE IF Others(r, {"pending"}) = {} THEN {{r}}
                 ELSE {{x} : x \in Others(r, {"pending"})}

Observed(r) == IF Status(r) = "absent"
               THEN [status |-> "pending", late |-> 0, holder |-> {}] ELSE interactions[r]

ObservePending(r) ==
  \E gone \in Evictions(r) :
    interactions' = [x \in Requests |->
      IF x \in gone THEN Forgotten ELSE IF x = r THEN Observed(r) ELSE interactions[x]]

(* observePending and reserve, in one go. *)
Reservable(r) == Unresolved(r) /\ {r} \notin Evictions(r)
Reserve(a, r) ==
  /\ Reservable(r)
  /\ \E gone \in Evictions(r) :
       interactions' = [x \in Requests |->
         IF x \in gone THEN Forgotten
         ELSE IF x = r THEN [Observed(r) EXCEPT !.status = "reserved", !.holder = {a}]
         ELSE interactions[x]]

Holder(a, r) == interactions[r].status = "reserved" /\ a \in interactions[r].holder

(* Mutant: no tombstone. *)
AcceptForgets(a, r) ==
  IF Holder(a, r) THEN interactions' = [interactions EXCEPT ![r] = Forgotten]
  ELSE UNCHANGED interactions

Accept(a, r) ==
  IF Holder(a, r)
  THEN interactions' = [interactions EXCEPT ![r] =
         [status |-> "resolved", late |-> 0, holder |-> {a}]]
  ELSE UNCHANGED interactions

Rollback(a, r) ==
  IF Holder(a, r)
  THEN interactions' = [interactions EXCEPT ![r].status = "pending", ![r].holder = {}]
  ELSE UNCHANGED interactions
=============================================================================
