-------------------------- MODULE RecordLifecycle --------------------------
(***************************************************************************)
(* What the service of one aggregate promises its clients, without         *)
(* requests, versions that clients quote, or concurrency: every change of  *)
(* a record is one atomic, audited step that the status graph allows.      *)
(*                                                                         *)
(* A removal is left open in two respects, as the code decides it on the   *)
(* status that it read earlier (see RetainedOutsideDeletable): the status  *)
(* that the record has by then, and the one that the audit entry names.    *)
(***************************************************************************)
EXTENDS Naturals, Sequences

CONSTANTS Codes, Graph, InitialStatus, Editable, Data, Seed, Absent

VARIABLES rows, trail

lifeVars == <<rows, trail>>

Live(c) == rows[c] # Absent /\ ~rows[c].deleted

Record(c, action, before, after) ==
  trail' = [trail EXCEPT ![c] = Append(@, [action |-> action, before |-> before, after |-> after])]

Init == rows = Seed /\ trail = [c \in Codes |-> <<>>]

Create(c, d) ==
  /\ rows[c] = Absent
  /\ rows' = [rows EXCEPT ![c] = [deleted |-> FALSE, status |-> InitialStatus,
                                  version |-> 1, data |-> d]]
  /\ Record(c, "create", "", InitialStatus)

Edit(c, d) ==
  /\ Live(c)
  /\ rows[c].status \in Editable
  /\ rows' = [rows EXCEPT ![c].data = d, ![c].version = @ + 1]
  /\ Record(c, "update", rows[c].status, rows[c].status)

Advance(c, s) ==
  /\ Live(c)
  /\ s \in Graph[rows[c].status]
  /\ rows' = [rows EXCEPT ![c].status = s, ![c].version = @ + 1]
  /\ Record(c, "transition", rows[c].status, s)

Retire(c, before) ==
  /\ Live(c)
  /\ rows' = [rows EXCEPT ![c].deleted = TRUE]
  /\ Record(c, "delete", before, "deleted")

Step(c) ==
  \/ \E d \in Data : Create(c, d) \/ Edit(c, d)
  \/ \E s \in DOMAIN Graph : Advance(c, s) \/ Retire(c, s)

Next == \E c \in Codes : Step(c)

Spec == Init /\ [][Next]_lifeVars
=============================================================================
