---------------------------- MODULE AuditedStore ----------------------------
(***************************************************************************)
(* repository.Store (repository/base.go) and the end of every request that *)
(* writes through it: the transaction that changes one row together with   *)
(* its audit_logs row, the outcomes in which nothing is written, and the   *)
(* read that builds the reply after a commit.                              *)
(*                                                                         *)
(* A record is named by its code.  The unique index on code covers the     *)
(* soft-deleted rows as well, so a code and the id the requests carry name *)
(* the same row for ever.  A row is                                        *)
(*   [deleted, status, version, data]                                      *)
(* where data stands for the columns that only the update handlers write;  *)
(* decision_basis, which a transition of a check writes too, is left out.  *)
(* audit_logs is kept as one sequence per record, in commit order.         *)
(*                                                                         *)
(* A request is a goroutine of the HTTP server: job[w] holds the locals of *)
(* its handler (the row it read, the row it is about to save, the version  *)
(* the client quoted), and other requests run between any two of its       *)
(* statements.  A service module decides how a job reaches phase "write".  *)
(***************************************************************************)
EXTENDS Naturals, Sequences

CONSTANTS
  Codes,      \* codes the clients use, of every table
  Workers,    \* requests that the server handles at the same time
  Absent,     \* in rows: no row, not even a deleted one, has the code
  Idle,       \* in job: the worker handles no request
  Lookahead,  \* versions beyond the stored one that a client may quote
  MaxVersion  \* bound, for each code: no update or transition starts at this version

VARIABLES rows, trail, job

storeVars == <<rows, trail>>
vars == <<rows, trail, job>>

\* A row that First can return: inserted and not soft-deleted (gorm adds
\* deleted_at IS NULL to every query on a model with a DeletedAt).
Found(c) == rows[c] # Absent /\ ~rows[c].deleted

\* Mutant: "before" is taken after the new status has been assigned.
AuditEntryTakenLate(j) ==
  [ action |-> j.op,
    before |-> IF j.op = "create" THEN "" ELSE j.item.status,
    after  |-> IF j.op = "delete" THEN "deleted" ELSE j.item.status ]

\* The audit row of a job: newAuditLog is called with the status that was
\* read, and a creation has no earlier status.
AuditEntry(j) ==
  [ action |-> j.op,
    before |-> IF j.op = "create" THEN "" ELSE j.read.status,
    after  |-> IF j.op = "delete" THEN "deleted" ELSE j.item.status ]

AppendAudit(j) == trail' = [trail EXCEPT ![j.code] = Append(@, AuditEntry(j))]

-----------------------------------------------------------------------------
(* The start of a request: the locals of a handler that has read its row,  *)
(* decided, and built the row to store.                                    *)

CreateJob(c, status, data) ==
  [ phase |-> "write", op |-> "create", code |-> c, expected |-> 0, read |-> Absent,
    item |-> [deleted |-> FALSE, status |-> status, version |-> 1, data |-> data] ]

\* Update and Transition change a copy of the row they read: row is that copy.
EditJob(op, c, e, row) ==
  [ phase |-> "write", op |-> op, code |-> c, expected |-> e, read |-> rows[c],
    item |-> [row EXCEPT !.version = e + 1] ]

DeleteJob(c) ==
  [ phase |-> "write", op |-> "delete", code |-> c, expected |-> 0,
    read |-> rows[c], item |-> rows[c] ]

Start(w, j) ==
  /\ job[w] = Idle
  /\ job' = [job EXCEPT ![w] = j]
  /\ UNCHANGED storeVars

\* expectedVersion comes with the request and is required, so it is not 0.
\* Bound: the versions of a record stop growing at its MaxVersion.
Quotable(c) == {e \in 1 .. (rows[c].version + Lookahead) : rows[c].version < MaxVersion[c]}

-----------------------------------------------------------------------------
(* The three transactions.  Each is one step: a row and its audit row are  *)
(* committed together or not at all.                                       *)

CreateAudited(j) ==
  /\ rows[j.code] = Absent
  /\ rows' = [rows EXCEPT ![j.code] = j.item]
  /\ AppendAudit(j)

\* Mutants: the save looks at the id alone, or takes any version not yet passed.
VersionUnchecked(j) == Found(j.code)
VersionAtLeast(j) == Found(j.code) /\ rows[j.code].version >= j.expected

\* WHERE id = ? AND version = ? (and deleted_at IS NULL).
VersionMatches(j) == Found(j.code) /\ rows[j.code].version = j.expected

\* Every column is taken from the job's item except the omitted deleted_at.
UpdateAudited(j) ==
  /\ VersionMatches(j)
  /\ rows' = [rows EXCEPT ![j.code] = [j.item EXCEPT !.deleted = rows[j.code].deleted]]
  /\ AppendAudit(j)

\* Mutant: a row that is deleted already counts as affected.
DeleteAgain(j) ==
  /\ rows[j.code] # Absent
  /\ rows' = [rows EXCEPT ![j.code].deleted = TRUE]
  /\ AppendAudit(j)

\* The soft delete looks at the id alone: no version, no status.
DeleteAudited(j) ==
  /\ Found(j.code)
  /\ rows' = [rows EXCEPT ![j.code].deleted = TRUE]
  /\ AppendAudit(j)

-----------------------------------------------------------------------------
(* The end of a request.                                                   *)

InPhase(w, phase) == job[w] # Idle /\ job[w].phase = phase
Writing(w, ops) == InPhase(w, "write") /\ job[w].op \in ops

GoTo(w, phase) == job' = [job EXCEPT ![w].phase = phase]
Answer(w) == job' = [job EXCEPT ![w] = Idle]

\* A creation answers with the item it inserted, without reading it again.
Insert(w) == Writing(w, {"create"}) /\ CreateAudited(job[w]) /\ Answer(w)

\* An update or a transition reads the record again for its reply.
Save(w) ==
  /\ Writing(w, {"update", "transition"})
  /\ UpdateAudited(job[w])
  /\ GoTo(w, "reply")

Remove(w) == Writing(w, {"delete"}) /\ DeleteAudited(job[w]) /\ Answer(w)

\* Unique index violation, ErrVersionConflict or ErrRecordNotFound: the
\* transaction rolls back and the client gets an error.
Refuse(w) ==
  /\ \/ Writing(w, {"create"}) /\ rows[job[w].code] # Absent
     \/ Writing(w, {"update", "transition"}) /\ ~VersionMatches(job[w])
     \/ Writing(w, {"delete"}) /\ ~Found(job[w].code)
  /\ Answer(w)
  /\ UNCHANGED storeVars

\* The post-commit Get.  What it returns may be a later version or, after a
\* delete, an error, and the reply may be lost: the commit stands.
Reply(w) == InPhase(w, "reply") /\ Answer(w) /\ UNCHANGED storeVars

\* A request that ends before its commit: the client is gone and the
\* context is cancelled, a statement fails, or the process stops.
Abort(w) ==
  /\ job[w] # Idle
  /\ job[w].phase # "reply"
  /\ Answer(w)
  /\ UNCHANGED storeVars

EndRequest(w) == Insert(w) \/ Save(w) \/ Remove(w) \/ Refuse(w) \/ Reply(w)
=============================================================================
