--------------------------- MODULE RecordService ---------------------------
(***************************************************************************)
(* One aggregate's service (service/*.go) under concurrent requests: the   *)
(* protocol that the four services share.  An update or transition reads   *)
(* the row, decides on what it read, builds the new row in memory and      *)
(* saves it if the stored version is still the one the CLIENT quoted.      *)
(*                                                                         *)
(* The kinds of record differ in their status graph, in the statuses that  *)
(* an update accepts (Editable) and in those that a delete accepts         *)
(* (Deletable).  The checks on linked records and on expiry dates, after   *)
(* the read and before the write, can only end a request early: here that  *)
(* is Abort, and TransferCompliance models them.                           *)
(***************************************************************************)
EXTENDS AuditedStore

CONSTANTS
  Graph,           \* status graph of the aggregate
  InitialStatus,   \* status of a new record
  Editable,        \* statuses in which Update goes on after its read
  Deletable,       \* statuses in which Delete goes on after its read
  Data,            \* values of the editable columns
  Seed             \* rows that database.Seed has stored

Status == DOMAIN Graph
Row == [deleted: BOOLEAN, status: Status, version: Nat \ {0}, data: Data]
Ops == {"create", "update", "transition", "delete"}

\* A graph of statuses, the sets of statuses the services test, and seeded
\* rows of version 1 (database.Seed stores them without audit rows).
ASSUME GraphAssumption ==
  /\ Graph \in [Status -> SUBSET Status]
  /\ InitialStatus \in Status
  /\ Editable \subseteq Status
  /\ Deletable \subseteq Status

ASSUME SentinelAssumption == Absent \notin Row

ASSUME SeedAssumption ==
  /\ Seed \in [Codes -> Row \union {Absent}]
  /\ \A c \in Codes : Seed[c] # Absent => Seed[c].version = 1 /\ ~Seed[c].deleted

ASSUME BoundAssumption == Lookahead \in Nat /\ \A c \in Codes : MaxVersion[c] \in Nat

Init ==
  /\ rows = Seed
  /\ trail = [c \in Codes |-> <<>>]
  /\ job = [w \in Workers |-> Idle]

-----------------------------------------------------------------------------
(* The first half of each handler.                                         *)

\* Mutant: the handler of another aggregate, copied with its initial status.
BeginCreatePending(w, c, d) == Start(w, CreateJob(c, "pending", d))

BeginCreate(w, c, d) == Start(w, CreateJob(c, InitialStatus, d))

\* Mutant: the status test of Update is missing.
BeginUpdateAnyStatus(w, c, d, e) ==
  /\ Found(c)
  /\ Start(w, EditJob("update", c, e, [rows[c] EXCEPT !.data = d]))

BeginUpdate(w, c, d, e) ==
  /\ Found(c)
  /\ rows[c].status \in Editable
  /\ Start(w, EditJob("update", c, e, [rows[c] EXCEPT !.data = d]))

\* Mutant: a transition may ask for any status.
BeginTransitionAnywhere(w, c, s, e) ==
  /\ Found(c)
  /\ Start(w, EditJob("transition", c, e, [rows[c] EXCEPT !.status = s]))

BeginTransition(w, c, s, e) ==
  /\ Found(c)
  /\ s \in Graph[rows[c].status]
  /\ Start(w, EditJob("transition", c, e, [rows[c] EXCEPT !.status = s]))

BeginDelete(w, c) ==
  /\ Found(c)
  /\ rows[c].status \in Deletable
  /\ Start(w, DeleteJob(c))

Begin(w, c) ==
  \/ \E d \in Data : BeginCreate(w, c, d)
  \/ Found(c) /\ \E d \in Data, e \in Quotable(c) : BeginUpdate(w, c, d, e)
  \/ Found(c) /\ \E s \in Status, e \in Quotable(c) : BeginTransition(w, c, s, e)
  \/ BeginDelete(w, c)

Next ==
  \/ \E w \in Workers, c \in Codes : Begin(w, c)
  \/ \E w \in Workers : EndRequest(w) \/ Abort(w)

Spec == Init /\ [][Next]_vars

-----------------------------------------------------------------------------
(* What must hold of every run.                                            *)

AuditRow == [action: Ops, before: Status \union {""}, after: Status \union {"deleted"}]

\* A job has read the row it works on, unless it creates one.
Job ==
  [ phase: {"write"}, op: {"create"}, code: Codes, expected: Nat,
    read: {Absent}, item: Row ]
  \union
  [ phase: {"write", "reply"}, op: Ops \ {"create"}, code: Codes, expected: Nat,
    read: Row, item: Row ]

\* Type invariant: a row is absent or has every column, audit rows name
\* known statuses, a job is idle or carries the locals of a handler.
TypeOK ==
  /\ rows \in [Codes -> Row \union {Absent}]
  /\ trail \in [Codes -> Seq(AuditRow)]
  /\ job \in [Workers -> Job \union {Idle}]

\* The status of a stored record changes along the status graph only,
\* whatever updates and transitions were decided on rows read earlier.
StatusFollowsGraph ==
  [][\A c \in Codes :
       rows[c] # Absent /\ rows'[c].status # rows[c].status
         => rows'[c].status \in Graph[rows[c].status]]_vars

\* The editable columns of a record never change once its status has left
\* the editable ones (a submitted manifest, a decided check), although the
\* save of an update writes every column and looks at the version alone.
FrozenOutsideEditable ==
  [][\A c \in Codes :
       rows[c] # Absent /\ rows[c].status \notin Editable
         => rows'[c].data = rows[c].data]_vars

\* No lost update: the row a save replaces is the very row the request read
\* before it decided, so no committed change in between is overwritten.
SavesReplaceWhatTheyRead ==
  [][\A w \in Workers : Save(w) => rows[job[w].code] = job[w].read]_vars

\* Until it has answered, a request that saved finds its own save in the
\* stored record or a later version of it: a stale request cannot put the
\* record back.
SavedVersionsSurvive ==
  \A w \in Workers : InPhase(w, "reply") =>
    LET row == rows[job[w].code]  item == job[w].item IN
    /\ row # Absent
    /\ row.version >= item.version
    /\ row.version = item.version => row.status = item.status /\ row.data = item.data

\* Every entry of a history but a removal starts in the status in which the
\* entry before it ended.
Chained(history) ==
  \A i \in 2 .. Len(history) :
    history[i].action # "delete" => history[i].before = history[i - 1].after

SeedVersion(c) == IF Seed[c] = Absent THEN 0 ELSE 1

\* The audit history of a record explains its row: it has one entry for each
\* version and one more for the removal, each entry goes on where the one
\* before it stopped, and the last entry of a version names its status.
HistoryExplainsRow(c) ==
  IF rows[c] = Absent THEN trail[c] = <<>> ELSE
  LET saves == rows[c].version - SeedVersion(c) IN
  /\ Len(trail[c]) = saves + (IF rows[c].deleted THEN 1 ELSE 0)
  /\ Chained(trail[c])
  /\ saves > 0 => trail[c][saves].after = rows[c].status
  /\ rows[c].deleted => trail[c][Len(trail[c])].action = "delete"

AuditExplainsRows == \A c \in Codes : HistoryExplainsRow(c)

\* A removed record was in a status that a delete accepts at the moment of
\* its removal, not merely when the delete request read it.
RetainedOutsideDeletable ==
  [][\A c \in Codes :
       rows[c] # Absent /\ rows'[c].deleted /\ ~rows[c].deleted
         => rows[c].status \in Deletable]_vars

\* The service does what RecordLifecycle promises: each commit, and nothing
\* else, is one atomic and audited step of it.
Lifecycle == INSTANCE RecordLifecycle
ImplementsLifecycle == Lifecycle!Spec

-----------------------------------------------------------------------------
(* Why the properties hold when clients quote only versions they have seen *)
(* (Lookahead = 0).                                                        *)

\* A pending save quotes no version beyond the one it read, and if the row
\* still has that version and is not removed, it still is the row it read.
ReadIsCurrentOrOutdated(j) ==
  /\ j.read # Absent
  /\ ~j.read.deleted
  /\ j.expected <= j.read.version
  /\ rows[j.code] # Absent
  /\ j.read.version <= rows[j.code].version
  /\ Found(j.code) /\ rows[j.code].version = j.read.version => rows[j.code] = j.read

\* The row to be saved is a legal successor of the row that was read.
SavesALegalStep(j) ==
  /\ j.item.version = j.expected + 1
  /\ ~j.item.deleted
  /\ j.op = "update" => j.read.status \in Editable /\ j.item.status = j.read.status
  /\ j.op = "transition" => j.item.status \in Graph[j.read.status] /\ j.item.data = j.read.data

PendingSavesAreSound ==
  \A w \in Workers : Writing(w, {"update", "transition"}) =>
    ReadIsCurrentOrOutdated(job[w]) /\ SavesALegalStep(job[w])
=============================================================================
