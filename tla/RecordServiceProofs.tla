------------------------ MODULE RecordServiceProofs ------------------------
(***************************************************************************)
(* Theorems of RecordService, for every status graph, every set of codes,  *)
(* data and concurrent requests, and every bound on versions.              *)
(***************************************************************************)
EXTENDS RecordService, TLAPS

-----------------------------------------------------------------------------
(* Types.                                                                  *)

\* A row that a query can return is a full row.
LEMMA FoundIsRow ==
  ASSUME TypeOK, NEW c \in Codes, Found(c)
  PROVE  rows[c] \in Row
BY DEF TypeOK, Found

\* A busy worker holds a job.
LEMMA BusyHoldsJob ==
  ASSUME TypeOK, NEW w \in Workers, job[w] # Idle
  PROVE  job[w] \in Job
BY DEF TypeOK

\* The job of an update or a transition is a job whatever row it is to save.
LEMMA EditJobIsJob ==
  ASSUME NEW op \in {"update", "transition"}, NEW c \in Codes, NEW e \in Nat,
         NEW row \in Row, rows[c] \in Row
  PROVE  EditJob(op, c, e, row) \in Job
<1>1. [row EXCEPT !.version = e + 1] \in Row
  BY DEF Row
<1> QED
  BY <1>1 DEF EditJob, Job, Ops

\* The job of an idle worker that takes a request is a job.
LEMMA StartKeepsTypes ==
  ASSUME TypeOK, NEW w \in Workers, NEW j \in Job, Start(w, j)
  PROVE  TypeOK'
BY DEF TypeOK, Start, storeVars

\* What a handler starts after its read.
LEMMA BeginKeepsTypes ==
  ASSUME TypeOK, NEW w \in Workers, NEW c \in Codes, Begin(w, c)
  PROVE  TypeOK'
<1> USE GraphAssumption, BoundAssumption
<1>1. ASSUME NEW d \in Data, BeginCreate(w, c, d) PROVE TypeOK'
  <2>1. [deleted |-> FALSE, status |-> InitialStatus, version |-> 1, data |-> d] \in Row
    BY DEF Row, Status
  <2>2. CreateJob(c, InitialStatus, d) \in Job
    BY <2>1 DEF CreateJob, Job, Ops
  <2> QED
    BY <1>1, <2>2, StartKeepsTypes DEF BeginCreate
<1>2. ASSUME NEW d \in Data, NEW e \in Quotable(c), BeginUpdate(w, c, d, e) PROVE TypeOK'
  <2>1. rows[c] \in Row
    BY <1>2, FoundIsRow DEF BeginUpdate
  <2>2. e \in Nat /\ [rows[c] EXCEPT !.data = d] \in Row
    BY <2>1 DEF Row, Quotable
  <2>3. EditJob("update", c, e, [rows[c] EXCEPT !.data = d]) \in Job
    BY <2>1, <2>2, EditJobIsJob
  <2> QED
    BY <1>2, <2>3, StartKeepsTypes DEF BeginUpdate
<1>3. ASSUME NEW s \in Status, NEW e \in Quotable(c), BeginTransition(w, c, s, e) PROVE TypeOK'
  <2>1. rows[c] \in Row
    BY <1>3, FoundIsRow DEF BeginTransition
  <2>2. e \in Nat /\ [rows[c] EXCEPT !.status = s] \in Row
    BY <2>1 DEF Row, Quotable
  <2>3. EditJob("transition", c, e, [rows[c] EXCEPT !.status = s]) \in Job
    BY <2>1, <2>2, EditJobIsJob
  <2> QED
    BY <1>3, <2>3, StartKeepsTypes DEF BeginTransition
<1>4. ASSUME BeginDelete(w, c) PROVE TypeOK'
  <2>1. rows[c] \in Row
    BY <1>4, FoundIsRow DEF BeginDelete
  <2>2. DeleteJob(c) \in Job
    BY <2>1 DEF DeleteJob, Job, Ops
  <2> QED
    BY <1>4, <2>2, StartKeepsTypes DEF BeginDelete
<1> QED
  BY <1>1, <1>2, <1>3, <1>4 DEF Begin

\* The audit row of a job has its type.
LEMMA AuditEntryType ==
  ASSUME NEW j \in Job
  PROVE  AuditEntry(j) \in AuditRow /\ j.code \in Codes /\ j.item \in Row
BY DEF AuditEntry, AuditRow, Job, Row, Ops

\* An audit row is appended to the history of the job's record.
LEMMA AppendKeepsTypes ==
  ASSUME TypeOK, NEW j \in Job, AppendAudit(j)
  PROVE  trail' \in [Codes -> Seq(AuditRow)]
<1>1. AuditEntry(j) \in AuditRow /\ j.code \in Codes
  BY AuditEntryType
<1> QED
  BY <1>1 DEF TypeOK, AppendAudit

\* What a request does at its end.
LEMMA EndKeepsTypes ==
  ASSUME TypeOK, NEW w \in Workers, EndRequest(w) \/ Abort(w)
  PROVE  TypeOK'
<1> DEFINE j == job[w]
<1>1. CASE Insert(w)
  <2>1. j \in Job
    BY <1>1, BusyHoldsJob DEF Insert, Writing, InPhase
  <2>2. trail' \in [Codes -> Seq(AuditRow)]
    BY <1>1, <2>1, AppendKeepsTypes DEF Insert, CreateAudited
  <2>3. rows' \in [Codes -> Row \union {Absent}]
    BY <1>1, <2>1, AuditEntryType DEF Insert, CreateAudited, TypeOK
  <2> QED
    BY <1>1, <2>2, <2>3 DEF Insert, Answer, TypeOK
<1>2. CASE Save(w)
  <2>1. j \in Job /\ j.op \in {"update", "transition"}
    BY <1>2, BusyHoldsJob DEF Save, Writing, InPhase
  <2>2. trail' \in [Codes -> Seq(AuditRow)]
    BY <1>2, <2>1, AppendKeepsTypes DEF Save, UpdateAudited
  <2>3. rows[j.code] \in Row
    BY <1>2, <2>1, FoundIsRow, AuditEntryType DEF Save, UpdateAudited, VersionMatches
  <2>4. [j.item EXCEPT !.deleted = rows[j.code].deleted] \in Row
    BY <2>1, <2>3, AuditEntryType DEF Row
  <2>5. rows' \in [Codes -> Row \union {Absent}]
    BY <1>2, <2>4 DEF Save, UpdateAudited, TypeOK
  <2>6. [j EXCEPT !.phase = "reply"] \in Job
    BY <2>1 DEF Job, Ops
  <2>7. job' \in [Workers -> Job \union {Idle}]
    BY <1>2, <2>6 DEF Save, GoTo, TypeOK
  <2> QED
    BY <2>2, <2>5, <2>7 DEF TypeOK
<1>3. CASE Remove(w)
  <2>1. j \in Job
    BY <1>3, BusyHoldsJob DEF Remove, Writing, InPhase
  <2>2. trail' \in [Codes -> Seq(AuditRow)]
    BY <1>3, <2>1, AppendKeepsTypes DEF Remove, DeleteAudited
  <2>3. rows[j.code] \in Row
    BY <1>3, <2>1, FoundIsRow, AuditEntryType DEF Remove, DeleteAudited
  <2>4. [rows[j.code] EXCEPT !.deleted = TRUE] \in Row
    BY <2>3 DEF Row
  <2>5. rows' \in [Codes -> Row \union {Absent}]
    BY <1>3, <2>4 DEF Remove, DeleteAudited, TypeOK
  <2> QED
    BY <1>3, <2>2, <2>5 DEF Remove, Answer, TypeOK
<1>4. CASE Refuse(w) \/ Reply(w) \/ Abort(w)
  BY <1>4 DEF Refuse, Reply, Abort, Answer, TypeOK, storeVars
<1> QED
  BY <1>1, <1>2, <1>3, <1>4 DEF EndRequest

\* Initially the seeded rows are stored and nothing is in progress.
LEMMA InitHasTypes == Init => TypeOK
BY SeedAssumption DEF Init, TypeOK

LEMMA NextKeepsTypes == TypeOK /\ [Next]_vars => TypeOK'
<1> SUFFICES ASSUME TypeOK, [Next]_vars PROVE TypeOK'
  OBVIOUS
<1>1. ASSUME NEW w \in Workers, NEW c \in Codes, Begin(w, c) PROVE TypeOK'
  BY <1>1, BeginKeepsTypes
<1>2. ASSUME NEW w \in Workers, EndRequest(w) \/ Abort(w) PROVE TypeOK'
  BY <1>2, EndKeepsTypes
<1>3. CASE UNCHANGED vars
  BY <1>3 DEF vars, TypeOK
<1> QED
  BY <1>1, <1>2, <1>3 DEF Next

\* Rows, audit histories and jobs keep their types in every behaviour.
THEOREM TypeCorrect == Spec => []TypeOK
<1> QED
  BY InitHasTypes, NextKeepsTypes, PTL DEF Spec

-----------------------------------------------------------------------------
(* What one step does to one row, when clients quote only versions they    *)
(* have seen: the row-level view of RecordLifecycle.                       *)

Kept(c) == rows'[c] = rows[c]

Created(c) == rows[c] = Absent /\ rows'[c] \in Row

Edited(c) ==
  /\ rows[c] \in Row /\ ~rows[c].deleted /\ rows[c].status \in Editable
  /\ \E d \in Data :
       rows'[c] = [ deleted |-> FALSE, status |-> rows[c].status,
                    version |-> rows[c].version + 1, data |-> d ]

Advanced(c) ==
  /\ rows[c] \in Row /\ ~rows[c].deleted
  /\ \E s \in Graph[rows[c].status] :
       rows'[c] = [ deleted |-> FALSE, status |-> s,
                    version |-> rows[c].version + 1, data |-> rows[c].data ]

Retired(c) ==
  /\ rows[c] \in Row /\ ~rows[c].deleted
  /\ rows'[c] = [rows[c] EXCEPT !.deleted = TRUE]

RowStep(c) == Kept(c) \/ Created(c) \/ Edited(c) \/ Advanced(c) \/ Retired(c)

\* The heart of the argument: the version a save quotes is at most the one
\* its request read, which is at most the stored one; a save that matches
\* the stored version therefore found the row exactly as it read it.
LEMMA SaveFindsWhatItRead ==
  ASSUME TypeOK, PendingSavesAreSound, NEW w \in Workers, Save(w)
  PROVE  /\ job[w] \in Job
         /\ job[w].op \in {"update", "transition"}
         /\ rows[job[w].code] = job[w].read
         /\ job[w].read \in Row
         /\ ~job[w].read.deleted
         /\ job[w].expected = job[w].read.version
         /\ SavesALegalStep(job[w])
<1>1. job[w] \in Job /\ job[w].op \in {"update", "transition"}
  BY BusyHoldsJob DEF Save, Writing, InPhase
<1>2. ReadIsCurrentOrOutdated(job[w]) /\ SavesALegalStep(job[w])
  BY DEF PendingSavesAreSound, Save
<1>3. Found(job[w].code) /\ rows[job[w].code].version = job[w].expected
  BY DEF Save, UpdateAudited, VersionMatches
<1>4. rows[job[w].code] \in Row /\ job[w].read \in Row /\ job[w].expected \in Nat
  BY <1>1, <1>3, FoundIsRow DEF Job
<1>5. rows[job[w].code].version = job[w].read.version
  BY <1>2, <1>3, <1>4 DEF ReadIsCurrentOrOutdated, Row
<1> QED
  BY <1>1, <1>2, <1>3, <1>4, <1>5 DEF ReadIsCurrentOrOutdated

LEMMA SaveIsEditOrAdvance ==
  ASSUME TypeOK, PendingSavesAreSound, NEW w \in Workers, Save(w)
  PROVE  Edited(job[w].code) \/ Advanced(job[w].code)
<1> DEFINE j == job[w]
           c == j.code
<1>1. /\ j \in Job
      /\ j.op \in {"update", "transition"}
      /\ rows[c] = j.read /\ j.read \in Row /\ ~j.read.deleted
      /\ j.expected = j.read.version
      /\ SavesALegalStep(j)
  BY SaveFindsWhatItRead
<1>2. c \in Codes /\ j.item \in Row
  BY <1>1, AuditEntryType
<1>3. rows'[c] = [j.item EXCEPT !.deleted = rows[c].deleted]
  BY <1>2 DEF Save, UpdateAudited, TypeOK
<1>4. rows[c].deleted = FALSE
  BY <1>1 DEF Row
<1>5. rows'[c] = [ deleted |-> FALSE, status |-> j.item.status,
                   version |-> j.item.version, data |-> j.item.data ]
  BY <1>2, <1>3, <1>4 DEF Row
<1>6. j.item.version = rows[c].version + 1
  BY <1>1 DEF SavesALegalStep
<1>7. CASE j.op = "update"
  <2>1. j.item.status = rows[c].status /\ rows[c].status \in Editable
    BY <1>1, <1>7 DEF SavesALegalStep
  <2>2. j.item.data \in Data
    BY <1>2 DEF Row
  <2> QED
    BY <1>1, <1>5, <1>6, <2>1, <2>2 DEF Edited
<1>8. CASE j.op = "transition"
  <2>1. j.item.data = rows[c].data /\ j.item.status \in Graph[rows[c].status]
    BY <1>1, <1>8 DEF SavesALegalStep
  <2> QED
    BY <1>1, <1>5, <1>6, <2>1 DEF Advanced
<1> QED
  BY <1>1, <1>7, <1>8

LEMMA EveryStepIsARowStep ==
  ASSUME TypeOK, PendingSavesAreSound, [Next]_vars, NEW c \in Codes
  PROVE  RowStep(c)
<1>1. ASSUME NEW w \in Workers, NEW x \in Codes, Begin(w, x) PROVE Kept(c)
  BY <1>1 DEF Begin, BeginCreate, BeginUpdate, BeginTransition, BeginDelete, Start, storeVars, Kept
<1>2. ASSUME NEW w \in Workers, Insert(w) PROVE RowStep(c)
  <2>1. job[w] \in Job
    BY <1>2, BusyHoldsJob DEF Insert, Writing, InPhase
  <2>2. job[w].code \in Codes /\ job[w].item \in Row
    BY <2>1, AuditEntryType
  <2> QED
    BY <1>2, <2>2 DEF Insert, CreateAudited, TypeOK, RowStep, Kept, Created
<1>3. ASSUME NEW w \in Workers, Save(w) PROVE RowStep(c)
  <2>1. CASE c = job[w].code
    BY <1>3, <2>1, SaveIsEditOrAdvance DEF RowStep
  <2>2. CASE c # job[w].code
    BY <1>3, <2>2 DEF Save, UpdateAudited, TypeOK, RowStep, Kept
  <2> QED
    BY <2>1, <2>2
<1>4. ASSUME NEW w \in Workers, Remove(w) PROVE RowStep(c)
  <2>1. Found(job[w].code)
    BY <1>4 DEF Remove, DeleteAudited
  <2>2. CASE c = job[w].code
    <3>1. rows[c] \in Row /\ ~rows[c].deleted
      BY <2>1, <2>2, FoundIsRow DEF Found
    <3> QED
      BY <1>4, <2>2, <3>1 DEF Remove, DeleteAudited, TypeOK, RowStep, Retired
  <2>3. CASE c # job[w].code
    BY <1>4, <2>3 DEF Remove, DeleteAudited, TypeOK, RowStep, Kept
  <2> QED
    BY <2>2, <2>3
<1>5. ASSUME NEW w \in Workers, Refuse(w) \/ Reply(w) \/ Abort(w) PROVE Kept(c)
  BY <1>5 DEF Refuse, Reply, Abort, storeVars, Kept
<1>6. CASE UNCHANGED vars
  BY <1>6 DEF vars, RowStep, Kept
<1> QED
  BY <1>1, <1>2, <1>3, <1>4, <1>5, <1>6 DEF Next, EndRequest, RowStep

-----------------------------------------------------------------------------
(* Pending saves stay sound.                                               *)

\* A row that is stored stays a row.
LEMMA RowStepKeepsRows ==
  ASSUME NEW c \in Codes, Created(c) \/ Edited(c) \/ Advanced(c) \/ Retired(c)
  PROVE  rows'[c] \in Row /\ rows'[c] # Absent
<1>1. ASSUME Edited(c) PROVE rows'[c] \in Row
  BY <1>1 DEF Edited, Row
<1>2. ASSUME Advanced(c) PROVE rows'[c] \in Row
  <2>1. Graph[rows[c].status] \subseteq Status
    BY <1>2, GraphAssumption DEF Advanced, Row
  <2> QED
    BY <1>2, <2>1 DEF Advanced, Row
<1>3. ASSUME Created(c) \/ Retired(c) PROVE rows'[c] \in Row
  BY <1>3 DEF Created, Retired, Row
<1> QED
  BY <1>1, <1>2, <1>3, SentinelAssumption

\* A row step keeps what a pending request knows of its row: the row only
\* moves to later versions, and a removed row never matches again.
LEMMA RowStepKeepsReads ==
  ASSUME NEW j \in Job, j.code \in Codes, j.read \in Row,
         ReadIsCurrentOrOutdated(j), RowStep(j.code)
  PROVE  ReadIsCurrentOrOutdated(j)'
<1> DEFINE c == j.code
<1> USE SentinelAssumption
<1>1. CASE Kept(c)
  BY <1>1 DEF Kept, ReadIsCurrentOrOutdated, Found
<1>2. CASE Created(c)
  BY <1>2 DEF Created, ReadIsCurrentOrOutdated
<1>3. CASE Edited(c) \/ Advanced(c)
  <2>1. rows[c] \in Row /\ rows'[c] # Absent
    BY <1>3, RowStepKeepsRows DEF Edited, Advanced
  <2>2. rows'[c].version = rows[c].version + 1
    <3>1. ASSUME Edited(c) PROVE rows'[c].version = rows[c].version + 1
      BY <3>1 DEF Edited
    <3>2. ASSUME Advanced(c) PROVE rows'[c].version = rows[c].version + 1
      BY <3>2 DEF Advanced
    <3> QED
      BY <1>3, <3>1, <3>2
  <2>3. j.read.version \in Nat /\ j.expected \in Nat /\ rows[c].version \in Nat
    BY <2>1 DEF Job, Row
  <2> QED
    BY <2>1, <2>2, <2>3 DEF ReadIsCurrentOrOutdated
<1>4. CASE Retired(c)
  <2>1. rows'[c] # Absent /\ rows'[c].deleted /\ rows'[c].version = rows[c].version
    BY <1>4 DEF Retired, Row
  <2> QED
    BY <2>1 DEF ReadIsCurrentOrOutdated, Found
<1> QED
  BY <1>1, <1>2, <1>3, <1>4 DEF RowStep

\* A request starts sound: it decides on the row as it is stored.
LEMMA BeginStartsSound ==
  ASSUME Lookahead = 0, TypeOK, NEW w \in Workers, NEW c \in Codes, Begin(w, c),
         Writing(w, {"update", "transition"})'
  PROVE  (ReadIsCurrentOrOutdated(job[w]) /\ SavesALegalStep(job[w]))'
<1> USE SentinelAssumption
<1>1. ASSUME NEW j \in Job, Start(w, j) PROVE job'[w] = j /\ rows' = rows
  BY <1>1 DEF Start, TypeOK, storeVars
<1>2. ASSUME NEW d \in Data, NEW e \in Quotable(c), BeginUpdate(w, c, d, e)
      PROVE  (ReadIsCurrentOrOutdated(job[w]) /\ SavesALegalStep(job[w]))'
  <2> DEFINE j == EditJob("update", c, e, [rows[c] EXCEPT !.data = d])
  <2>1. rows[c] \in Row /\ Found(c)
    BY <1>2, FoundIsRow DEF BeginUpdate
  <2>2. e \in Nat /\ e <= rows[c].version /\ [rows[c] EXCEPT !.data = d] \in Row
    BY <2>1 DEF Row, Quotable
  <2>3. job'[w] = j /\ rows' = rows
    BY <1>1, <1>2, <2>1, <2>2, EditJobIsJob DEF BeginUpdate
  <2>4. /\ j.op = "update" /\ j.code = c /\ j.expected = e /\ j.read = rows[c]
        /\ j.item.version = e + 1 /\ j.item.status = rows[c].status
        /\ j.item.deleted = rows[c].deleted
    BY <2>1, <2>2 DEF EditJob, Row
  <2>5. rows[c].status \in Editable
    BY <1>2 DEF BeginUpdate
  <2>6. ReadIsCurrentOrOutdated(job[w])'
    BY <2>1, <2>2, <2>3, <2>4 DEF ReadIsCurrentOrOutdated, Found, Row
  <2>7. SavesALegalStep(job[w])'
    BY <2>1, <2>3, <2>4, <2>5 DEF SavesALegalStep, Found
  <2> QED
    BY <2>6, <2>7
<1>3. ASSUME NEW s \in Status, NEW e \in Quotable(c), BeginTransition(w, c, s, e)
      PROVE  (ReadIsCurrentOrOutdated(job[w]) /\ SavesALegalStep(job[w]))'
  <2> DEFINE j == EditJob("transition", c, e, [rows[c] EXCEPT !.status = s])
  <2>1. rows[c] \in Row /\ Found(c)
    BY <1>3, FoundIsRow DEF BeginTransition
  <2>2. e \in Nat /\ e <= rows[c].version /\ [rows[c] EXCEPT !.status = s] \in Row
    BY <2>1 DEF Row, Quotable
  <2>3. job'[w] = j /\ rows' = rows
    BY <1>1, <1>3, <2>1, <2>2, EditJobIsJob DEF BeginTransition
  <2>4. /\ j.op = "transition" /\ j.code = c /\ j.expected = e /\ j.read = rows[c]
        /\ j.item.version = e + 1 /\ j.item.status = s /\ j.item.data = rows[c].data
        /\ j.item.deleted = rows[c].deleted
    BY <2>1, <2>2 DEF EditJob, Row
  <2>5. s \in Graph[rows[c].status]
    BY <1>3 DEF BeginTransition
  <2>6. ReadIsCurrentOrOutdated(job[w])'
    BY <2>1, <2>2, <2>3, <2>4 DEF ReadIsCurrentOrOutdated, Found, Row
  <2>7. SavesALegalStep(job[w])'
    BY <2>1, <2>3, <2>4, <2>5 DEF SavesALegalStep, Found
  <2> QED
    BY <2>6, <2>7
<1>4. ASSUME NEW d \in Data, BeginCreate(w, c, d) PROVE FALSE
  BY <1>4 DEF BeginCreate, CreateJob, Start, TypeOK, Writing, InPhase
<1>5. ASSUME BeginDelete(w, c) PROVE FALSE
  BY <1>5 DEF BeginDelete, DeleteJob, Start, TypeOK, Writing, InPhase
<1> QED
  BY <1>2, <1>3, <1>4, <1>5 DEF Begin

\* Only the worker that takes a step changes its job.
LEMMA StepChangesOneJob ==
  ASSUME TypeOK, NEW w \in Workers, NEW v \in Workers, v # w,
         EndRequest(w) \/ Abort(w) \/ \E c \in Codes : Begin(w, c)
  PROVE  job'[v] = job[v]
<1>1. CASE EndRequest(w) \/ Abort(w)
  BY <1>1 DEF EndRequest, Insert, Save, Remove, Refuse, Reply, Abort, Answer, GoTo, TypeOK
<1>2. ASSUME NEW c \in Codes, Begin(w, c) PROVE job'[v] = job[v]
  BY <1>2 DEF Begin, BeginCreate, BeginUpdate, BeginTransition, BeginDelete, Start, TypeOK
<1> QED
  BY <1>1, <1>2

\* A request that has ended, or has saved, has no pending save.
LEMMA EndLeavesNoPendingSave ==
  ASSUME TypeOK, NEW w \in Workers, EndRequest(w) \/ Abort(w)
  PROVE  ~Writing(w, {"update", "transition"})'
<1>1. CASE Save(w)
  <2>1. job[w] \in Job
    BY <1>1, BusyHoldsJob DEF Save, Writing, InPhase
  <2> QED
    BY <1>1, <2>1 DEF Save, GoTo, TypeOK, Writing, InPhase, Job
<1>2. CASE Insert(w) \/ Remove(w) \/ Refuse(w) \/ Reply(w) \/ Abort(w)
  BY <1>2 DEF Insert, Remove, Refuse, Reply, Abort, Answer, TypeOK, Writing, InPhase
<1> QED
  BY <1>1, <1>2 DEF EndRequest

LEMMA NextKeepsPendingSavesSound ==
  ASSUME Lookahead = 0, TypeOK, PendingSavesAreSound, [Next]_vars
  PROVE  PendingSavesAreSound'
<1> DEFINE Sound(v) == ReadIsCurrentOrOutdated(job[v]) /\ SavesALegalStep(job[v])
<1> SUFFICES ASSUME NEW v \in Workers, Writing(v, {"update", "transition"})'
             PROVE  Sound(v)'
  BY DEF PendingSavesAreSound
<1>1. ASSUME job'[v] = job[v] PROVE Sound(v)'
  <2>1. Writing(v, {"update", "transition"})
    BY <1>1 DEF Writing, InPhase
  <2>2. Sound(v)
    BY <2>1 DEF PendingSavesAreSound
  <2>3. PICK j \in Job : j = job[v]
    BY <2>1, BusyHoldsJob DEF Writing, InPhase
  <2>4. j.op \in {"update", "transition"} /\ j.code \in Codes /\ j.read \in Row
    BY <2>1, <2>3 DEF Writing, Job
  <2>5. RowStep(j.code)
    BY <2>4, EveryStepIsARowStep
  <2>6. ReadIsCurrentOrOutdated(j)'
    BY <2>2, <2>3, <2>4, <2>5, RowStepKeepsReads
  <2>7. SavesALegalStep(j)
    BY <2>2, <2>3
  <2> QED
    BY <1>1, <2>3, <2>6, <2>7 DEF ReadIsCurrentOrOutdated, SavesALegalStep, Found
<1>2. ASSUME NEW w \in Workers, NEW c \in Codes, Begin(w, c) PROVE Sound(v)'
  <2>1. CASE w = v
    BY <1>2, <2>1, BeginStartsSound
  <2>2. CASE w # v
    BY <1>1, <1>2, <2>2, StepChangesOneJob
  <2> QED
    BY <2>1, <2>2
<1>3. ASSUME NEW w \in Workers, EndRequest(w) \/ Abort(w) PROVE Sound(v)'
  <2>1. w # v
    BY <1>3, EndLeavesNoPendingSave
  <2> QED
    BY <1>1, <1>3, <2>1, StepChangesOneJob
<1>4. CASE UNCHANGED vars
  BY <1>1, <1>4 DEF vars
<1> QED
  BY <1>2, <1>3, <1>4 DEF Next

\* When clients quote only versions they have seen, every pending save was
\* decided on a row that is still stored as read, or is bound to be refused.
THEOREM PendingSavesStaySound ==
  ASSUME Lookahead = 0
  PROVE  Spec => []PendingSavesAreSound
<1>1. Init => PendingSavesAreSound
  BY DEF Init, PendingSavesAreSound, Writing, InPhase
<1>2. TypeOK /\ PendingSavesAreSound /\ [Next]_vars => PendingSavesAreSound'
  BY NextKeepsPendingSavesSound
<1> QED
  BY <1>1, <1>2, TypeCorrect, PTL DEF Spec

\* No lost update: a save replaces the very row its request has read.
THEOREM NoLostUpdate ==
  ASSUME Lookahead = 0
  PROVE  Spec => SavesReplaceWhatTheyRead
<1>1. TypeOK /\ PendingSavesAreSound /\ [Next]_vars
        => [\A w \in Workers : Save(w) => rows[job[w].code] = job[w].read]_vars
  BY SaveFindsWhatItRead
<1> QED
  BY <1>1, TypeCorrect, PendingSavesStaySound, PTL DEF Spec, SavesReplaceWhatTheyRead

\* Whatever requests race, a stored status changes along the graph only.
THEOREM StatusesFollowTheGraph ==
  ASSUME Lookahead = 0
  PROVE  Spec => StatusFollowsGraph
<1>1. ASSUME TypeOK, PendingSavesAreSound, [Next]_vars, NEW c \in Codes,
             rows[c] # Absent, rows'[c].status # rows[c].status
      PROVE  rows'[c].status \in Graph[rows[c].status]
  <2>1. CASE Kept(c)
    BY <1>1, <2>1 DEF Kept
  <2>2. CASE Edited(c)
    BY <1>1, <2>2 DEF Edited
  <2>3. CASE Advanced(c)
    BY <2>3 DEF Advanced
  <2>4. CASE Retired(c)
    BY <1>1, <2>4 DEF Retired, Row
  <2> QED
    BY <1>1, <2>1, <2>2, <2>3, <2>4, EveryStepIsARowStep DEF RowStep, Created
<1>2. TypeOK /\ PendingSavesAreSound /\ [Next]_vars
        => [\A c \in Codes :
              rows[c] # Absent /\ rows'[c].status # rows[c].status
                => rows'[c].status \in Graph[rows[c].status]]_vars
  BY <1>1
<1> QED
  BY <1>2, TypeCorrect, PendingSavesStaySound, PTL DEF Spec, StatusFollowsGraph

\* A record that has left its editable statuses keeps its columns for ever.
THEOREM FrozenOnceDecided ==
  ASSUME Lookahead = 0
  PROVE  Spec => FrozenOutsideEditable
<1>1. ASSUME TypeOK, PendingSavesAreSound, [Next]_vars, NEW c \in Codes,
             rows[c] # Absent, rows[c].status \notin Editable
      PROVE  rows'[c].data = rows[c].data
  <2>1. CASE Kept(c)
    BY <2>1 DEF Kept
  <2>2. CASE Advanced(c)
    BY <2>2 DEF Advanced
  <2>3. CASE Retired(c)
    BY <2>3 DEF Retired, Row
  <2> QED
    BY <1>1, <2>1, <2>2, <2>3, EveryStepIsARowStep DEF RowStep, Created, Edited
<1>2. TypeOK /\ PendingSavesAreSound /\ [Next]_vars
        => [\A c \in Codes :
              rows[c] # Absent /\ rows[c].status \notin Editable
                => rows'[c].data = rows[c].data]_vars
  BY <1>1
<1> QED
  BY <1>2, TypeCorrect, PendingSavesStaySound, PTL DEF Spec, FrozenOutsideEditable

=============================================================================
