------------------------ MODULE RecordHistoryProofs ------------------------
(***************************************************************************)
(* RecordService implements RecordLifecycle, and what follows from it: the *)
(* audit history explains the row, and a save stays saved.  For every      *)
(* graph, code, datum, number of requests and bound on versions, when      *)
(* clients quote only versions they have seen.                             *)
(***************************************************************************)
EXTENDS RecordServiceProofs

-----------------------------------------------------------------------------
(* Every step is a step of RecordLifecycle, or changes no record.          *)

NewRow(d) == [deleted |-> FALSE, status |-> InitialStatus, version |-> 1, data |-> d]

\* The other half of the inductive invariant: what is to be inserted is new.
PendingCreatesAreNew ==
  \A w \in Workers : Writing(w, {"create"}) => \E d \in Data : job[w].item = NewRow(d)

LEMMA NextKeepsPendingCreatesNew ==
  ASSUME TypeOK, PendingCreatesAreNew, [Next]_vars
  PROVE  PendingCreatesAreNew'
<1> SUFFICES ASSUME NEW v \in Workers, Writing(v, {"create"})'
             PROVE  (\E d \in Data : job[v].item = NewRow(d))'
  BY DEF PendingCreatesAreNew
<1>1. ASSUME job'[v] = job[v] PROVE (\E d \in Data : job[v].item = NewRow(d))'
  BY <1>1 DEF PendingCreatesAreNew, Writing, InPhase, NewRow
<1>2. ASSUME NEW w \in Workers, NEW c \in Codes, Begin(w, c)
      PROVE  (\E d \in Data : job[v].item = NewRow(d))'
  <2>1. CASE w # v
    BY <1>1, <1>2, <2>1, StepChangesOneJob
  <2>2. CASE w = v
    <3>1. ASSUME NEW j, Start(v, j) PROVE job'[v] = j
      BY <3>1 DEF Start, TypeOK
    <3>2. ASSUME NEW d \in Data, BeginCreate(v, c, d) PROVE job'[v].item = NewRow(d)
      BY <3>2 DEF BeginCreate, CreateJob, Start, TypeOK, NewRow
    <3>3. ASSUME NEW d, NEW e, BeginUpdate(v, c, d, e) PROVE job'[v].op = "update"
      BY <3>1, <3>3 DEF BeginUpdate, EditJob
    <3>4. ASSUME NEW s, NEW e, BeginTransition(v, c, s, e) PROVE job'[v].op = "transition"
      BY <3>1, <3>4 DEF BeginTransition, EditJob
    <3>5. ASSUME BeginDelete(v, c) PROVE job'[v].op = "delete"
      BY <3>1, <3>5 DEF BeginDelete, DeleteJob
    <3>6. job'[v].op = "create"
      BY DEF Writing
    <3> QED
      BY <1>2, <2>2, <3>2, <3>3, <3>4, <3>5, <3>6 DEF Begin, NewRow
  <2> QED
    BY <2>1, <2>2
<1>3. ASSUME NEW w \in Workers, EndRequest(w) \/ Abort(w)
      PROVE  (\E d \in Data : job[v].item = NewRow(d))'
  <2>1. CASE w # v
    BY <1>1, <1>3, <2>1, StepChangesOneJob
  <2>2. CASE w = v
    <3>1. CASE Save(v)
      <4>1. job[v] \in Job
        BY <3>1, BusyHoldsJob DEF Save, Writing, InPhase
      <4>2. job'[v].phase = "reply"
        BY <3>1, <4>1 DEF Save, GoTo, TypeOK, Job
      <4> QED
        BY <4>2 DEF Writing, InPhase
    <3>2. CASE Insert(v) \/ Remove(v) \/ Refuse(v) \/ Reply(v) \/ Abort(v)
      <4>1. job'[v] = Idle
        BY <3>2 DEF Insert, Remove, Refuse, Reply, Abort, Answer, TypeOK
      <4> QED
        BY <4>1 DEF Writing, InPhase
    <3> QED
      BY <1>3, <2>2, <3>1, <3>2 DEF EndRequest
  <2> QED
    BY <2>1, <2>2
<1>4. CASE UNCHANGED vars
  BY <1>1, <1>4 DEF vars
<1> QED
  BY <1>2, <1>3, <1>4 DEF Next

LEMMA InsertIsCreate ==
  ASSUME TypeOK, PendingCreatesAreNew, NEW w \in Workers, Insert(w)
  PROVE  Lifecycle!Next
<1> DEFINE j == job[w]
           c == j.code
<1>1. j \in Job /\ j.op = "create"
  BY BusyHoldsJob DEF Insert, Writing, InPhase
<1>2. c \in Codes
  BY <1>1, AuditEntryType
<1>3. PICK d \in Data : j.item = NewRow(d)
  BY DEF PendingCreatesAreNew, Insert
<1>4. AuditEntry(j) = [action |-> "create", before |-> "", after |-> InitialStatus]
  BY <1>1, <1>3 DEF AuditEntry, NewRow
<1>5. Lifecycle!Create(c, d)
  BY <1>3, <1>4 DEF Insert, CreateAudited, AppendAudit, NewRow, Lifecycle!Create, Lifecycle!Record
<1> QED
  BY <1>2, <1>5 DEF Lifecycle!Next, Lifecycle!Step

LEMMA SaveIsEdit ==
  ASSUME TypeOK, PendingSavesAreSound, NEW w \in Workers, Save(w), job[w].op = "update"
  PROVE  Lifecycle!Next
<1> DEFINE j == job[w]
           c == j.code
           d == j.item.data
<1>1. /\ j \in Job
      /\ rows[c] = j.read /\ j.read \in Row /\ ~j.read.deleted
      /\ j.expected = j.read.version
      /\ SavesALegalStep(j)
  BY SaveFindsWhatItRead
<1>2. c \in Codes /\ j.item \in Row /\ d \in Data
  BY <1>1, AuditEntryType DEF Row
<1>3. /\ j.item.version = rows[c].version + 1
      /\ j.item.status = rows[c].status /\ rows[c].status \in Editable
  BY <1>1 DEF SavesALegalStep
<1>4. [j.item EXCEPT !.deleted = rows[c].deleted]
        = [rows[c] EXCEPT !.data = d, !.version = rows[c].version + 1]
  BY <1>1, <1>2, <1>3 DEF Row
<1>5. rows' = [rows EXCEPT ![c].data = d, ![c].version = @ + 1]
  BY <1>1, <1>2, <1>4 DEF Save, UpdateAudited, TypeOK
<1>6. AuditEntry(j) = [action |-> "update", before |-> rows[c].status, after |-> rows[c].status]
  BY <1>1, <1>3 DEF AuditEntry
<1>7. Lifecycle!Live(c)
  BY <1>1, SentinelAssumption DEF Lifecycle!Live
<1>8. Lifecycle!Edit(c, d)
  BY <1>3, <1>5, <1>6, <1>7 DEF Save, UpdateAudited, AppendAudit, Lifecycle!Edit, Lifecycle!Record
<1> QED
  BY <1>2, <1>8 DEF Lifecycle!Next, Lifecycle!Step

LEMMA SaveIsAdvance ==
  ASSUME TypeOK, PendingSavesAreSound, NEW w \in Workers, Save(w), job[w].op = "transition"
  PROVE  Lifecycle!Next
<1> DEFINE j == job[w]
           c == j.code
           s == j.item.status
<1>1. /\ j \in Job
      /\ rows[c] = j.read /\ j.read \in Row /\ ~j.read.deleted
      /\ j.expected = j.read.version
      /\ SavesALegalStep(j)
  BY SaveFindsWhatItRead
<1>2. c \in Codes /\ j.item \in Row /\ s \in DOMAIN Graph
  BY <1>1, AuditEntryType DEF Row, Status
<1>3. /\ j.item.version = rows[c].version + 1
      /\ j.item.data = rows[c].data /\ s \in Graph[rows[c].status]
  BY <1>1 DEF SavesALegalStep
<1>4. [j.item EXCEPT !.deleted = rows[c].deleted]
        = [rows[c] EXCEPT !.status = s, !.version = rows[c].version + 1]
  BY <1>1, <1>2, <1>3 DEF Row
<1>5. rows' = [rows EXCEPT ![c].status = s, ![c].version = @ + 1]
  BY <1>1, <1>2, <1>4 DEF Save, UpdateAudited, TypeOK
<1>6. AuditEntry(j) = [action |-> "transition", before |-> rows[c].status, after |-> s]
  BY <1>1, <1>3 DEF AuditEntry
<1>7. Lifecycle!Live(c)
  BY <1>1, SentinelAssumption DEF Lifecycle!Live
<1>8. Lifecycle!Advance(c, s)
  BY <1>3, <1>5, <1>6, <1>7 DEF Save, UpdateAudited, AppendAudit, Lifecycle!Advance, Lifecycle!Record
<1> QED
  BY <1>2, <1>8 DEF Lifecycle!Next, Lifecycle!Step

\* Whatever the record is by then: the removal knows only its code.
LEMMA RemoveIsRetire ==
  ASSUME TypeOK, NEW w \in Workers, Remove(w)
  PROVE  Lifecycle!Next
<1> DEFINE j == job[w]
           c == j.code
           s == j.read.status
<1>1. j \in Job /\ j.op = "delete"
  BY BusyHoldsJob DEF Remove, Writing, InPhase
<1>2. c \in Codes /\ s \in DOMAIN Graph
  BY <1>1 DEF Job, Row, Status
<1>3. AuditEntry(j) = [action |-> "delete", before |-> s, after |-> "deleted"]
  BY <1>1 DEF AuditEntry
<1>4. Lifecycle!Retire(c, s)
  BY <1>3 DEF Remove, DeleteAudited, AppendAudit, Found,
     Lifecycle!Live, Lifecycle!Retire, Lifecycle!Record
<1> QED
  BY <1>2, <1>4 DEF Lifecycle!Next, Lifecycle!Step

LEMMA EveryStepIsALifecycleStep ==
  ASSUME TypeOK, PendingSavesAreSound, PendingCreatesAreNew, [Next]_vars
  PROVE  Lifecycle!Next \/ UNCHANGED storeVars
<1>1. ASSUME NEW w \in Workers, NEW c \in Codes, Begin(w, c) PROVE UNCHANGED storeVars
  BY <1>1 DEF Begin, BeginCreate, BeginUpdate, BeginTransition, BeginDelete, Start
<1>2. ASSUME NEW w \in Workers, Save(w) PROVE Lifecycle!Next
  BY <1>2, SaveFindsWhatItRead, SaveIsEdit, SaveIsAdvance
<1>3. ASSUME NEW w \in Workers, Refuse(w) \/ Reply(w) \/ Abort(w) PROVE UNCHANGED storeVars
  BY <1>3 DEF Refuse, Reply, Abort
<1>4. CASE UNCHANGED vars
  BY <1>4 DEF vars, storeVars
<1> QED
  BY <1>1, <1>2, <1>3, <1>4, InsertIsCreate, RemoveIsRetire DEF Next, EndRequest

LEMMA PendingCreatesStayNew == Spec => []PendingCreatesAreNew
<1>1. Init => PendingCreatesAreNew
  BY DEF Init, PendingCreatesAreNew, Writing, InPhase
<1>2. TypeOK /\ PendingCreatesAreNew /\ [Next]_vars => PendingCreatesAreNew'
  BY NextKeepsPendingCreatesNew
<1> QED
  BY <1>1, <1>2, TypeCorrect, PTL DEF Spec

\* The service implements the lifecycle: every commit of a request is one
\* atomic, audited and legal step of its record.
THEOREM RefinesLifecycle ==
  ASSUME Lookahead = 0
  PROVE  Spec => ImplementsLifecycle
<1>1. Init => Lifecycle!Init
  BY DEF Init, Lifecycle!Init
<1>2. TypeOK /\ PendingSavesAreSound /\ PendingCreatesAreNew /\ [Next]_vars
        => [Lifecycle!Next]_(Lifecycle!lifeVars)
  BY EveryStepIsALifecycleStep DEF storeVars, Lifecycle!lifeVars
<1> QED
  BY <1>1, <1>2, TypeCorrect, PendingSavesStaySound, PendingCreatesStayNew, PTL
  DEF Spec, ImplementsLifecycle, Lifecycle!Spec

-----------------------------------------------------------------------------
(* A save stays saved.                                                     *)

SaveStands(j) ==
  /\ rows[j.code] # Absent
  /\ rows[j.code].version >= j.item.version
  /\ rows[j.code].version = j.item.version
       => rows[j.code].status = j.item.status /\ rows[j.code].data = j.item.data

\* Later steps raise the version or leave status and columns alone.
LEMMA RowStepKeepsSaves ==
  ASSUME TypeOK, NEW j \in Job, SaveStands(j), RowStep(j.code)
  PROVE  SaveStands(j)'
<1> DEFINE c == j.code
<1>1. c \in Codes /\ j.item.version \in Nat /\ rows[c] \in Row /\ rows[c].version \in Nat
  BY AuditEntryType DEF SaveStands, TypeOK, Row
<1>2. CASE Kept(c)
  BY <1>2 DEF Kept, SaveStands
<1>3. CASE Edited(c) \/ Advanced(c)
  <2>1. rows'[c] # Absent
    BY <1>1, <1>3, RowStepKeepsRows
  <2>2. rows'[c].version = rows[c].version + 1
    <3>1. ASSUME Edited(c) PROVE rows'[c].version = rows[c].version + 1
      BY <3>1 DEF Edited
    <3>2. ASSUME Advanced(c) PROVE rows'[c].version = rows[c].version + 1
      BY <3>2 DEF Advanced
    <3> QED
      BY <1>3, <3>1, <3>2
  <2> QED
    BY <1>1, <2>1, <2>2 DEF SaveStands
<1>4. CASE Retired(c)
  <2>1. rows'[c] # Absent
    BY <1>1, <1>4, RowStepKeepsRows
  <2> QED
    BY <1>1, <1>4, <2>1 DEF Retired, SaveStands, Row
<1> QED
  BY <1>2, <1>3, <1>4 DEF RowStep, Created, SaveStands

LEMMA SaveStandsWhenMade ==
  ASSUME TypeOK, NEW w \in Workers, Save(w)
  PROVE  SaveStands(job[w])'
<1> DEFINE j == job[w]
           c == j.code
<1>1. j \in Job /\ c \in Codes /\ j.item \in Row
  BY BusyHoldsJob, AuditEntryType DEF Save, Writing, InPhase
<1>2. job'[w] = [j EXCEPT !.phase = "reply"]
  BY DEF Save, GoTo, TypeOK
<1>3. job'[w].code = c /\ job'[w].item = j.item
  BY <1>1, <1>2 DEF Job
<1>4. rows[c] \in Row
  BY <1>1, FoundIsRow DEF Save, UpdateAudited, VersionMatches
<1>5. rows'[c] = [j.item EXCEPT !.deleted = rows[c].deleted]
  BY <1>1 DEF Save, UpdateAudited, TypeOK
<1>6. rows'[c] \in Row
  BY <1>1, <1>4, <1>5 DEF Row
<1>7. /\ rows'[c].version = j.item.version /\ j.item.version \in Nat
      /\ rows'[c].status = j.item.status /\ rows'[c].data = j.item.data
  BY <1>1, <1>5 DEF Row
<1> QED
  BY <1>3, <1>6, <1>7, SentinelAssumption DEF SaveStands

LEMMA NextKeepsSaves ==
  ASSUME TypeOK, PendingSavesAreSound, SavedVersionsSurvive, [Next]_vars
  PROVE  SavedVersionsSurvive'
<1> SUFFICES ASSUME NEW v \in Workers, InPhase(v, "reply")'
             PROVE  SaveStands(job[v])'
  BY DEF SavedVersionsSurvive, SaveStands
<1>1. ASSUME job'[v] = job[v] PROVE SaveStands(job[v])'
  <2>1. InPhase(v, "reply")
    BY <1>1 DEF InPhase
  <2>2. PICK j \in Job : j = job[v]
    BY <2>1, BusyHoldsJob DEF InPhase
  <2>3. SaveStands(j)
    BY <2>1, <2>2 DEF SavedVersionsSurvive, SaveStands
  <2>4. RowStep(j.code)
    BY EveryStepIsARowStep, AuditEntryType
  <2>5. SaveStands(j)'
    BY <2>3, <2>4, RowStepKeepsSaves
  <2> QED
    BY <1>1, <2>2, <2>5 DEF SaveStands
<1>2. ASSUME NEW w \in Workers, NEW c \in Codes, Begin(w, c) PROVE SaveStands(job[v])'
  <2>1. CASE w = v
    <3>1. ASSUME NEW d \in Data, BeginCreate(v, c, d) PROVE job'[v].phase = "write"
      BY <3>1 DEF BeginCreate, CreateJob, Start, TypeOK
    <3>2. ASSUME NEW d, NEW e, BeginUpdate(v, c, d, e) PROVE job'[v].phase = "write"
      BY <3>2 DEF BeginUpdate, EditJob, Start, TypeOK
    <3>3. ASSUME NEW s, NEW e, BeginTransition(v, c, s, e) PROVE job'[v].phase = "write"
      BY <3>3 DEF BeginTransition, EditJob, Start, TypeOK
    <3>4. ASSUME BeginDelete(v, c) PROVE job'[v].phase = "write"
      BY <3>4 DEF BeginDelete, DeleteJob, Start, TypeOK
    <3> QED
      BY <1>2, <2>1, <3>1, <3>2, <3>3, <3>4 DEF Begin, InPhase
  <2>2. CASE w # v
    BY <1>1, <1>2, <2>2, StepChangesOneJob
  <2> QED
    BY <2>1, <2>2
<1>3. ASSUME NEW w \in Workers, EndRequest(w) \/ Abort(w) PROVE SaveStands(job[v])'
  <2>1. CASE w # v
    BY <1>1, <1>3, <2>1, StepChangesOneJob
  <2>2. CASE w = v
    <3>1. CASE Save(v)
      BY <3>1, SaveStandsWhenMade
    <3>2. CASE Insert(v) \/ Remove(v) \/ Refuse(v) \/ Reply(v) \/ Abort(v)
      <4>1. job'[v] = Idle
        BY <3>2 DEF Insert, Remove, Refuse, Reply, Abort, Answer, TypeOK
      <4> QED
        BY <4>1 DEF InPhase
    <3> QED
      BY <1>3, <2>2, <3>1, <3>2 DEF EndRequest
  <2> QED
    BY <2>1, <2>2
<1>4. CASE UNCHANGED vars
  BY <1>1, <1>4 DEF vars
<1> QED
  BY <1>2, <1>3, <1>4 DEF Next

\* No request, however old the row it read, undoes a save that another
\* request has not even been told of.
THEOREM SavesSurvive ==
  ASSUME Lookahead = 0
  PROVE  Spec => []SavedVersionsSurvive
<1>1. Init => SavedVersionsSurvive
  BY DEF Init, SavedVersionsSurvive, InPhase
<1>2. TypeOK /\ PendingSavesAreSound /\ SavedVersionsSurvive /\ [Next]_vars
        => SavedVersionsSurvive'
  BY NextKeepsSaves
<1> QED
  BY <1>1, <1>2, TypeCorrect, PendingSavesStaySound, PTL DEF Spec

-----------------------------------------------------------------------------
(* The history explains the row.                                           *)

\* There is nothing to chain in a history of one entry.
LEMMA ShortChain ==
  ASSUME NEW history, Len(history) \in {0, 1}
  PROVE  Chained(history)
BY DEF Chained

\* A chain goes on with an entry that starts where its last entry ended, or
\* with a removal.
LEMMA ChainGoesOn ==
  ASSUME NEW history \in Seq(AuditRow), NEW entry \in AuditRow, Chained(history),
         \/ history = <<>>
         \/ entry.action = "delete"
         \/ entry.before = history[Len(history)].after
  PROVE  Chained(Append(history, entry))
<1> DEFINE longer == Append(history, entry)
           n == Len(history)
<1>1. n \in Nat /\ Len(longer) = n + 1 /\ longer[n + 1] = entry
  OBVIOUS
<1>2. \A i \in 1 .. n : longer[i] = history[i]
  OBVIOUS
<1> SUFFICES ASSUME NEW i \in 2 .. n + 1, longer[i].action # "delete"
             PROVE  longer[i].before = longer[i - 1].after
  BY <1>1 DEF Chained
<1>3. CASE i <= n
  BY <1>1, <1>2, <1>3 DEF Chained
<1>4. CASE i = n + 1
  BY <1>1, <1>2, <1>4
<1> QED
  BY <1>1, <1>3, <1>4

\* The inductive invariant: a code without a row never had one.
HistoriesExplainRows ==
  \A c \in Codes : HistoryExplainsRow(c) /\ (rows[c] = Absent => Seed[c] = Absent)

LEMMA LifecycleKeepsHistories ==
  ASSUME TypeOK, HistoriesExplainRows, Lifecycle!Next
  PROVE  HistoriesExplainRows'
<1> USE GraphAssumption, SentinelAssumption
<1> SUFFICES ASSUME NEW c \in Codes
             PROVE  HistoryExplainsRow(c)' /\ (rows'[c] = Absent => Seed[c] = Absent)
  BY DEF HistoriesExplainRows
<1> DEFINE old == trail[c]
           saves == rows[c].version - SeedVersion(c)
<1>1. SeedVersion(c) \in {0, 1} /\ old \in Seq(AuditRow) /\ Len(old) \in Nat
  BY DEF SeedVersion, TypeOK
<1>2. HistoryExplainsRow(c) /\ (rows[c] = Absent => Seed[c] = Absent)
  BY DEF HistoriesExplainRows
<1>3. ASSUME rows[c] = Absent, NEW d \in Data, rows'[c] = NewRow(d),
             NEW e \in AuditRow, trail'[c] = Append(old, e), e.after = InitialStatus
      PROVE  HistoryExplainsRow(c)' /\ rows'[c] # Absent
  <2>1. Seed[c] = Absent /\ old = <<>>
    BY <1>2, <1>3 DEF HistoryExplainsRow
  <2>2. Len(trail'[c]) = 1 /\ trail'[c][1] = e
    BY <1>3, <2>1
  <2>3. Chained(trail'[c])
    BY <2>2, ShortChain
  <2>4. NewRow(d) \in Row /\ NewRow(d).deleted = FALSE
        /\ NewRow(d).version = 1 /\ NewRow(d).status = InitialStatus
    BY DEF NewRow, Row
  <2>5. /\ rows'[c] # Absent /\ ~rows'[c].deleted
        /\ rows'[c].version = 1 /\ rows'[c].status = InitialStatus
    BY <1>3, <2>4
  <2>6. trail'[c][Len(trail'[c])].after = rows'[c].status
    BY <1>3, <2>2, <2>5
  <2>7. rows'[c].version - SeedVersion(c) = Len(trail'[c])
    BY <2>1, <2>2, <2>5 DEF SeedVersion
  <2> QED
    BY <2>2, <2>3, <2>5, <2>6, <2>7 DEF HistoryExplainsRow
<1>4. ASSUME Lifecycle!Live(c)
      PROVE  /\ rows[c] \in Row /\ rows[c].version \in Nat \ {0}
             /\ Len(old) = saves /\ Chained(old)
             /\ saves > 0 => old[saves].after = rows[c].status
  BY <1>1, <1>2, <1>4 DEF Lifecycle!Live, TypeOK, Row, HistoryExplainsRow
<1>5. ASSUME Lifecycle!Live(c), NEW e \in AuditRow, e.before = rows[c].status,
             trail'[c] = Append(old, e), rows'[c] \in Row, ~rows'[c].deleted,
             rows'[c].version = rows[c].version + 1, rows'[c].status = e.after
      PROVE  HistoryExplainsRow(c)' /\ rows'[c] # Absent
  <2>1. Len(trail'[c]) = saves + 1 /\ trail'[c][saves + 1] = e
    BY <1>1, <1>4, <1>5
  <2>2. old = <<>> \/ saves > 0
    BY <1>1, <1>4, <1>5
  <2>3. Chained(trail'[c])
    BY <1>1, <1>4, <1>5, <2>2, ChainGoesOn
  <2> QED
    BY <1>1, <1>4, <1>5, <2>1, <2>3 DEF HistoryExplainsRow, SeedVersion
<1>6. ASSUME NEW d \in Data, Lifecycle!Edit(c, d)
      PROVE  HistoryExplainsRow(c)' /\ rows'[c] # Absent
  <2> DEFINE e == [action |-> "update", before |-> rows[c].status, after |-> rows[c].status]
  <2>1. rows'[c] = [rows[c] EXCEPT !.data = d, !.version = @ + 1] /\ trail'[c] = Append(old, e)
    BY <1>6 DEF Lifecycle!Edit, Lifecycle!Record, TypeOK
  <2>2. rows[c] \in Row /\ Lifecycle!Live(c)
    BY <1>4, <1>6 DEF Lifecycle!Edit
  <2>3. /\ rows'[c] \in Row /\ ~rows'[c].deleted
        /\ rows'[c].version = rows[c].version + 1 /\ rows'[c].status = rows[c].status
    <3>1. rows'[c] = [ deleted |-> rows[c].deleted,
                       status |-> rows[c].status, version |-> rows[c].version + 1, data |-> d ]
      BY <2>1, <2>2 DEF Row
    <3> QED
      BY <2>2, <3>1 DEF Lifecycle!Live, Row
  <2>4. e \in AuditRow
    BY <2>2 DEF AuditRow, Row, Ops
  <2> QED
    BY <1>5, <2>1, <2>2, <2>3, <2>4
<1>7. ASSUME NEW s \in Status, Lifecycle!Advance(c, s)
      PROVE  HistoryExplainsRow(c)' /\ rows'[c] # Absent
  <2> DEFINE e == [action |-> "transition", before |-> rows[c].status, after |-> s]
  <2>1. rows'[c] = [rows[c] EXCEPT !.status = s, !.version = @ + 1] /\ trail'[c] = Append(old, e)
    BY <1>7 DEF Lifecycle!Advance, Lifecycle!Record, TypeOK
  <2>2. rows[c] \in Row /\ Lifecycle!Live(c)
    BY <1>4, <1>7 DEF Lifecycle!Advance
  <2>3. /\ rows'[c] \in Row /\ ~rows'[c].deleted
        /\ rows'[c].version = rows[c].version + 1 /\ rows'[c].status = s
    <3>1. rows'[c] = [ deleted |-> rows[c].deleted,
                       status |-> s, version |-> rows[c].version + 1, data |-> rows[c].data ]
      BY <2>1, <2>2 DEF Row
    <3> QED
      BY <2>2, <3>1 DEF Lifecycle!Live, Row
  <2>4. e \in AuditRow
    BY <2>2 DEF AuditRow, Row, Ops
  <2> QED
    BY <1>5, <2>1, <2>2, <2>3, <2>4
<1>8. ASSUME NEW s \in Status, Lifecycle!Retire(c, s)
      PROVE  HistoryExplainsRow(c)' /\ rows'[c] # Absent
  <2> DEFINE e == [action |-> "delete", before |-> s, after |-> "deleted"]
  <2>1. rows'[c] = [rows[c] EXCEPT !.deleted = TRUE] /\ trail'[c] = Append(old, e)
    BY <1>8 DEF Lifecycle!Retire, Lifecycle!Record, TypeOK
  <2>2. rows[c] \in Row /\ Lifecycle!Live(c)
    BY <1>4, <1>8 DEF Lifecycle!Retire
  <2>3. /\ rows'[c] \in Row /\ rows'[c].deleted
        /\ rows'[c].version = rows[c].version /\ rows'[c].status = rows[c].status
    BY <2>1, <2>2 DEF Row
  <2>4. e \in AuditRow
    BY DEF AuditRow, Ops
  <2>5. Chained(trail'[c])
    BY <1>1, <1>4, <2>1, <2>2, <2>4, ChainGoesOn
  <2>6. /\ Len(trail'[c]) = saves + 1 /\ trail'[c][saves + 1] = e
        /\ saves > 0 => trail'[c][saves] = old[saves]
    BY <1>1, <1>4, <2>1, <2>2
  <2> QED
    BY <1>1, <1>4, <2>2, <2>3, <2>5, <2>6 DEF HistoryExplainsRow, SeedVersion
<1>9. ASSUME NEW d \in Data, Lifecycle!Create(c, d)
      PROVE  HistoryExplainsRow(c)' /\ rows'[c] # Absent
  <2> DEFINE e == [action |-> "create", before |-> "", after |-> InitialStatus]
  <2>1. e \in AuditRow /\ e.after = InitialStatus
    BY Zenon DEF AuditRow, Ops
  <2>2. rows[c] = Absent /\ rows'[c] = NewRow(d) /\ trail'[c] = Append(old, e)
    BY <1>9, Zenon DEF Lifecycle!Create, Lifecycle!Record, NewRow, TypeOK
  <2> HIDE DEF e
  <2> QED
    BY <1>3, <2>1, <2>2
<1>10. ASSUME NEW x \in Codes, x # c, Lifecycle!Step(x)
       PROVE  rows'[c] = rows[c] /\ trail'[c] = trail[c]
  BY <1>10 DEF Lifecycle!Step, Lifecycle!Create, Lifecycle!Edit, Lifecycle!Advance,
     Lifecycle!Retire, Lifecycle!Record, TypeOK
<1>11. ASSUME rows'[c] = rows[c], trail'[c] = trail[c]
       PROVE  HistoryExplainsRow(c)' /\ (rows'[c] = Absent => Seed[c] = Absent)
  BY <1>2, <1>11 DEF HistoryExplainsRow, SeedVersion
<1>12. CASE Lifecycle!Step(c)
  BY <1>6, <1>7, <1>8, <1>9, <1>12 DEF Lifecycle!Step, Status
<1> QED
  BY <1>10, <1>11, <1>12 DEF Lifecycle!Next

\* Whatever requests race, the audit history of a record has one entry for
\* each of its versions, each going on where the one before it stopped.
THEOREM HistoriesExplain ==
  ASSUME Lookahead = 0
  PROVE  Spec => []AuditExplainsRows
<1>1. Init => HistoriesExplainRows
  <2> SUFFICES ASSUME Init, NEW c \in Codes PROVE HistoryExplainsRow(c)
    BY DEF Init, HistoriesExplainRows
  <2>1. rows[c] = Seed[c] /\ trail[c] = <<>> /\ Len(trail[c]) = 0
    BY DEF Init
  <2>2. rows[c] # Absent => rows[c].version - SeedVersion(c) = 0 /\ ~rows[c].deleted
    BY <2>1, SeedAssumption DEF SeedVersion
  <2> QED
    BY <2>1, <2>2, ShortChain DEF HistoryExplainsRow
<1>2. TypeOK /\ PendingSavesAreSound /\ PendingCreatesAreNew /\ HistoriesExplainRows /\ [Next]_vars
        => HistoriesExplainRows'
  <2>1. ASSUME HistoriesExplainRows, UNCHANGED storeVars PROVE HistoriesExplainRows'
    BY <2>1 DEF storeVars, HistoriesExplainRows, HistoryExplainsRow, SeedVersion
  <2> QED
    BY <2>1, EveryStepIsALifecycleStep, LifecycleKeepsHistories
<1>3. HistoriesExplainRows => AuditExplainsRows
  BY DEF HistoriesExplainRows, AuditExplainsRows
<1> QED
  BY <1>1, <1>2, <1>3, TypeCorrect, PendingSavesStaySound, PendingCreatesStayNew, PTL DEF Spec
=============================================================================
