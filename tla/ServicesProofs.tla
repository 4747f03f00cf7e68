--------------------------- MODULE ServicesProofs ---------------------------
(***************************************************************************)
(* Each of the four services of TransferCompliance, seen alone, is a       *)
(* RecordService, whatever the others do.  What is proved of RecordService *)
(* therefore holds of each: its types, and, when clients quote only        *)
(* versions they have seen, its histories, its status graph and the        *)
(* implementation of RecordLifecycle.                                      *)
(***************************************************************************)
EXTENDS LinkProofs

-----------------------------------------------------------------------------
(* The store, as a service that uses the table of one kind sees it.        *)

View(kind) == INSTANCE AuditedStore WITH
  Codes <- kind, rows <- TableOf(kind, rows), trail <- TableOf(kind, trail), job <- JobsOn(kind)

\* A job belongs to the table of its record and is idle in the others.
LEMMA ViewOfJob ==
  ASSUME Shape, NEW K, NEW w \in Workers
  PROVE  /\ job[w] = Idle \/ job[w].code \notin K => JobsOn(K)[w] = Idle
         /\ job[w] # Idle /\ job[w].code \in K =>
              /\ JobsOn(K)[w] # Idle
              /\ JobsOn(K)[w] = IF job[w].phase = "reply" THEN job[w] ELSE Then(job[w], "write")
BY ThenFields, SentinelAssumption DEF Shape, JobsOn

\* A step that changes the job of one worker changes it in the view.
LEMMA ViewOfChange ==
  ASSUME Shape, NEW K, NEW w \in Workers, NEW j, job' = [job EXCEPT ![w] = j]
  PROVE  JobsOn(K)' = [JobsOn(K) EXCEPT ![w] =
           IF j = Idle \/ j.code \notin K THEN Idle
           ELSE IF j.phase = "reply" THEN j ELSE Then(j, "write")]
BY DEF Shape, JobsOn

\* A job that waits for its reply looks the same in the view.
LEMMA ViewOfReply ==
  ASSUME Shape, NEW K, NEW w \in Workers, NEW j, j # Idle, j.phase = "reply",
         job' = [job EXCEPT ![w] = j]
  PROVE  JobsOn(K)' = [JobsOn(K) EXCEPT ![w] = IF j.code \notin K THEN Idle ELSE j]
BY DEF Shape, JobsOn

\* A request starts in the view of its own table, and in no other.
LEMMA ViewOfStart ==
  ASSUME Shape, NEW K, NEW w \in Workers, NEW j \in AnyJob, j.phase # "reply", Start(w, j)
  PROVE  IF j.code \in K THEN View(K)!Start(w, Then(j, "write")) ELSE UNCHANGED View(K)!vars
<1>1. job' = [job EXCEPT ![w] = j] /\ job[w] = Idle /\ j # Idle
  BY SentinelAssumption DEF Start
<1>2. JobsOn(K)[w] = Idle
  BY <1>1, ViewOfJob
<1>3. UNCHANGED <<TableOf(K, rows), TableOf(K, trail)>>
  BY DEF Start, storeVars, TableOf
<1>4. CASE j.code \in K
  <2>1. JobsOn(K)' = [JobsOn(K) EXCEPT ![w] = Then(j, "write")]
    BY <1>1, <1>4, ViewOfChange
  <2> QED
    BY <1>2, <1>3, <1>4, <2>1 DEF View!Start, View!storeVars
<1>5. CASE j.code \notin K
  <2>1. JobsOn(K)' = [JobsOn(K) EXCEPT ![w] = Idle]
    BY <1>1, <1>5, ViewOfChange
  <2> QED
    BY <1>2, <1>3, <1>5, <2>1 DEF JobsOn, View!vars
<1> QED
  BY <1>4, <1>5

\* The end of a request, seen by the service of the record and by another.
LEMMA ViewOfAbort ==
  ASSUME Shape, NEW K, NEW w \in Workers, job[w] # Idle, job[w].phase # "reply",
         Answer(w), UNCHANGED storeVars
  PROVE  IF job[w].code \in K THEN View(K)!Abort(w) ELSE UNCHANGED View(K)!vars
<1>1. UNCHANGED <<TableOf(K, rows), TableOf(K, trail)>>
  BY DEF storeVars, TableOf
<1>2. JobsOn(K)' = [JobsOn(K) EXCEPT ![w] = Idle]
  BY ViewOfChange DEF Answer
<1>3. CASE job[w].code \in K
  <2>1. JobsOn(K)[w] # Idle /\ JobsOn(K)[w].phase = "write"
    BY <1>3, ViewOfJob, ThenFields DEF Shape
  <2> QED
    BY <1>1, <1>2, <1>3, <2>1 DEF View!Abort, View!Answer, View!storeVars
<1>4. CASE job[w].code \notin K
  BY <1>1, <1>2, <1>4, ViewOfJob DEF JobsOn, View!vars
<1> QED
  BY <1>3, <1>4

\* A table of the view holds the rows of the store.
LEMMA ViewOfRow ==
  ASSUME Shape, NEW K \in SUBSET Codes, NEW c \in K
  PROVE  /\ TableOf(K, rows)[c] = rows[c] /\ TableOf(K, trail)[c] = trail[c]
         /\ View(K)!Found(c) <=> Found(c)
BY DEF TableOf, View!Found, Found

\* A statement that changes one row and its history, in the view.
LEMMA ViewOfCommit ==
  ASSUME Shape, NEW K \in SUBSET Codes, NEW c \in Codes, NEW row, NEW e,
         rows' = [rows EXCEPT ![c] = row], trail' = [trail EXCEPT ![c] = Append(@, e)]
  PROVE  IF c \in K
         THEN /\ TableOf(K, rows)' = [TableOf(K, rows) EXCEPT ![c] = row]
              /\ TableOf(K, trail)' = [TableOf(K, trail) EXCEPT ![c] = Append(@, e)]
         ELSE UNCHANGED <<TableOf(K, rows), TableOf(K, trail)>>
BY DEF Shape, TableOf

\* A job that writes looks the same in the view.
LEMMA ViewOfWriting ==
  ASSUME Shape, NEW K, NEW w \in Workers, NEW ops, Writing(w, ops), job[w].code \in K
  PROVE  View(K)!Writing(w, ops) /\ JobsOn(K)[w] = job[w]
<1>1. job[w] \in AnyJob /\ job[w].phase = "write" /\ job[w] # Idle
  BY DEF Writing, InPhase, Shape
<1>2. JobsOn(K)[w] = Then(job[w], "write") /\ JobsOn(K)[w] # Idle
  BY <1>1, ViewOfJob
<1>3. Then(job[w], "write") = job[w]
  BY <1>1 DEF Then, AnyJob
<1> QED
  BY <1>1, <1>2, <1>3 DEF View!Writing, View!InPhase, Writing

\* The end of a request, one case for each outcome.
LEMMA ViewOfEnd ==
  ASSUME Shape, NEW K \in SUBSET Codes, NEW w \in Workers, EndRequest(w)
  PROVE  IF job[w].code \in K THEN View(K)!EndRequest(w) ELSE UNCHANGED View(K)!vars
<1> DEFINE j == job[w]
           c == j.code
<1>1. j # Idle /\ j \in AnyJob
  BY DEF Shape, EndRequest, Insert, Save, Remove, Refuse, Reply, Writing, InPhase
<1>2. c \in Codes
  BY <1>1 DEF AnyJob
<1>3. ASSUME Answer(w)
      PROVE  IF c \in K THEN View(K)!Answer(w) ELSE UNCHANGED JobsOn(K)
  <2>1. JobsOn(K)' = [JobsOn(K) EXCEPT ![w] = Idle]
    BY <1>3, ViewOfChange DEF Answer
  <2> QED
    BY <2>1, ViewOfJob DEF View!Answer, JobsOn
<1>4. ASSUME UNCHANGED storeVars
      PROVE  UNCHANGED <<TableOf(K, rows), TableOf(K, trail)>>
  BY <1>4 DEF storeVars, TableOf
<1>5. CASE Insert(w)
  <2>1. IF c \in K
        THEN /\ TableOf(K, rows)' = [TableOf(K, rows) EXCEPT ![c] = j.item]
             /\ TableOf(K, trail)' = [TableOf(K, trail) EXCEPT ![c] = Append(@, AuditEntry(j))]
        ELSE UNCHANGED <<TableOf(K, rows), TableOf(K, trail)>>
    BY <1>2, <1>5, ViewOfCommit DEF Insert, CreateAudited, AppendAudit
  <2>2. CASE c \in K
    <3>1. View(K)!Writing(w, {"create"}) /\ JobsOn(K)[w] = j
      BY <1>5, <2>2, ViewOfWriting DEF Insert
    <3>2. TableOf(K, rows)[c] = Absent
      BY <1>5, <2>2, ViewOfRow DEF Insert, CreateAudited
    <3>3. View(K)!Insert(w)
      BY <1>3, <1>5, <2>1, <2>2, <3>1, <3>2
      DEF Insert, View!Insert, View!CreateAudited, View!AppendAudit, View!AuditEntry, AuditEntry
    <3> QED
      BY <2>2, <3>3 DEF View!EndRequest
  <2> QED
    BY <1>3, <1>5, <2>1, <2>2 DEF Insert, View!vars
<1>6. CASE Save(w)
  <2> DEFINE row == [j.item EXCEPT !.deleted = rows[c].deleted]
  <2>1. IF c \in K
        THEN /\ TableOf(K, rows)' = [TableOf(K, rows) EXCEPT ![c] = row]
             /\ TableOf(K, trail)' = [TableOf(K, trail) EXCEPT ![c] = Append(@, AuditEntry(j))]
        ELSE UNCHANGED <<TableOf(K, rows), TableOf(K, trail)>>
    BY <1>2, <1>6, ViewOfCommit DEF Save, UpdateAudited, AppendAudit
  <2>2. j.phase = "write" /\ job' = [job EXCEPT ![w] = Then(j, "reply")]
    BY <1>1, <1>6 DEF Save, GoTo, Writing, InPhase, Then, Shape
  <2>3. /\ Then(j, "reply") \in AnyJob /\ Then(j, "reply") # Idle
        /\ Then(j, "reply").code = c /\ Then(j, "reply").phase = "reply"
    BY <1>1, ThenFields, SentinelAssumption
  <2>4. JobsOn(K)' = [JobsOn(K) EXCEPT ![w] = IF c \notin K THEN Idle ELSE Then(j, "reply")]
    <3>1. PICK next : next = Then(j, "reply")
      OBVIOUS
    <3>2. /\ next # Idle /\ next.code = c /\ next.phase = "reply"
          /\ job' = [job EXCEPT ![w] = next]
      BY <2>2, <2>3, <3>1
    <3>3. JobsOn(K)' = [JobsOn(K) EXCEPT ![w] = IF c \notin K THEN Idle ELSE next]
      BY <3>2, ViewOfReply
    <3> QED
      BY <3>1, <3>3
  <2>5. CASE c \in K
    <3>1. View(K)!Writing(w, {"update", "transition"}) /\ JobsOn(K)[w] = j
      BY <1>6, <2>5, ViewOfWriting DEF Save
    <3>2. View(K)!VersionMatches(j)
      BY <1>6, <2>5, ViewOfRow DEF Save, UpdateAudited, VersionMatches, View!VersionMatches
    <3>3. View(K)!UpdateAudited(j)
      BY <2>1, <2>5, <3>2, ViewOfRow
      DEF View!UpdateAudited, View!AppendAudit, View!AuditEntry, AuditEntry
    <3>4. View(K)!GoTo(w, "reply")
      BY <2>4, <2>5, <3>1 DEF View!GoTo, Then, JobsOn
    <3> QED
      BY <2>5, <3>1, <3>3, <3>4 DEF View!Save, View!EndRequest
  <2>6. CASE c \notin K
    BY <2>1, <2>4, <2>6, ViewOfJob DEF View!vars, JobsOn
  <2> QED
    BY <2>5, <2>6
<1>7. CASE Remove(w)
  <2> DEFINE row == [rows[c] EXCEPT !.deleted = TRUE]
  <2>1. IF c \in K
        THEN /\ TableOf(K, rows)' = [TableOf(K, rows) EXCEPT ![c] = row]
             /\ TableOf(K, trail)' = [TableOf(K, trail) EXCEPT ![c] = Append(@, AuditEntry(j))]
        ELSE UNCHANGED <<TableOf(K, rows), TableOf(K, trail)>>
    <3>1. rows' = [rows EXCEPT ![c] = row]
      BY <1>2, <1>7 DEF Remove, DeleteAudited, Shape
    <3> QED
      BY <1>2, <1>7, <3>1, ViewOfCommit DEF Remove, DeleteAudited, AppendAudit
  <2>2. CASE c \in K
    <3>1. View(K)!Writing(w, {"delete"}) /\ JobsOn(K)[w] = j
      BY <1>7, <2>2, ViewOfWriting DEF Remove
    <3>2. View(K)!Found(c) /\ TableOf(K, rows)[c] = rows[c]
      BY <1>7, <2>2, ViewOfRow DEF Remove, DeleteAudited
    <3>3. View(K)!DeleteAudited(j)
      BY <2>1, <2>2, <3>2
      DEF View!DeleteAudited, View!AppendAudit, View!AuditEntry, AuditEntry, TableOf
    <3>4. View(K)!Remove(w)
      BY <1>3, <1>7, <2>2, <3>1, <3>3 DEF Remove, View!Remove
    <3> QED
      BY <2>2, <3>4 DEF View!EndRequest
  <2> QED
    BY <1>3, <1>7, <2>1, <2>2 DEF Remove, View!vars
<1>8. CASE Refuse(w)
  <2>1. CASE c \in K
    <3>1. /\ View(K)!Found(c) <=> Found(c)
          /\ TableOf(K, rows)[c] = rows[c]
      BY <2>1, ViewOfRow
    <3>2. ASSUME NEW ops, Writing(w, ops) PROVE View(K)!Writing(w, ops) /\ JobsOn(K)[w] = j
      BY <2>1, <3>2, ViewOfWriting
    <3>3. View(K)!VersionMatches(j) <=> VersionMatches(j)
      BY <3>1 DEF View!VersionMatches, VersionMatches
    <3>4. View(K)!Refuse(w)
      BY <1>3, <1>4, <1>8, <2>1, <3>1, <3>2, <3>3 DEF Refuse, View!Refuse, View!storeVars
    <3> QED
      BY <2>1, <3>4 DEF View!EndRequest
  <2> QED
    BY <1>3, <1>4, <1>8, <2>1 DEF Refuse, View!vars
<1>9. CASE Reply(w)
  <2>1. CASE c \in K
    <3>1. JobsOn(K)[w] # Idle /\ JobsOn(K)[w] = j /\ j.phase = "reply"
      BY <1>1, <1>9, <2>1, ViewOfJob DEF Reply, InPhase
    <3>2. View(K)!Reply(w)
      BY <1>3, <1>4, <1>9, <2>1, <3>1 DEF Reply, View!Reply, View!InPhase, View!storeVars
    <3> QED
      BY <2>1, <3>2 DEF View!EndRequest
  <2> QED
    BY <1>3, <1>4, <1>9, <2>1 DEF Reply, View!vars
<1> QED
  BY <1>5, <1>6, <1>7, <1>8, <1>9 DEF EndRequest

\* A look-up that refuses is the end of its request, one that accepts is
\* nothing that the services see.
LEMMA ViewOfLookUp ==
  ASSUME Shape, NEW K \in SUBSET Codes, NEW w \in Workers,
         LookUpGenerator(w) \/ LookUpCarrier(w) \/ LookUpManifest(w)
  PROVE  UNCHANGED View(K)!vars \/ (job[w].code \in K /\ View(K)!Abort(w))
<1>1. job[w] # Idle /\ job[w].phase # "reply" /\ UNCHANGED storeVars
  BY DEF LookUpGenerator, LookUpCarrier, LookUpManifest, InPhase
<1>2. CASE Answer(w)
  BY <1>1, <1>2, ViewOfAbort
<1>3. ASSUME NEW p \in {"carrier", "write"}, GoTo(w, p) PROVE UNCHANGED View(K)!vars
  <2>1. job[w] \in AnyJob /\ job' = [job EXCEPT ![w] = Then(job[w], p)]
    BY <1>1, <1>3 DEF GoTo, Then, Shape
  <2>2. /\ Then(job[w], p) # Idle /\ Then(job[w], p).code = job[w].code
        /\ Then(job[w], p).phase # "reply"
    BY <1>1, <2>1, ThenFields, SentinelAssumption
  <2>3. Then(Then(job[w], p), "write") = Then(job[w], "write")
    BY DEF Then
  <2>4. JobsOn(K)' = [JobsOn(K) EXCEPT ![w] = JobsOn(K)[w]]
    <3>1. PICK next : next = Then(job[w], p)
      OBVIOUS
    <3>2. job' = [job EXCEPT ![w] = next] /\ next # Idle /\ next.code = job[w].code
      BY <2>1, <2>2, <3>1
    <3>3. JobsOn(K)' = [JobsOn(K) EXCEPT ![w] =
             IF next = Idle \/ next.code \notin K THEN Idle
             ELSE IF next.phase = "reply" THEN next ELSE Then(next, "write")]
      BY <3>2, ViewOfChange
    <3>4. JobsOn(K)[w] = IF job[w].code \notin K THEN Idle ELSE Then(job[w], "write")
      BY <1>1, ViewOfJob
    <3> QED
      BY <2>2, <2>3, <3>1, <3>2, <3>3, <3>4
  <2> QED
    BY <1>1, <2>4 DEF View!vars, JobsOn, storeVars, TableOf
<1> QED
  BY <1>2, <1>3 DEF LookUpGenerator, LookUpCarrier, LookUpManifest

-----------------------------------------------------------------------------
(* Each service follows RecordService.                                     *)

\* A worker starts one job.
LEMMA OneStart ==
  ASSUME Shape, NEW w \in Workers, NEW c \in Codes, Starts(w, c), NEW j, Start(w, j)
  PROVE  j \in AnyJob /\ j.code = c /\ j.phase # "reply"
BY DEF Starts, Start, Shape, WellFormed

\* A look-up that is still to come does not show in the view.
LEMMA ThenOfThen ==
  ASSUME NEW j, NEW p, NEW q
  PROVE  Then(Then(j, p), q) = Then(j, q)
BY DEF Then

LEMMA ThenOfJobs ==
  /\ \A c, s, d : Then(CreateJob(c, s, d), "write") = CreateJob(c, s, d)
  /\ \A op, c, e, row : Then(EditJob(op, c, e, row), "write") = EditJob(op, c, e, row)
  /\ \A c : Then(DeleteJob(c), "write") = DeleteJob(c)
<1>1. ASSUME NEW c, NEW s, NEW d
      PROVE  Then(CreateJob(c, s, d), "write") = CreateJob(c, s, d)
  <2>1. PICK item : item = [deleted |-> FALSE, status |-> s, version |-> 1, data |-> d]
    OBVIOUS
  <2>2. CreateJob(c, s, d) =
          [ phase |-> "write", op |-> "create", code |-> c, expected |-> 0, read |-> Absent,
            item |-> item ]
    BY <2>1 DEF CreateJob
  <2> QED
    BY <2>2 DEF Then
<1>2. ASSUME NEW op, NEW c, NEW e, NEW row
      PROVE  Then(EditJob(op, c, e, row), "write") = EditJob(op, c, e, row)
  BY DEF Then, EditJob
<1>3. ASSUME NEW c PROVE Then(DeleteJob(c), "write") = DeleteJob(c)
  BY DEF Then, DeleteJob
<1> QED
  BY <1>1, <1>2, <1>3

\* A generator request begins a request of its service.
LEMMA GeneratorBegins ==
  ASSUME Shape, NEW w \in Workers, NEW g \in Generators, GeneratorRequest(w, g)
  PROVE  GeneratorService!Begin(w, g)
<1>1. g \in Codes /\ Generators \in SUBSET Codes /\ Starts(w, g)
  BY KindsAssumption, GeneratorRequestStarts
<1>2. ASSUME NEW j, Start(w, j) PROVE GeneratorService!Start(w, Then(j, "write"))
  <2>1. View(Generators)!Start(w, Then(j, "write"))
    BY <1>1, <1>2, OneStart, ViewOfStart
  <2> QED
    BY <2>1
    DEF View!Start, GeneratorService!Start, View!storeVars, GeneratorService!storeVars
<1>3. TableOf(Generators, rows)[g] = rows[g] /\ (GeneratorService!Found(g) <=> Found(g))
  BY DEF TableOf, GeneratorService!Found, Found
<1>4. GeneratorService!Quotable(g) = Quotable(g)
  BY <1>3 DEF GeneratorService!Quotable, Quotable
<1>5. ASSUME NEW d \in Expiries, CreateGenerator(w, g, d)
      PROVE  GeneratorService!BeginCreate(w, g, d)
  <2>1. GeneratorService!Start(w, CreateJob(g, GeneratorInitialStatus, d))
    BY <1>2, <1>5, ThenOfJobs DEF CreateGenerator
  <2> QED
    BY <2>1 DEF GeneratorService!BeginCreate, GeneratorService!CreateJob, CreateJob
<1>6. ASSUME Found(g), NEW e \in Quotable(g), NEW d \in Expiries, UpdateGenerator(w, g, d, e)
      PROVE  GeneratorService!BeginUpdate(w, g, d, e)
  <2> DEFINE j == EditJob("update", g, e, [rows[g] EXCEPT !.data = d])
  <2>1. GeneratorService!Start(w, j)
    BY <1>2, <1>6, ThenOfJobs DEF UpdateGenerator
  <2>2. j =
          GeneratorService!EditJob("update", g, e, [TableOf(Generators, rows)[g] EXCEPT !.data = d])
    BY <1>3 DEF GeneratorService!EditJob, EditJob
  <2>3. rows[g].status \in DOMAIN GeneratorGraph
    BY <1>1, <1>6, FitsOwnTable DEF UpdateGenerator, Shape, Found
  <2> QED
    BY <1>3, <1>6, <2>1, <2>2, <2>3 DEF GeneratorService!BeginUpdate
<1>7. ASSUME Found(g), NEW e \in Quotable(g), NEW s \in DOMAIN GeneratorGraph, TransitionGenerator(w, g, s, e)
      PROVE  GeneratorService!BeginTransition(w, g, s, e)
  <2> DEFINE j == EditJob("transition", g, e, [rows[g] EXCEPT !.status = s])
  <2>1. GeneratorService!Start(w, j)
    BY <1>2, <1>7, ThenOfJobs DEF TransitionGenerator
  <2>2. j =
          GeneratorService!EditJob("transition", g, e, [TableOf(Generators, rows)[g] EXCEPT !.status = s])
    BY <1>3 DEF GeneratorService!EditJob, EditJob
  <2> QED
    BY <1>3, <1>7, <2>1, <2>2
    DEF GeneratorService!BeginTransition, TransitionGenerator, CanTransition
<1>8. ASSUME DeleteGenerator(w, g) PROVE GeneratorService!BeginDelete(w, g)
  <2>1. GeneratorService!Start(w, DeleteJob(g))
    BY <1>2, <1>8, ThenOfJobs DEF DeleteGenerator
  <2>2. DeleteJob(g) = GeneratorService!DeleteJob(g)
    BY <1>3 DEF GeneratorService!DeleteJob, DeleteJob
  <2>3. rows[g].status \in DOMAIN GeneratorGraph
    BY <1>1, <1>8, FitsOwnTable DEF DeleteGenerator, Shape, Found
  <2> QED
    BY <1>3, <1>8, <2>1, <2>2, <2>3 DEF DeleteGenerator, GeneratorService!BeginDelete
<1> QED
  BY <1>3, <1>4, <1>5, <1>6, <1>7, <1>8
  DEF GeneratorRequest, GeneratorService!Begin, GeneratorService!Status

\* A step of the system is a step of the generator service, or none.
LEMMA GeneratorStep ==
  ASSUME Shape, [Next]_allVars
  PROVE  UNCHANGED GeneratorService!vars \/ GeneratorService!Next
<1>1. Generators \in SUBSET Codes
  BY KindsAssumption
<1>2. ASSUME UNCHANGED View(Generators)!vars PROVE UNCHANGED GeneratorService!vars
  BY <1>2 DEF View!vars, GeneratorService!vars
<1>3. ASSUME NEW w \in Workers, View(Generators)!EndRequest(w) \/ View(Generators)!Abort(w)
      PROVE  GeneratorService!Next
  <2>1. GeneratorService!EndRequest(w) \/ GeneratorService!Abort(w)
    BY <1>3
    DEF View!Abort, GeneratorService!Abort, View!EndRequest, GeneratorService!EndRequest,
        View!Insert, GeneratorService!Insert, View!Save, GeneratorService!Save,
        View!Remove, GeneratorService!Remove, View!Refuse, GeneratorService!Refuse,
        View!Reply, GeneratorService!Reply, View!Writing, GeneratorService!Writing,
        View!InPhase, GeneratorService!InPhase, View!Answer, GeneratorService!Answer,
        View!GoTo, GeneratorService!GoTo, View!CreateAudited,
        GeneratorService!CreateAudited, View!UpdateAudited,
        GeneratorService!UpdateAudited, View!DeleteAudited,
        GeneratorService!DeleteAudited, View!VersionMatches,
        GeneratorService!VersionMatches, View!AppendAudit, GeneratorService!AppendAudit,
        View!AuditEntry, GeneratorService!AuditEntry, View!Found, GeneratorService!Found,
        View!storeVars, GeneratorService!storeVars
  <2> QED
    BY <2>1 DEF GeneratorService!Next
<1>4. ASSUME NEW w \in Workers, Request(w)
      PROVE  UNCHANGED GeneratorService!vars \/ GeneratorService!Next
  <2>1. ASSUME NEW g \in Generators, GeneratorRequest(w, g) PROVE GeneratorService!Next
    BY <2>1, GeneratorBegins DEF GeneratorService!Next
  <2>2. ASSUME NEW c \in Codes \ Generators, Starts(w, c)
        PROVE  UNCHANGED GeneratorService!vars
    BY <1>2, <2>2, ViewOfStart DEF Starts, WellFormed
  <2> QED
    BY <1>4, <2>1, <2>2, KindsAssumption, CarrierRequestStarts, ManifestRequestStarts, CheckRequestStarts
    DEF Request
<1>5. ASSUME NEW w \in Workers, Continue(w) \/ Abort(w)
      PROVE  UNCHANGED GeneratorService!vars \/ GeneratorService!Next
  <2>1. CASE EndRequest(w)
    BY <1>1, <1>2, <1>3, <2>1, ViewOfEnd
  <2>2. CASE Abort(w)
    BY <1>2, <1>3, <2>2, ViewOfAbort DEF Abort
  <2>3. CASE LookUpGenerator(w) \/ LookUpCarrier(w) \/ LookUpManifest(w)
    BY <1>1, <1>2, <1>3, <2>3, ViewOfLookUp
  <2> QED
    BY <1>5, <2>1, <2>2, <2>3 DEF Continue
<1>6. CASE Tick \/ UNCHANGED allVars
  BY <1>6 DEF Tick, allVars, vars, GeneratorService!vars, TableOf, JobsOn
<1> QED
  BY <1>4, <1>5, <1>6 DEF Next

\* A carrier request begins a request of its service.
LEMMA CarrierBegins ==
  ASSUME Shape, NEW w \in Workers, NEW c \in Carriers, CarrierRequest(w, c)
  PROVE  CarrierService!Begin(w, c)
<1>1. c \in Codes /\ Carriers \in SUBSET Codes /\ Starts(w, c)
  BY KindsAssumption, CarrierRequestStarts
<1>2. ASSUME NEW j, Start(w, j) PROVE CarrierService!Start(w, Then(j, "write"))
  <2>1. View(Carriers)!Start(w, Then(j, "write"))
    BY <1>1, <1>2, OneStart, ViewOfStart
  <2> QED
    BY <2>1 DEF View!Start, CarrierService!Start, View!storeVars, CarrierService!storeVars
<1>3. TableOf(Carriers, rows)[c] = rows[c] /\ (CarrierService!Found(c) <=> Found(c))
  BY DEF TableOf, CarrierService!Found, Found
<1>4. CarrierService!Quotable(c) = Quotable(c)
  BY <1>3 DEF CarrierService!Quotable, Quotable
<1>5. ASSUME NEW d \in Expiries, CreateCarrier(w, c, d)
      PROVE  CarrierService!BeginCreate(w, c, d)
  <2>1. CarrierService!Start(w, CreateJob(c, CarrierInitialStatus, d))
    BY <1>2, <1>5, ThenOfJobs DEF CreateCarrier
  <2> QED
    BY <2>1 DEF CarrierService!BeginCreate, CarrierService!CreateJob, CreateJob
<1>6. ASSUME Found(c), NEW e \in Quotable(c), NEW d \in Expiries, UpdateCarrier(w, c, d, e)
      PROVE  CarrierService!BeginUpdate(w, c, d, e)
  <2> DEFINE j == EditJob("update", c, e, [rows[c] EXCEPT !.data = d])
  <2>1. CarrierService!Start(w, j)
    BY <1>2, <1>6, ThenOfJobs DEF UpdateCarrier
  <2>2. j =
          CarrierService!EditJob("update", c, e, [TableOf(Carriers, rows)[c] EXCEPT !.data = d])
    BY <1>3 DEF CarrierService!EditJob, EditJob
  <2>3. rows[c].status \in DOMAIN CarrierGraph
    BY <1>1, <1>6, FitsOwnTable DEF UpdateCarrier, Shape, Found
  <2> QED
    BY <1>3, <1>6, <2>1, <2>2, <2>3 DEF CarrierService!BeginUpdate
<1>7. ASSUME Found(c), NEW e \in Quotable(c), NEW s \in DOMAIN CarrierGraph, TransitionCarrier(w, c, s, e)
      PROVE  CarrierService!BeginTransition(w, c, s, e)
  <2> DEFINE j == EditJob("transition", c, e, [rows[c] EXCEPT !.status = s])
  <2>1. CarrierService!Start(w, j)
    BY <1>2, <1>7, ThenOfJobs DEF TransitionCarrier
  <2>2. j =
          CarrierService!EditJob("transition", c, e, [TableOf(Carriers, rows)[c] EXCEPT !.status = s])
    BY <1>3 DEF CarrierService!EditJob, EditJob
  <2> QED
    BY <1>3, <1>7, <2>1, <2>2
    DEF CarrierService!BeginTransition, TransitionCarrier, CanTransition
<1>8. ASSUME DeleteCarrier(w, c) PROVE CarrierService!BeginDelete(w, c)
  <2>1. CarrierService!Start(w, DeleteJob(c))
    BY <1>2, <1>8, ThenOfJobs DEF DeleteCarrier
  <2>2. DeleteJob(c) = CarrierService!DeleteJob(c)
    BY <1>3 DEF CarrierService!DeleteJob, DeleteJob
  <2>3. rows[c].status \in DOMAIN CarrierGraph
    BY <1>1, <1>8, FitsOwnTable DEF DeleteCarrier, Shape, Found
  <2> QED
    BY <1>3, <1>8, <2>1, <2>2, <2>3 DEF DeleteCarrier, CarrierService!BeginDelete
<1> QED
  BY <1>3, <1>4, <1>5, <1>6, <1>7, <1>8
  DEF CarrierRequest, CarrierService!Begin, CarrierService!Status

\* A step of the system is a step of the carrier service, or none.
LEMMA CarrierStep ==
  ASSUME Shape, [Next]_allVars
  PROVE  UNCHANGED CarrierService!vars \/ CarrierService!Next
<1>1. Carriers \in SUBSET Codes
  BY KindsAssumption
<1>2. ASSUME UNCHANGED View(Carriers)!vars PROVE UNCHANGED CarrierService!vars
  BY <1>2 DEF View!vars, CarrierService!vars
<1>3. ASSUME NEW w \in Workers, View(Carriers)!EndRequest(w) \/ View(Carriers)!Abort(w)
      PROVE  CarrierService!Next
  <2>1. CarrierService!EndRequest(w) \/ CarrierService!Abort(w)
    BY <1>3
    DEF View!Abort, CarrierService!Abort, View!EndRequest, CarrierService!EndRequest,
        View!Insert, CarrierService!Insert, View!Save, CarrierService!Save, View!Remove,
        CarrierService!Remove, View!Refuse, CarrierService!Refuse, View!Reply,
        CarrierService!Reply, View!Writing, CarrierService!Writing, View!InPhase,
        CarrierService!InPhase, View!Answer, CarrierService!Answer, View!GoTo,
        CarrierService!GoTo, View!CreateAudited, CarrierService!CreateAudited,
        View!UpdateAudited, CarrierService!UpdateAudited, View!DeleteAudited,
        CarrierService!DeleteAudited, View!VersionMatches, CarrierService!VersionMatches,
        View!AppendAudit, CarrierService!AppendAudit, View!AuditEntry,
        CarrierService!AuditEntry, View!Found, CarrierService!Found, View!storeVars,
        CarrierService!storeVars
  <2> QED
    BY <2>1 DEF CarrierService!Next
<1>4. ASSUME NEW w \in Workers, Request(w)
      PROVE  UNCHANGED CarrierService!vars \/ CarrierService!Next
  <2>1. ASSUME NEW c \in Carriers, CarrierRequest(w, c) PROVE CarrierService!Next
    BY <2>1, CarrierBegins DEF CarrierService!Next
  <2>2. ASSUME NEW c \in Codes \ Carriers, Starts(w, c) PROVE UNCHANGED CarrierService!vars
    BY <1>2, <2>2, ViewOfStart DEF Starts, WellFormed
  <2> QED
    BY <1>4, <2>1, <2>2, KindsAssumption, GeneratorRequestStarts, ManifestRequestStarts, CheckRequestStarts
    DEF Request
<1>5. ASSUME NEW w \in Workers, Continue(w) \/ Abort(w)
      PROVE  UNCHANGED CarrierService!vars \/ CarrierService!Next
  <2>1. CASE EndRequest(w)
    BY <1>1, <1>2, <1>3, <2>1, ViewOfEnd
  <2>2. CASE Abort(w)
    BY <1>2, <1>3, <2>2, ViewOfAbort DEF Abort
  <2>3. CASE LookUpGenerator(w) \/ LookUpCarrier(w) \/ LookUpManifest(w)
    BY <1>1, <1>2, <1>3, <2>3, ViewOfLookUp
  <2> QED
    BY <1>5, <2>1, <2>2, <2>3 DEF Continue
<1>6. CASE Tick \/ UNCHANGED allVars
  BY <1>6 DEF Tick, allVars, vars, CarrierService!vars, TableOf, JobsOn
<1> QED
  BY <1>4, <1>5, <1>6 DEF Next

\* A manifest request begins a request of its service.
LEMMA ManifestBegins ==
  ASSUME Shape, NEW w \in Workers, NEW m \in Manifests, ManifestRequest(w, m)
  PROVE  ManifestService!Begin(w, m)
<1>1. m \in Codes /\ Manifests \in SUBSET Codes /\ Starts(w, m)
  BY KindsAssumption, ManifestRequestStarts
<1>2. ASSUME NEW j, Start(w, j) PROVE ManifestService!Start(w, Then(j, "write"))
  <2>1. View(Manifests)!Start(w, Then(j, "write"))
    BY <1>1, <1>2, OneStart, ViewOfStart
  <2> QED
    BY <2>1 DEF View!Start, ManifestService!Start, View!storeVars, ManifestService!storeVars
<1>3. TableOf(Manifests, rows)[m] = rows[m] /\ (ManifestService!Found(m) <=> Found(m))
  BY DEF TableOf, ManifestService!Found, Found
<1>4. ManifestService!Quotable(m) = Quotable(m)
  BY <1>3 DEF ManifestService!Quotable, Quotable
<1>5. ASSUME NEW d \in Parties, CreateManifest(w, m, d)
      PROVE  ManifestService!BeginCreate(w, m, d)
  <2>1. ManifestService!Start(w, CreateJob(m, ManifestInitialStatus, d))
    BY <1>2, <1>5, ThenOfJobs, ThenOfThen DEF CreateManifest
  <2> QED
    BY <2>1 DEF ManifestService!BeginCreate, ManifestService!CreateJob, CreateJob
<1>6. ASSUME Found(m), NEW e \in Quotable(m), NEW d \in Parties, UpdateManifest(w, m, d, e)
      PROVE  ManifestService!BeginUpdate(w, m, d, e)
  <2> DEFINE j == EditJob("update", m, e, [rows[m] EXCEPT !.data = d])
  <2>1. ManifestService!Start(w, j)
    BY <1>2, <1>6, ThenOfJobs, ThenOfThen DEF UpdateManifest
  <2>2. j =
          ManifestService!EditJob("update", m, e, [TableOf(Manifests, rows)[m] EXCEPT !.data = d])
    BY <1>3 DEF ManifestService!EditJob, EditJob
  <2>3. rows[m].status \in {"draft"}
    BY <1>1, <1>6, FitsOwnTable DEF UpdateManifest, Shape, Found
  <2> QED
    BY <1>3, <1>6, <2>1, <2>2, <2>3 DEF ManifestService!BeginUpdate
<1>7. ASSUME Found(m), NEW e \in Quotable(m), NEW s \in DOMAIN ManifestGraph, TransitionManifest(w, m, s, e)
      PROVE  ManifestService!BeginTransition(w, m, s, e)
  <2> DEFINE j == EditJob("transition", m, e, [rows[m] EXCEPT !.status = s])
  <2>1. ManifestService!Start(w, j)
    BY <1>2, <1>7, ThenOfJobs, ThenOfThen DEF TransitionManifest
  <2>2. j =
          ManifestService!EditJob("transition", m, e, [TableOf(Manifests, rows)[m] EXCEPT !.status = s])
    BY <1>3 DEF ManifestService!EditJob, EditJob
  <2> QED
    BY <1>3, <1>7, <2>1, <2>2
    DEF ManifestService!BeginTransition, TransitionManifest, CanTransition
<1>8. ASSUME DeleteManifest(w, m) PROVE ManifestService!BeginDelete(w, m)
  <2>1. ManifestService!Start(w, DeleteJob(m))
    BY <1>2, <1>8, ThenOfJobs DEF DeleteManifest
  <2>2. DeleteJob(m) = ManifestService!DeleteJob(m)
    BY <1>3 DEF ManifestService!DeleteJob, DeleteJob
  <2>3. rows[m].status \in {"draft"}
    BY <1>1, <1>8, FitsOwnTable DEF DeleteManifest, Shape, Found
  <2> QED
    BY <1>3, <1>8, <2>1, <2>2, <2>3 DEF DeleteManifest, ManifestService!BeginDelete
<1> QED
  BY <1>3, <1>4, <1>5, <1>6, <1>7, <1>8
  DEF ManifestRequest, ManifestService!Begin, ManifestService!Status

\* A step of the system is a step of the manifest service, or none.
LEMMA ManifestStep ==
  ASSUME Shape, [Next]_allVars
  PROVE  UNCHANGED ManifestService!vars \/ ManifestService!Next
<1>1. Manifests \in SUBSET Codes
  BY KindsAssumption
<1>2. ASSUME UNCHANGED View(Manifests)!vars PROVE UNCHANGED ManifestService!vars
  BY <1>2 DEF View!vars, ManifestService!vars
<1>3. ASSUME NEW w \in Workers, View(Manifests)!EndRequest(w) \/ View(Manifests)!Abort(w)
      PROVE  ManifestService!Next
  <2>1. ManifestService!EndRequest(w) \/ ManifestService!Abort(w)
    BY <1>3
    DEF View!Abort, ManifestService!Abort, View!EndRequest, ManifestService!EndRequest,
        View!Insert, ManifestService!Insert, View!Save, ManifestService!Save, View!Remove,
        ManifestService!Remove, View!Refuse, ManifestService!Refuse, View!Reply,
        ManifestService!Reply, View!Writing, ManifestService!Writing, View!InPhase,
        ManifestService!InPhase, View!Answer, ManifestService!Answer, View!GoTo,
        ManifestService!GoTo, View!CreateAudited, ManifestService!CreateAudited,
        View!UpdateAudited, ManifestService!UpdateAudited, View!DeleteAudited,
        ManifestService!DeleteAudited, View!VersionMatches,
        ManifestService!VersionMatches, View!AppendAudit, ManifestService!AppendAudit,
        View!AuditEntry, ManifestService!AuditEntry, View!Found, ManifestService!Found,
        View!storeVars, ManifestService!storeVars
  <2> QED
    BY <2>1 DEF ManifestService!Next
<1>4. ASSUME NEW w \in Workers, Request(w)
      PROVE  UNCHANGED ManifestService!vars \/ ManifestService!Next
  <2>1. ASSUME NEW m \in Manifests, ManifestRequest(w, m) PROVE ManifestService!Next
    BY <2>1, ManifestBegins DEF ManifestService!Next
  <2>2. ASSUME NEW c \in Codes \ Manifests, Starts(w, c)
        PROVE  UNCHANGED ManifestService!vars
    BY <1>2, <2>2, ViewOfStart DEF Starts, WellFormed
  <2> QED
    BY <1>4, <2>1, <2>2, KindsAssumption, GeneratorRequestStarts, CarrierRequestStarts, CheckRequestStarts
    DEF Request
<1>5. ASSUME NEW w \in Workers, Continue(w) \/ Abort(w)
      PROVE  UNCHANGED ManifestService!vars \/ ManifestService!Next
  <2>1. CASE EndRequest(w)
    BY <1>1, <1>2, <1>3, <2>1, ViewOfEnd
  <2>2. CASE Abort(w)
    BY <1>2, <1>3, <2>2, ViewOfAbort DEF Abort
  <2>3. CASE LookUpGenerator(w) \/ LookUpCarrier(w) \/ LookUpManifest(w)
    BY <1>1, <1>2, <1>3, <2>3, ViewOfLookUp
  <2> QED
    BY <1>5, <2>1, <2>2, <2>3 DEF Continue
<1>6. CASE Tick \/ UNCHANGED allVars
  BY <1>6 DEF Tick, allVars, vars, ManifestService!vars, TableOf, JobsOn
<1> QED
  BY <1>4, <1>5, <1>6 DEF Next

\* A check request begins a request of its service.
LEMMA CheckBegins ==
  ASSUME Shape, NEW w \in Workers, NEW k \in Checks, CheckRequest(w, k)
  PROVE  CheckService!Begin(w, k)
<1>1. k \in Codes /\ Checks \in SUBSET Codes /\ Starts(w, k)
  BY KindsAssumption, CheckRequestStarts
<1>2. ASSUME NEW j, Start(w, j) PROVE CheckService!Start(w, Then(j, "write"))
  <2>1. View(Checks)!Start(w, Then(j, "write"))
    BY <1>1, <1>2, OneStart, ViewOfStart
  <2> QED
    BY <2>1 DEF View!Start, CheckService!Start, View!storeVars, CheckService!storeVars
<1>3. TableOf(Checks, rows)[k] = rows[k] /\ (CheckService!Found(k) <=> Found(k))
  BY DEF TableOf, CheckService!Found, Found
<1>4. CheckService!Quotable(k) = Quotable(k)
  BY <1>3 DEF CheckService!Quotable, Quotable
<1>5. ASSUME NEW d \in Manifests, CreateCheck(w, k, d)
      PROVE  CheckService!BeginCreate(w, k, d)
  <2>1. CheckService!Start(w, CreateJob(k, CheckInitialStatus, d))
    BY <1>2, <1>5, ThenOfJobs, ThenOfThen DEF CreateCheck
  <2> QED
    BY <2>1 DEF CheckService!BeginCreate, CheckService!CreateJob, CreateJob
<1>6. ASSUME Found(k), NEW e \in Quotable(k), NEW d \in Manifests, UpdateCheck(w, k, d, e)
      PROVE  CheckService!BeginUpdate(w, k, d, e)
  <2> DEFINE j == EditJob("update", k, e, [rows[k] EXCEPT !.data = d])
  <2>1. CheckService!Start(w, j)
    BY <1>2, <1>6, ThenOfJobs, ThenOfThen DEF UpdateCheck
  <2>2. j =
          CheckService!EditJob("update", k, e, [TableOf(Checks, rows)[k] EXCEPT !.data = d])
    BY <1>3 DEF CheckService!EditJob, EditJob
  <2>3. rows[k].status \in {"pending"}
    BY <1>1, <1>6, FitsOwnTable DEF UpdateCheck, Shape, Found
  <2> QED
    BY <1>3, <1>6, <2>1, <2>2, <2>3 DEF CheckService!BeginUpdate
<1>7. ASSUME Found(k), NEW e \in Quotable(k), NEW s \in DOMAIN CheckGraph, TransitionCheck(w, k, s, e)
      PROVE  CheckService!BeginTransition(w, k, s, e)
  <2> DEFINE j == EditJob("transition", k, e, [rows[k] EXCEPT !.status = s])
  <2>1. CheckService!Start(w, j)
    BY <1>2, <1>7, ThenOfJobs, ThenOfThen DEF TransitionCheck
  <2>2. j =
          CheckService!EditJob("transition", k, e, [TableOf(Checks, rows)[k] EXCEPT !.status = s])
    BY <1>3 DEF CheckService!EditJob, EditJob
  <2> QED
    BY <1>3, <1>7, <2>1, <2>2
    DEF CheckService!BeginTransition, TransitionCheck, CanTransition
<1>8. ASSUME DeleteCheck(w, k) PROVE CheckService!BeginDelete(w, k)
  <2>1. CheckService!Start(w, DeleteJob(k))
    BY <1>2, <1>8, ThenOfJobs DEF DeleteCheck
  <2>2. DeleteJob(k) = CheckService!DeleteJob(k)
    BY <1>3 DEF CheckService!DeleteJob, DeleteJob
  <2>3. rows[k].status \in {"pending"}
    BY <1>1, <1>8, FitsOwnTable DEF DeleteCheck, Shape, Found
  <2> QED
    BY <1>3, <1>8, <2>1, <2>2, <2>3 DEF DeleteCheck, CheckService!BeginDelete
<1> QED
  BY <1>3, <1>4, <1>5, <1>6, <1>7, <1>8
  DEF CheckRequest, CheckService!Begin, CheckService!Status

\* A step of the system is a step of the check service, or none.
LEMMA CheckStep ==
  ASSUME Shape, [Next]_allVars
  PROVE  UNCHANGED CheckService!vars \/ CheckService!Next
<1>1. Checks \in SUBSET Codes
  BY KindsAssumption
<1>2. ASSUME UNCHANGED View(Checks)!vars PROVE UNCHANGED CheckService!vars
  BY <1>2 DEF View!vars, CheckService!vars
<1>3. ASSUME NEW w \in Workers, View(Checks)!EndRequest(w) \/ View(Checks)!Abort(w)
      PROVE  CheckService!Next
  <2>1. CheckService!EndRequest(w) \/ CheckService!Abort(w)
    BY <1>3
    DEF View!Abort, CheckService!Abort, View!EndRequest, CheckService!EndRequest,
        View!Insert, CheckService!Insert, View!Save, CheckService!Save, View!Remove,
        CheckService!Remove, View!Refuse, CheckService!Refuse, View!Reply,
        CheckService!Reply, View!Writing, CheckService!Writing, View!InPhase,
        CheckService!InPhase, View!Answer, CheckService!Answer, View!GoTo,
        CheckService!GoTo, View!CreateAudited, CheckService!CreateAudited,
        View!UpdateAudited, CheckService!UpdateAudited, View!DeleteAudited,
        CheckService!DeleteAudited, View!VersionMatches, CheckService!VersionMatches,
        View!AppendAudit, CheckService!AppendAudit, View!AuditEntry,
        CheckService!AuditEntry, View!Found, CheckService!Found, View!storeVars,
        CheckService!storeVars
  <2> QED
    BY <2>1 DEF CheckService!Next
<1>4. ASSUME NEW w \in Workers, Request(w)
      PROVE  UNCHANGED CheckService!vars \/ CheckService!Next
  <2>1. ASSUME NEW k \in Checks, CheckRequest(w, k) PROVE CheckService!Next
    BY <2>1, CheckBegins DEF CheckService!Next
  <2>2. ASSUME NEW c \in Codes \ Checks, Starts(w, c) PROVE UNCHANGED CheckService!vars
    BY <1>2, <2>2, ViewOfStart DEF Starts, WellFormed
  <2> QED
    BY <1>4, <2>1, <2>2, KindsAssumption, GeneratorRequestStarts, CarrierRequestStarts, ManifestRequestStarts
    DEF Request
<1>5. ASSUME NEW w \in Workers, Continue(w) \/ Abort(w)
      PROVE  UNCHANGED CheckService!vars \/ CheckService!Next
  <2>1. CASE EndRequest(w)
    BY <1>1, <1>2, <1>3, <2>1, ViewOfEnd
  <2>2. CASE Abort(w)
    BY <1>2, <1>3, <2>2, ViewOfAbort DEF Abort
  <2>3. CASE LookUpGenerator(w) \/ LookUpCarrier(w) \/ LookUpManifest(w)
    BY <1>1, <1>2, <1>3, <2>3, ViewOfLookUp
  <2> QED
    BY <1>5, <2>1, <2>2, <2>3 DEF Continue
<1>6. CASE Tick \/ UNCHANGED allVars
  BY <1>6 DEF Tick, allVars, vars, CheckService!vars, TableOf, JobsOn
<1> QED
  BY <1>4, <1>5, <1>6 DEF Next

-----------------------------------------------------------------------------
(* What is proved of RecordService holds of each of the four.              *)

\* The status graphs lead to their own statuses.
LEMMA GraphsAreGraphs ==
  /\ GeneratorGraph \in [DOMAIN GeneratorGraph -> SUBSET DOMAIN GeneratorGraph]
  /\ CarrierGraph \in [DOMAIN CarrierGraph -> SUBSET DOMAIN CarrierGraph]
  /\ ManifestGraph \in [DOMAIN ManifestGraph -> SUBSET DOMAIN ManifestGraph]
  /\ CheckGraph \in [DOMAIN CheckGraph -> SUBSET DOMAIN CheckGraph]
<1>1. GeneratorGraph \in [DOMAIN GeneratorGraph -> SUBSET DOMAIN GeneratorGraph]
  <2>1. \A s \in DOMAIN GeneratorGraph : GeneratorGraph[s] \subseteq DOMAIN GeneratorGraph
    BY DEF GeneratorGraph
  <2>2. GeneratorGraph = [s \in DOMAIN GeneratorGraph |-> GeneratorGraph[s]]
    BY DEF GeneratorGraph
  <2> QED
    BY <2>1, <2>2
<1>2. CarrierGraph \in [DOMAIN CarrierGraph -> SUBSET DOMAIN CarrierGraph]
  <2>1. \A s \in DOMAIN CarrierGraph : CarrierGraph[s] \subseteq DOMAIN CarrierGraph
    BY DEF CarrierGraph
  <2>2. CarrierGraph = [s \in DOMAIN CarrierGraph |-> CarrierGraph[s]]
    BY DEF CarrierGraph
  <2> QED
    BY <2>1, <2>2
<1>3. ManifestGraph \in [DOMAIN ManifestGraph -> SUBSET DOMAIN ManifestGraph]
  <2>1. \A s \in DOMAIN ManifestGraph : ManifestGraph[s] \subseteq DOMAIN ManifestGraph
    BY DEF ManifestGraph
  <2>2. ManifestGraph = [s \in DOMAIN ManifestGraph |-> ManifestGraph[s]]
    BY DEF ManifestGraph
  <2> QED
    BY <2>1, <2>2
<1>4. CheckGraph \in [DOMAIN CheckGraph -> SUBSET DOMAIN CheckGraph]
  <2>1. \A s \in DOMAIN CheckGraph : CheckGraph[s] \subseteq DOMAIN CheckGraph
    BY DEF CheckGraph
  <2>2. CheckGraph = [s \in DOMAIN CheckGraph |-> CheckGraph[s]]
    BY DEF CheckGraph
  <2> QED
    BY <2>1, <2>2
<1> QED
  BY <1>1, <1>2, <1>3, <1>4

\* A seeded row is a row of version 1 that is not deleted.
LEMMA SeededRow ==
  ASSUME NEW S, NEW D, NEW row \in [deleted: {FALSE}, status: S, version: {1}, data: D]
  PROVE  /\ row \in [deleted: BOOLEAN, status: S, version: Nat \ {0}, data: D]
         /\ row.version = 1 /\ ~row.deleted
<1>1. {FALSE} \subseteq BOOLEAN /\ {1} \subseteq Nat \ {0}
  OBVIOUS
<1>2. row \in [deleted: BOOLEAN, status: S, version: Nat \ {0}, data: D]
  BY <1>1, Zenon
<1>3. row.version = 1 /\ row.deleted = FALSE
  OBVIOUS
<1> QED
  BY <1>2, <1>3

\* The generator service, with the theorems about it.
GeneratorTheory == INSTANCE RecordHistoryProofs WITH
  Codes <- Generators, Graph <- GeneratorGraph, InitialStatus <- GeneratorInitialStatus,
  Editable <- DOMAIN GeneratorGraph, Deletable <- DOMAIN GeneratorGraph, Data <- Expiries,
  Seed <- TableOf(Generators, Seed), rows <- TableOf(Generators, rows),
  trail <- TableOf(Generators, trail), job <- JobsOn(Generators)

\* What RecordService assumes of its constants.
LEMMA GeneratorTheoryApplies ==
  /\ GeneratorTheory!GraphAssumption /\ GeneratorTheory!SentinelAssumption
  /\ GeneratorTheory!SeedAssumption /\ GeneratorTheory!BoundAssumption
<1>1. GeneratorTheory!GraphAssumption
  BY GraphsAreGraphs, Statuses, Kinds
  DEF GeneratorTheory!GraphAssumption, GeneratorTheory!Status
<1>2. GeneratorTheory!SentinelAssumption
  <2>1. GeneratorTheory!Row \in SUBSET AnyRow
    BY Kinds, RowFields DEF GeneratorTheory!Row, GeneratorTheory!Status
  <2> QED
    BY <2>1, SentinelAssumption DEF GeneratorTheory!SentinelAssumption
<1>3. GeneratorTheory!SeedAssumption
  <2>1. ASSUME NEW g \in Generators, Seed[g] # Absent
        PROVE  Seed[g] \in GeneratorTheory!Row /\ Seed[g].version = 1 /\ ~Seed[g].deleted
    <3>1. Seed[g]
            \in [deleted: {FALSE}, status: DOMAIN GeneratorGraph, version: {1}, data: Expiries]
      BY <2>1, SeedAssumption DEF Seedable
    <3> QED
      BY <3>1, SeededRow DEF GeneratorTheory!Row, GeneratorTheory!Status
  <2> QED
    BY <2>1 DEF GeneratorTheory!SeedAssumption, TableOf
<1>4. GeneratorTheory!BoundAssumption
  BY BoundAssumption, KindsAssumption DEF GeneratorTheory!BoundAssumption
<1> QED
  BY <1>1, <1>2, <1>3, <1>4

\* The two instances of RecordService are the same specification.
LEMMA GeneratorTheorySteps ==
  /\ GeneratorService!Init => GeneratorTheory!Init
  /\ GeneratorService!Next => GeneratorTheory!Next
  /\ GeneratorService!vars = GeneratorTheory!vars
<1>1. GeneratorService!Init => GeneratorTheory!Init
  BY DEF GeneratorService!Init, GeneratorTheory!Init
<1>2. GeneratorService!Next => GeneratorTheory!Next
  BY DEF GeneratorService!Next, GeneratorTheory!Next, GeneratorService!Begin,
         GeneratorTheory!Begin, GeneratorService!BeginCreate, GeneratorTheory!BeginCreate,
         GeneratorService!BeginUpdate, GeneratorTheory!BeginUpdate,
         GeneratorService!BeginTransition, GeneratorTheory!BeginTransition,
         GeneratorService!BeginDelete, GeneratorTheory!BeginDelete,
         GeneratorService!Start, GeneratorTheory!Start, GeneratorService!CreateJob,
         GeneratorTheory!CreateJob, GeneratorService!EditJob, GeneratorTheory!EditJob,
         GeneratorService!DeleteJob, GeneratorTheory!DeleteJob, GeneratorService!Quotable,
         GeneratorTheory!Quotable, GeneratorService!Status, GeneratorTheory!Status,
         GeneratorService!Abort, GeneratorTheory!Abort, GeneratorService!EndRequest,
         GeneratorTheory!EndRequest, GeneratorService!Insert, GeneratorTheory!Insert,
         GeneratorService!Save, GeneratorTheory!Save, GeneratorService!Remove,
         GeneratorTheory!Remove, GeneratorService!Refuse, GeneratorTheory!Refuse,
         GeneratorService!Reply, GeneratorTheory!Reply, GeneratorService!Writing,
         GeneratorTheory!Writing, GeneratorService!InPhase, GeneratorTheory!InPhase,
         GeneratorService!Answer, GeneratorTheory!Answer, GeneratorService!GoTo,
         GeneratorTheory!GoTo, GeneratorService!CreateAudited,
         GeneratorTheory!CreateAudited, GeneratorService!UpdateAudited,
         GeneratorTheory!UpdateAudited, GeneratorService!DeleteAudited,
         GeneratorTheory!DeleteAudited, GeneratorService!VersionMatches,
         GeneratorTheory!VersionMatches, GeneratorService!AppendAudit,
         GeneratorTheory!AppendAudit, GeneratorService!AuditEntry,
         GeneratorTheory!AuditEntry, GeneratorService!Found, GeneratorTheory!Found,
         GeneratorService!storeVars, GeneratorTheory!storeVars
<1>3. GeneratorService!vars = GeneratorTheory!vars
  BY DEF GeneratorService!vars, GeneratorTheory!vars
<1> QED
  BY <1>1, <1>2, <1>3

LEMMA GeneratorTheoryHolds == GeneratorsFollowTheService => GeneratorTheory!Spec
<1>1. GeneratorService!Init => GeneratorTheory!Init
  BY GeneratorTheorySteps
<1>2. [UNCHANGED GeneratorService!vars \/ GeneratorService!Next]_allVars
        => [GeneratorTheory!Next]_GeneratorTheory!vars
  <2>1. UNCHANGED allVars => UNCHANGED GeneratorTheory!vars
    BY DEF allVars, vars, GeneratorTheory!vars, TableOf, JobsOn
  <2>2. UNCHANGED GeneratorService!vars => UNCHANGED GeneratorTheory!vars
    BY DEF GeneratorService!vars, GeneratorTheory!vars
  <2> QED
    BY <2>1, <2>2, GeneratorTheorySteps
<1> QED
  BY <1>1, <1>2, PTL DEF GeneratorsFollowTheService, GeneratorTheory!Spec

LEMMA GeneratorTheoryTypes == GeneratorTheory!Spec => []GeneratorService!TypeOK
<1>1. GeneratorTheory!Spec => []GeneratorTheory!TypeOK
  BY GeneratorTheoryApplies, GeneratorTheory!TypeCorrect
<1>2. GeneratorTheory!TypeOK => GeneratorService!TypeOK
  BY DEF GeneratorService!TypeOK, GeneratorTheory!TypeOK, GeneratorService!Row,
         GeneratorTheory!Row, GeneratorService!Status, GeneratorTheory!Status,
         GeneratorService!AuditRow, GeneratorTheory!AuditRow, GeneratorService!Job,
         GeneratorTheory!Job, GeneratorService!Ops, GeneratorTheory!Ops
<1> QED
  BY <1>1, <1>2, PTL

LEMMA GeneratorInitIsInit == Init => GeneratorService!Init
BY KindsAssumption DEF Init, GeneratorService!Init, TableOf, JobsOn

\* Seen alone, the generator service is a RecordService (service/*.go).
THEOREM GeneratorsFollow == Spec => GeneratorsFollowTheService
<1>1. Init => GeneratorService!Init
  BY GeneratorInitIsInit
<1>2. Shape /\ [Next]_allVars
        => [UNCHANGED GeneratorService!vars \/ GeneratorService!Next]_allVars
  BY GeneratorStep
<1> QED
  BY <1>1, <1>2, AlwaysShaped, PTL DEF Spec, GeneratorsFollowTheService

\* The carrier service, with the theorems about it.
CarrierTheory == INSTANCE RecordHistoryProofs WITH
  Codes <- Carriers, Graph <- CarrierGraph, InitialStatus <- CarrierInitialStatus,
  Editable <- DOMAIN CarrierGraph, Deletable <- DOMAIN CarrierGraph, Data <- Expiries,
  Seed <- TableOf(Carriers, Seed), rows <- TableOf(Carriers, rows),
  trail <- TableOf(Carriers, trail), job <- JobsOn(Carriers)

\* What RecordService assumes of its constants.
LEMMA CarrierTheoryApplies ==
  /\ CarrierTheory!GraphAssumption /\ CarrierTheory!SentinelAssumption
  /\ CarrierTheory!SeedAssumption /\ CarrierTheory!BoundAssumption
<1>1. CarrierTheory!GraphAssumption
  BY GraphsAreGraphs, Statuses, Kinds
  DEF CarrierTheory!GraphAssumption, CarrierTheory!Status
<1>2. CarrierTheory!SentinelAssumption
  <2>1. CarrierTheory!Row \in SUBSET AnyRow
    BY Kinds, RowFields DEF CarrierTheory!Row, CarrierTheory!Status
  <2> QED
    BY <2>1, SentinelAssumption DEF CarrierTheory!SentinelAssumption
<1>3. CarrierTheory!SeedAssumption
  <2>1. ASSUME NEW c \in Carriers, Seed[c] # Absent
        PROVE  Seed[c] \in CarrierTheory!Row /\ Seed[c].version = 1 /\ ~Seed[c].deleted
    <3>1. Seed[c]
            \in [deleted: {FALSE}, status: DOMAIN CarrierGraph, version: {1}, data: Expiries]
      BY <2>1, SeedAssumption DEF Seedable
    <3> QED
      BY <3>1, SeededRow DEF CarrierTheory!Row, CarrierTheory!Status
  <2> QED
    BY <2>1 DEF CarrierTheory!SeedAssumption, TableOf
<1>4. CarrierTheory!BoundAssumption
  BY BoundAssumption, KindsAssumption DEF CarrierTheory!BoundAssumption
<1> QED
  BY <1>1, <1>2, <1>3, <1>4

\* The two instances of RecordService are the same specification.
LEMMA CarrierTheorySteps ==
  /\ CarrierService!Init => CarrierTheory!Init
  /\ CarrierService!Next => CarrierTheory!Next
  /\ CarrierService!vars = CarrierTheory!vars
<1>1. CarrierService!Init => CarrierTheory!Init
  BY DEF CarrierService!Init, CarrierTheory!Init
<1>2. CarrierService!Next => CarrierTheory!Next
  BY DEF CarrierService!Next, CarrierTheory!Next, CarrierService!Begin,
         CarrierTheory!Begin, CarrierService!BeginCreate, CarrierTheory!BeginCreate,
         CarrierService!BeginUpdate, CarrierTheory!BeginUpdate,
         CarrierService!BeginTransition, CarrierTheory!BeginTransition,
         CarrierService!BeginDelete, CarrierTheory!BeginDelete, CarrierService!Start,
         CarrierTheory!Start, CarrierService!CreateJob, CarrierTheory!CreateJob,
         CarrierService!EditJob, CarrierTheory!EditJob, CarrierService!DeleteJob,
         CarrierTheory!DeleteJob, CarrierService!Quotable, CarrierTheory!Quotable,
         CarrierService!Status, CarrierTheory!Status, CarrierService!Abort,
         CarrierTheory!Abort, CarrierService!EndRequest, CarrierTheory!EndRequest,
         CarrierService!Insert, CarrierTheory!Insert, CarrierService!Save,
         CarrierTheory!Save, CarrierService!Remove, CarrierTheory!Remove,
         CarrierService!Refuse, CarrierTheory!Refuse, CarrierService!Reply,
         CarrierTheory!Reply, CarrierService!Writing, CarrierTheory!Writing,
         CarrierService!InPhase, CarrierTheory!InPhase, CarrierService!Answer,
         CarrierTheory!Answer, CarrierService!GoTo, CarrierTheory!GoTo,
         CarrierService!CreateAudited, CarrierTheory!CreateAudited,
         CarrierService!UpdateAudited, CarrierTheory!UpdateAudited,
         CarrierService!DeleteAudited, CarrierTheory!DeleteAudited,
         CarrierService!VersionMatches, CarrierTheory!VersionMatches,
         CarrierService!AppendAudit, CarrierTheory!AppendAudit, CarrierService!AuditEntry,
         CarrierTheory!AuditEntry, CarrierService!Found, CarrierTheory!Found,
         CarrierService!storeVars, CarrierTheory!storeVars
<1>3. CarrierService!vars = CarrierTheory!vars
  BY DEF CarrierService!vars, CarrierTheory!vars
<1> QED
  BY <1>1, <1>2, <1>3

LEMMA CarrierTheoryHolds == CarriersFollowTheService => CarrierTheory!Spec
<1>1. CarrierService!Init => CarrierTheory!Init
  BY CarrierTheorySteps
<1>2. [UNCHANGED CarrierService!vars \/ CarrierService!Next]_allVars
        => [CarrierTheory!Next]_CarrierTheory!vars
  <2>1. UNCHANGED allVars => UNCHANGED CarrierTheory!vars
    BY DEF allVars, vars, CarrierTheory!vars, TableOf, JobsOn
  <2>2. UNCHANGED CarrierService!vars => UNCHANGED CarrierTheory!vars
    BY DEF CarrierService!vars, CarrierTheory!vars
  <2> QED
    BY <2>1, <2>2, CarrierTheorySteps
<1> QED
  BY <1>1, <1>2, PTL DEF CarriersFollowTheService, CarrierTheory!Spec

LEMMA CarrierTheoryTypes == CarrierTheory!Spec => []CarrierService!TypeOK
<1>1. CarrierTheory!Spec => []CarrierTheory!TypeOK
  BY CarrierTheoryApplies, CarrierTheory!TypeCorrect
<1>2. CarrierTheory!TypeOK => CarrierService!TypeOK
  BY DEF CarrierService!TypeOK, CarrierTheory!TypeOK, CarrierService!Row,
         CarrierTheory!Row, CarrierService!Status, CarrierTheory!Status,
         CarrierService!AuditRow, CarrierTheory!AuditRow, CarrierService!Job,
         CarrierTheory!Job, CarrierService!Ops, CarrierTheory!Ops
<1> QED
  BY <1>1, <1>2, PTL

LEMMA CarrierInitIsInit == Init => CarrierService!Init
BY KindsAssumption DEF Init, CarrierService!Init, TableOf, JobsOn

\* Seen alone, the carrier service is a RecordService (service/*.go).
THEOREM CarriersFollow == Spec => CarriersFollowTheService
<1>1. Init => CarrierService!Init
  BY CarrierInitIsInit
<1>2. Shape /\ [Next]_allVars
        => [UNCHANGED CarrierService!vars \/ CarrierService!Next]_allVars
  BY CarrierStep
<1> QED
  BY <1>1, <1>2, AlwaysShaped, PTL DEF Spec, CarriersFollowTheService

\* The manifest service, with the theorems about it.
ManifestTheory == INSTANCE RecordHistoryProofs WITH
  Codes <- Manifests, Graph <- ManifestGraph, InitialStatus <- ManifestInitialStatus,
  Editable <- {"draft"}, Deletable <- {"draft"}, Data <- Parties,
  Seed <- TableOf(Manifests, Seed), rows <- TableOf(Manifests, rows),
  trail <- TableOf(Manifests, trail), job <- JobsOn(Manifests)

\* What RecordService assumes of its constants.
LEMMA ManifestTheoryApplies ==
  /\ ManifestTheory!GraphAssumption /\ ManifestTheory!SentinelAssumption
  /\ ManifestTheory!SeedAssumption /\ ManifestTheory!BoundAssumption
<1>1. ManifestTheory!GraphAssumption
  BY GraphsAreGraphs, Statuses, Kinds
  DEF ManifestTheory!GraphAssumption, ManifestTheory!Status
<1>2. ManifestTheory!SentinelAssumption
  <2>1. ManifestTheory!Row \in SUBSET AnyRow
    BY Kinds, RowFields DEF ManifestTheory!Row, ManifestTheory!Status
  <2> QED
    BY <2>1, SentinelAssumption DEF ManifestTheory!SentinelAssumption
<1>3. ManifestTheory!SeedAssumption
  <2>1. ASSUME NEW m \in Manifests, Seed[m] # Absent
        PROVE  Seed[m] \in ManifestTheory!Row /\ Seed[m].version = 1 /\ ~Seed[m].deleted
    <3>1. Seed[m]
            \in [deleted: {FALSE}, status: DOMAIN ManifestGraph, version: {1}, data: Parties]
      BY <2>1, SeedAssumption DEF Seedable
    <3> QED
      BY <3>1, SeededRow DEF ManifestTheory!Row, ManifestTheory!Status
  <2> QED
    BY <2>1 DEF ManifestTheory!SeedAssumption, TableOf
<1>4. ManifestTheory!BoundAssumption
  BY BoundAssumption, KindsAssumption DEF ManifestTheory!BoundAssumption
<1> QED
  BY <1>1, <1>2, <1>3, <1>4

\* The two instances of RecordService are the same specification.
LEMMA ManifestTheorySteps ==
  /\ ManifestService!Init => ManifestTheory!Init
  /\ ManifestService!Next => ManifestTheory!Next
  /\ ManifestService!vars = ManifestTheory!vars
<1>1. ManifestService!Init => ManifestTheory!Init
  BY DEF ManifestService!Init, ManifestTheory!Init
<1>2. ManifestService!Next => ManifestTheory!Next
  BY DEF ManifestService!Next, ManifestTheory!Next, ManifestService!Begin,
         ManifestTheory!Begin, ManifestService!BeginCreate, ManifestTheory!BeginCreate,
         ManifestService!BeginUpdate, ManifestTheory!BeginUpdate,
         ManifestService!BeginTransition, ManifestTheory!BeginTransition,
         ManifestService!BeginDelete, ManifestTheory!BeginDelete, ManifestService!Start,
         ManifestTheory!Start, ManifestService!CreateJob, ManifestTheory!CreateJob,
         ManifestService!EditJob, ManifestTheory!EditJob, ManifestService!DeleteJob,
         ManifestTheory!DeleteJob, ManifestService!Quotable, ManifestTheory!Quotable,
         ManifestService!Status, ManifestTheory!Status, ManifestService!Abort,
         ManifestTheory!Abort, ManifestService!EndRequest, ManifestTheory!EndRequest,
         ManifestService!Insert, ManifestTheory!Insert, ManifestService!Save,
         ManifestTheory!Save, ManifestService!Remove, ManifestTheory!Remove,
         ManifestService!Refuse, ManifestTheory!Refuse, ManifestService!Reply,
         ManifestTheory!Reply, ManifestService!Writing, ManifestTheory!Writing,
         ManifestService!InPhase, ManifestTheory!InPhase, ManifestService!Answer,
         ManifestTheory!Answer, ManifestService!GoTo, ManifestTheory!GoTo,
         ManifestService!CreateAudited, ManifestTheory!CreateAudited,
         ManifestService!UpdateAudited, ManifestTheory!UpdateAudited,
         ManifestService!DeleteAudited, ManifestTheory!DeleteAudited,
         ManifestService!VersionMatches, ManifestTheory!VersionMatches,
         ManifestService!AppendAudit, ManifestTheory!AppendAudit,
         ManifestService!AuditEntry, ManifestTheory!AuditEntry, ManifestService!Found,
         ManifestTheory!Found, ManifestService!storeVars, ManifestTheory!storeVars
<1>3. ManifestService!vars = ManifestTheory!vars
  BY DEF ManifestService!vars, ManifestTheory!vars
<1> QED
  BY <1>1, <1>2, <1>3

LEMMA ManifestTheoryHolds == ManifestsFollowTheService => ManifestTheory!Spec
<1>1. ManifestService!Init => ManifestTheory!Init
  BY ManifestTheorySteps
<1>2. [UNCHANGED ManifestService!vars \/ ManifestService!Next]_allVars
        => [ManifestTheory!Next]_ManifestTheory!vars
  <2>1. UNCHANGED allVars => UNCHANGED ManifestTheory!vars
    BY DEF allVars, vars, ManifestTheory!vars, TableOf, JobsOn
  <2>2. UNCHANGED ManifestService!vars => UNCHANGED ManifestTheory!vars
    BY DEF ManifestService!vars, ManifestTheory!vars
  <2> QED
    BY <2>1, <2>2, ManifestTheorySteps
<1> QED
  BY <1>1, <1>2, PTL DEF ManifestsFollowTheService, ManifestTheory!Spec

LEMMA ManifestTheoryTypes == ManifestTheory!Spec => []ManifestService!TypeOK
<1>1. ManifestTheory!Spec => []ManifestTheory!TypeOK
  BY ManifestTheoryApplies, ManifestTheory!TypeCorrect
<1>2. ManifestTheory!TypeOK => ManifestService!TypeOK
  BY DEF ManifestService!TypeOK, ManifestTheory!TypeOK, ManifestService!Row,
         ManifestTheory!Row, ManifestService!Status, ManifestTheory!Status,
         ManifestService!AuditRow, ManifestTheory!AuditRow, ManifestService!Job,
         ManifestTheory!Job, ManifestService!Ops, ManifestTheory!Ops
<1> QED
  BY <1>1, <1>2, PTL

LEMMA ManifestInitIsInit == Init => ManifestService!Init
BY KindsAssumption DEF Init, ManifestService!Init, TableOf, JobsOn

\* Seen alone, the manifest service is a RecordService (service/*.go).
THEOREM ManifestsFollow == Spec => ManifestsFollowTheService
<1>1. Init => ManifestService!Init
  BY ManifestInitIsInit
<1>2. Shape /\ [Next]_allVars
        => [UNCHANGED ManifestService!vars \/ ManifestService!Next]_allVars
  BY ManifestStep
<1> QED
  BY <1>1, <1>2, AlwaysShaped, PTL DEF Spec, ManifestsFollowTheService

\* The check service, with the theorems about it.
CheckTheory == INSTANCE RecordHistoryProofs WITH
  Codes <- Checks, Graph <- CheckGraph, InitialStatus <- CheckInitialStatus,
  Editable <- {"pending"}, Deletable <- {"pending"}, Data <- Manifests,
  Seed <- TableOf(Checks, Seed), rows <- TableOf(Checks, rows),
  trail <- TableOf(Checks, trail), job <- JobsOn(Checks)

\* What RecordService assumes of its constants.
LEMMA CheckTheoryApplies ==
  /\ CheckTheory!GraphAssumption /\ CheckTheory!SentinelAssumption
  /\ CheckTheory!SeedAssumption /\ CheckTheory!BoundAssumption
<1>1. CheckTheory!GraphAssumption
  BY GraphsAreGraphs, Statuses, Kinds DEF CheckTheory!GraphAssumption, CheckTheory!Status
<1>2. CheckTheory!SentinelAssumption
  <2>1. CheckTheory!Row \in SUBSET AnyRow
    BY Kinds, RowFields DEF CheckTheory!Row, CheckTheory!Status
  <2> QED
    BY <2>1, SentinelAssumption DEF CheckTheory!SentinelAssumption
<1>3. CheckTheory!SeedAssumption
  <2>1. ASSUME NEW k \in Checks, Seed[k] # Absent
        PROVE  Seed[k] \in CheckTheory!Row /\ Seed[k].version = 1 /\ ~Seed[k].deleted
    <3>1. Seed[k]
            \in [deleted: {FALSE}, status: DOMAIN CheckGraph, version: {1}, data: Manifests]
      BY <2>1, SeedAssumption DEF Seedable
    <3> QED
      BY <3>1, SeededRow DEF CheckTheory!Row, CheckTheory!Status
  <2> QED
    BY <2>1 DEF CheckTheory!SeedAssumption, TableOf
<1>4. CheckTheory!BoundAssumption
  BY BoundAssumption, KindsAssumption DEF CheckTheory!BoundAssumption
<1> QED
  BY <1>1, <1>2, <1>3, <1>4

\* The two instances of RecordService are the same specification.
LEMMA CheckTheorySteps ==
  /\ CheckService!Init => CheckTheory!Init
  /\ CheckService!Next => CheckTheory!Next
  /\ CheckService!vars = CheckTheory!vars
<1>1. CheckService!Init => CheckTheory!Init
  BY DEF CheckService!Init, CheckTheory!Init
<1>2. CheckService!Next => CheckTheory!Next
  BY DEF CheckService!Next, CheckTheory!Next, CheckService!Begin, CheckTheory!Begin,
         CheckService!BeginCreate, CheckTheory!BeginCreate, CheckService!BeginUpdate,
         CheckTheory!BeginUpdate, CheckService!BeginTransition,
         CheckTheory!BeginTransition, CheckService!BeginDelete, CheckTheory!BeginDelete,
         CheckService!Start, CheckTheory!Start, CheckService!CreateJob,
         CheckTheory!CreateJob, CheckService!EditJob, CheckTheory!EditJob,
         CheckService!DeleteJob, CheckTheory!DeleteJob, CheckService!Quotable,
         CheckTheory!Quotable, CheckService!Status, CheckTheory!Status,
         CheckService!Abort, CheckTheory!Abort, CheckService!EndRequest,
         CheckTheory!EndRequest, CheckService!Insert, CheckTheory!Insert,
         CheckService!Save, CheckTheory!Save, CheckService!Remove, CheckTheory!Remove,
         CheckService!Refuse, CheckTheory!Refuse, CheckService!Reply, CheckTheory!Reply,
         CheckService!Writing, CheckTheory!Writing, CheckService!InPhase,
         CheckTheory!InPhase, CheckService!Answer, CheckTheory!Answer, CheckService!GoTo,
         CheckTheory!GoTo, CheckService!CreateAudited, CheckTheory!CreateAudited,
         CheckService!UpdateAudited, CheckTheory!UpdateAudited,
         CheckService!DeleteAudited, CheckTheory!DeleteAudited,
         CheckService!VersionMatches, CheckTheory!VersionMatches,
         CheckService!AppendAudit, CheckTheory!AppendAudit, CheckService!AuditEntry,
         CheckTheory!AuditEntry, CheckService!Found, CheckTheory!Found,
         CheckService!storeVars, CheckTheory!storeVars
<1>3. CheckService!vars = CheckTheory!vars
  BY DEF CheckService!vars, CheckTheory!vars
<1> QED
  BY <1>1, <1>2, <1>3

LEMMA CheckTheoryHolds == ChecksFollowTheService => CheckTheory!Spec
<1>1. CheckService!Init => CheckTheory!Init
  BY CheckTheorySteps
<1>2. [UNCHANGED CheckService!vars \/ CheckService!Next]_allVars
        => [CheckTheory!Next]_CheckTheory!vars
  <2>1. UNCHANGED allVars => UNCHANGED CheckTheory!vars
    BY DEF allVars, vars, CheckTheory!vars, TableOf, JobsOn
  <2>2. UNCHANGED CheckService!vars => UNCHANGED CheckTheory!vars
    BY DEF CheckService!vars, CheckTheory!vars
  <2> QED
    BY <2>1, <2>2, CheckTheorySteps
<1> QED
  BY <1>1, <1>2, PTL DEF ChecksFollowTheService, CheckTheory!Spec

LEMMA CheckTheoryTypes == CheckTheory!Spec => []CheckService!TypeOK
<1>1. CheckTheory!Spec => []CheckTheory!TypeOK
  BY CheckTheoryApplies, CheckTheory!TypeCorrect
<1>2. CheckTheory!TypeOK => CheckService!TypeOK
  BY DEF CheckService!TypeOK, CheckTheory!TypeOK, CheckService!Row, CheckTheory!Row,
         CheckService!Status, CheckTheory!Status, CheckService!AuditRow,
         CheckTheory!AuditRow, CheckService!Job, CheckTheory!Job, CheckService!Ops,
         CheckTheory!Ops
<1> QED
  BY <1>1, <1>2, PTL

LEMMA CheckInitIsInit == Init => CheckService!Init
BY KindsAssumption DEF Init, CheckService!Init, TableOf, JobsOn

\* Seen alone, the check service is a RecordService (service/*.go).
THEOREM ChecksFollow == Spec => ChecksFollowTheService
<1>1. Init => CheckService!Init
  BY CheckInitIsInit
<1>2. Shape /\ [Next]_allVars => [UNCHANGED CheckService!vars \/ CheckService!Next]_allVars
  BY CheckStep
<1> QED
  BY <1>1, <1>2, AlwaysShaped, PTL DEF Spec, ChecksFollowTheService

-----------------------------------------------------------------------------
(* What follows for the four services together.                            *)

\* Rows, histories and jobs of every service keep their types, and only
\* manifests and checks stop for look-ups.
THEOREM TypeCorrect == Spec => []TypeOK
<1>1. Shape => /\ now \in 0 .. MaxTime
               /\ \A w \in Workers : job[w] # Idle =>
                    /\ job[w].phase \in {"generator", "carrier"} => job[w].code \in Manifests
                    /\ job[w].phase = "manifest" => job[w].code \in Checks
  BY DEF Shape, WellFormed
<1>2. Spec => []GeneratorService!TypeOK
  BY GeneratorsFollow, GeneratorTheoryHolds, GeneratorTheoryTypes, PTL
<1>3. Spec => []CarrierService!TypeOK
  BY CarriersFollow, CarrierTheoryHolds, CarrierTheoryTypes, PTL
<1>4. Spec => []ManifestService!TypeOK
  BY ManifestsFollow, ManifestTheoryHolds, ManifestTheoryTypes, PTL
<1>5. Spec => []CheckService!TypeOK
  BY ChecksFollow, CheckTheoryHolds, CheckTheoryTypes, PTL
<1>6. /\ /\ now \in 0 .. MaxTime
         /\ \A w \in Workers : job[w] # Idle =>
              /\ job[w].phase \in {"generator", "carrier"} => job[w].code \in Manifests
              /\ job[w].phase = "manifest" => job[w].code \in Checks
      /\ GeneratorService!TypeOK /\ CarrierService!TypeOK
      /\ ManifestService!TypeOK /\ CheckService!TypeOK
      => TypeOK
  BY DEF TypeOK
<1> QED
  BY <1>1, <1>2, <1>3, <1>4, <1>5, <1>6, AlwaysShaped, PTL

\* Each service satisfies the specification of RecordService.
LEMMA TheoriesHold ==
  Spec => /\ GeneratorTheory!Spec /\ CarrierTheory!Spec
          /\ ManifestTheory!Spec /\ CheckTheory!Spec
BY GeneratorsFollow, GeneratorTheoryHolds, CarriersFollow, CarrierTheoryHolds,
   ManifestsFollow, ManifestTheoryHolds, ChecksFollow, CheckTheoryHolds, PTL

\* Under requests to all four services, every commit to a table is one atomic
\* and audited step of its RecordLifecycle.
THEOREM EachImplementsLifecycle ==
  ASSUME Lookahead = 0
  PROVE  Spec => /\ GeneratorTheory!ImplementsLifecycle
                 /\ CarrierTheory!ImplementsLifecycle
                 /\ ManifestTheory!ImplementsLifecycle
                 /\ CheckTheory!ImplementsLifecycle
<1>1. GeneratorTheory!Spec => GeneratorTheory!ImplementsLifecycle
  BY GeneratorTheoryApplies, GeneratorTheory!RefinesLifecycle
<1>2. CarrierTheory!Spec => CarrierTheory!ImplementsLifecycle
  BY CarrierTheoryApplies, CarrierTheory!RefinesLifecycle
<1>3. ManifestTheory!Spec => ManifestTheory!ImplementsLifecycle
  BY ManifestTheoryApplies, ManifestTheory!RefinesLifecycle
<1>4. CheckTheory!Spec => CheckTheory!ImplementsLifecycle
  BY CheckTheoryApplies, CheckTheory!RefinesLifecycle
<1> QED
  BY <1>1, <1>2, <1>3, <1>4, TheoriesHold, PTL

\* The status of a record of any table moves along the graph of that table.
THEOREM EachFollowsItsGraph ==
  ASSUME Lookahead = 0
  PROVE  Spec => /\ GeneratorTheory!StatusFollowsGraph
                 /\ CarrierTheory!StatusFollowsGraph
                 /\ ManifestTheory!StatusFollowsGraph
                 /\ CheckTheory!StatusFollowsGraph
<1>1. GeneratorTheory!Spec => GeneratorTheory!StatusFollowsGraph
  BY GeneratorTheoryApplies, GeneratorTheory!StatusesFollowTheGraph
<1>2. CarrierTheory!Spec => CarrierTheory!StatusFollowsGraph
  BY CarrierTheoryApplies, CarrierTheory!StatusesFollowTheGraph
<1>3. ManifestTheory!Spec => ManifestTheory!StatusFollowsGraph
  BY ManifestTheoryApplies, ManifestTheory!StatusesFollowTheGraph
<1>4. CheckTheory!Spec => CheckTheory!StatusFollowsGraph
  BY CheckTheoryApplies, CheckTheory!StatusesFollowTheGraph
<1> QED
  BY <1>1, <1>2, <1>3, <1>4, TheoriesHold, PTL

\* No service loses an update, also when its requests pause for look-ups.
THEOREM EachSaveReplacesWhatItRead ==
  ASSUME Lookahead = 0
  PROVE  Spec => /\ GeneratorTheory!SavesReplaceWhatTheyRead
                 /\ CarrierTheory!SavesReplaceWhatTheyRead
                 /\ ManifestTheory!SavesReplaceWhatTheyRead
                 /\ CheckTheory!SavesReplaceWhatTheyRead
<1>1. GeneratorTheory!Spec => GeneratorTheory!SavesReplaceWhatTheyRead
  BY GeneratorTheoryApplies, GeneratorTheory!NoLostUpdate
<1>2. CarrierTheory!Spec => CarrierTheory!SavesReplaceWhatTheyRead
  BY CarrierTheoryApplies, CarrierTheory!NoLostUpdate
<1>3. ManifestTheory!Spec => ManifestTheory!SavesReplaceWhatTheyRead
  BY ManifestTheoryApplies, ManifestTheory!NoLostUpdate
<1>4. CheckTheory!Spec => CheckTheory!SavesReplaceWhatTheyRead
  BY CheckTheoryApplies, CheckTheory!NoLostUpdate
<1> QED
  BY <1>1, <1>2, <1>3, <1>4, TheoriesHold, PTL

\* The audit histories of all four tables explain the rows.
THEOREM EachHistoryExplainsItsRow ==
  ASSUME Lookahead = 0
  PROVE  Spec => /\ []GeneratorTheory!AuditExplainsRows
                 /\ []CarrierTheory!AuditExplainsRows
                 /\ []ManifestTheory!AuditExplainsRows
                 /\ []CheckTheory!AuditExplainsRows
<1>1. GeneratorTheory!Spec => []GeneratorTheory!AuditExplainsRows
  BY GeneratorTheoryApplies, GeneratorTheory!HistoriesExplain
<1>2. CarrierTheory!Spec => []CarrierTheory!AuditExplainsRows
  BY CarrierTheoryApplies, CarrierTheory!HistoriesExplain
<1>3. ManifestTheory!Spec => []ManifestTheory!AuditExplainsRows
  BY ManifestTheoryApplies, ManifestTheory!HistoriesExplain
<1>4. CheckTheory!Spec => []CheckTheory!AuditExplainsRows
  BY CheckTheoryApplies, CheckTheory!HistoriesExplain
<1> QED
  BY <1>1, <1>2, <1>3, <1>4, TheoriesHold, PTL

\* What a request saved is stored, or a later version of it, until the request
\* has answered, in all four tables.
THEOREM EachSaveSurvives ==
  ASSUME Lookahead = 0
  PROVE  Spec => /\ []GeneratorTheory!SavedVersionsSurvive
                 /\ []CarrierTheory!SavedVersionsSurvive
                 /\ []ManifestTheory!SavedVersionsSurvive
                 /\ []CheckTheory!SavedVersionsSurvive
<1>1. GeneratorTheory!Spec => []GeneratorTheory!SavedVersionsSurvive
  BY GeneratorTheoryApplies, GeneratorTheory!SavesSurvive
<1>2. CarrierTheory!Spec => []CarrierTheory!SavedVersionsSurvive
  BY CarrierTheoryApplies, CarrierTheory!SavesSurvive
<1>3. ManifestTheory!Spec => []ManifestTheory!SavedVersionsSurvive
  BY ManifestTheoryApplies, ManifestTheory!SavesSurvive
<1>4. CheckTheory!Spec => []CheckTheory!SavedVersionsSurvive
  BY CheckTheoryApplies, CheckTheory!SavesSurvive
<1> QED
  BY <1>1, <1>2, <1>3, <1>4, TheoriesHold, PTL

\* The parties of a submitted manifest and the manifest of a decided check
\* never change again.
THEOREM LinksAreFrozen ==
  ASSUME Lookahead = 0
  PROVE  Spec => ManifestTheory!FrozenOutsideEditable /\ CheckTheory!FrozenOutsideEditable
<1>1. ManifestTheory!Spec => ManifestTheory!FrozenOutsideEditable
  BY ManifestTheoryApplies, ManifestTheory!FrozenOnceDecided
<1>2. CheckTheory!Spec => CheckTheory!FrozenOutsideEditable
  BY CheckTheoryApplies, CheckTheory!FrozenOnceDecided
<1> QED
  BY <1>1, <1>2, TheoriesHold, PTL
=============================================================================
