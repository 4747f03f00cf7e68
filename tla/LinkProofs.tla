----------------------------- MODULE LinkProofs -----------------------------
(***************************************************************************)
(* What the handlers have found out about linked records when they commit: *)
(* the parties of a submitted manifest were vetted, the manifest of a      *)
(* check that passed had been submitted, and nothing goes on that names an *)
(* unfit party or a removed manifest.  For all codes, seeds, dates,        *)
(* numbers of requests and bounds, and whatever versions clients quote.    *)
(*                                                                         *)
(* The inductive invariant has three parts: Shape gives the types of every *)
(* table and the look-ups each request may wait for; StatusesAreRecorded   *)
(* says that the histories hold each stored status; LookUpsAreKept says    *)
(* what a request that is under way has established, look-up by look-up.   *)
(* The histories only grow, so what was established stays so.              *)
(***************************************************************************)
EXTENDS TransferCompliance, TLAPS

-----------------------------------------------------------------------------
(* The types of the tables and of the requests under way.                  *)

AnyEntry ==
  [ action: {"create", "update", "transition", "delete"},
    before: AnyStatus \union {""}, after: AnyStatus \union {"deleted"} ]

\* Each table has its statuses and its data.
Fits(c, row) ==
  /\ c \in Generators => row.status \in DOMAIN GeneratorGraph /\ row.data \in Expiries
  /\ c \in Carriers => row.status \in DOMAIN CarrierGraph /\ row.data \in Expiries
  /\ c \in Manifests => row.status \in DOMAIN ManifestGraph /\ row.data \in Parties
  /\ c \in Checks => row.status \in DOMAIN CheckGraph /\ row.data \in Manifests

\* A job has read its row unless it creates one, and it stops for the
\* look-ups of its own table only.
WellFormed(j) ==
  /\ j \in AnyJob
  /\ j.op # "create" => j.read \in AnyRow
  /\ Fits(j.code, j.item)
  /\ j.phase \in {"generator", "carrier"} => j.code \in Manifests
  /\ j.phase = "manifest" => j.code \in Checks

\* The types, as far as the links depend on them.
Shape ==
  /\ rows \in [Codes -> AnyRow \union {Absent}]
  /\ \A c \in Codes : rows[c] # Absent => Fits(c, rows[c])
  /\ trail \in [Codes -> Seq(AnyEntry)]
  /\ job \in [Workers -> AnyJob \union {Idle}]
  /\ \A w \in Workers : job[w] # Idle => WellFormed(job[w])
  /\ now \in 0 .. MaxTime

\* The fields of a row, for the provers to see under the name AnyRow.
LEMMA RowFields ==
  ASSUME NEW row
  PROVE  row \in AnyRow <=>
    row \in [deleted: BOOLEAN, status: AnyStatus, version: Nat \ {0}, data: AnyData]
BY DEF AnyRow

\* The statuses of each kind of record.
LEMMA Statuses ==
  /\ DOMAIN GeneratorGraph = {"active", "restricted", "suspended", "expired"}
  /\ DOMAIN CarrierGraph = {"pending", "verified", "restricted", "expired"}
  /\ DOMAIN ManifestGraph = {"draft", "submitted", "in_transit", "received", "rejected"}
  /\ DOMAIN CheckGraph = {"pending", "pass", "fail", "escalated"}
<1>1. DOMAIN GeneratorGraph = {"active", "restricted", "suspended", "expired"}
  BY DEF GeneratorGraph
<1>2. DOMAIN CarrierGraph = {"pending", "verified", "restricted", "expired"}
  BY DEF CarrierGraph
<1>3. DOMAIN ManifestGraph = {"draft", "submitted", "in_transit", "received", "rejected"}
  BY DEF ManifestGraph
<1>4. DOMAIN CheckGraph = {"pending", "pass", "fail", "escalated"}
  BY DEF CheckGraph
<1> QED BY <1>1, <1>2, <1>3, <1>4

\* Each table stores some of the statuses and of the data.
LEMMA Kinds ==
  /\ DOMAIN GeneratorGraph \in SUBSET AnyStatus /\ DOMAIN CarrierGraph \in SUBSET AnyStatus
  /\ DOMAIN ManifestGraph \in SUBSET AnyStatus /\ DOMAIN CheckGraph \in SUBSET AnyStatus
  /\ GeneratorInitialStatus \in DOMAIN GeneratorGraph
  /\ CarrierInitialStatus \in DOMAIN CarrierGraph
  /\ ManifestInitialStatus \in DOMAIN ManifestGraph
  /\ CheckInitialStatus \in DOMAIN CheckGraph
  /\ Expiries \in SUBSET AnyData /\ Parties \in SUBSET AnyData /\ Manifests \in SUBSET AnyData
<1>1. /\ DOMAIN GeneratorGraph \in SUBSET AnyStatus /\ DOMAIN CarrierGraph \in SUBSET AnyStatus
      /\ DOMAIN ManifestGraph \in SUBSET AnyStatus /\ DOMAIN CheckGraph \in SUBSET AnyStatus
  BY DEF AnyStatus
<1>2. /\ GeneratorInitialStatus \in DOMAIN GeneratorGraph
      /\ CarrierInitialStatus \in DOMAIN CarrierGraph
  BY Statuses DEF GeneratorInitialStatus, CarrierInitialStatus
<1>3. ManifestInitialStatus \in DOMAIN ManifestGraph /\ CheckInitialStatus \in DOMAIN CheckGraph
  BY Statuses DEF ManifestInitialStatus, CheckInitialStatus
<1> QED BY <1>1, <1>2, <1>3 DEF AnyData

\* No code is in two tables.
LEMMA FitsOwnTable ==
  ASSUME NEW row
  PROVE  /\ \A g \in Generators :
              Fits(g, row) <=> row.status \in DOMAIN GeneratorGraph /\ row.data \in Expiries
         /\ \A c \in Carriers :
              Fits(c, row) <=> row.status \in DOMAIN CarrierGraph /\ row.data \in Expiries
         /\ \A m \in Manifests :
              Fits(m, row) <=> row.status \in DOMAIN ManifestGraph /\ row.data \in Parties
         /\ \A k \in Checks :
              Fits(k, row) <=> row.status \in DOMAIN CheckGraph /\ row.data \in Manifests
BY KindsAssumption DEF Fits

\* The locals of a handler that is about to write are a job.
LEMMA CreateJobIsJob ==
  ASSUME NEW c \in Codes, NEW s \in AnyStatus, NEW d \in AnyData
  PROVE  CreateJob(c, s, d) \in AnyJob
<1>1. [deleted |-> FALSE, status |-> s, version |-> 1, data |-> d]
        \in [deleted: BOOLEAN, status: AnyStatus, version: Nat \ {0}, data: AnyData]
  OBVIOUS
<1>2. [deleted |-> FALSE, status |-> s, version |-> 1, data |-> d] \in AnyRow
  BY <1>1, RowFields
<1> QED
  BY <1>2 DEF CreateJob, AnyJob

LEMMA EditJobIsJob ==
  ASSUME NEW op \in {"update", "transition"}, NEW c \in Codes, NEW e \in Nat,
         NEW row \in AnyRow, rows[c] \in AnyRow
  PROVE  EditJob(op, c, e, row) \in AnyJob
<1>1. [row EXCEPT !.version = e + 1] \in AnyRow
  BY RowFields
<1> QED
  BY <1>1 DEF EditJob, AnyJob

\* What a handler builds from the row it read is a row.
LEMMA FoundRow ==
  ASSUME Shape, NEW c \in Codes, Found(c)
  PROVE  /\ rows[c] \in AnyRow
         /\ Quotable(c) \subseteq Nat
         /\ \A s \in AnyStatus : [rows[c] EXCEPT !.status = s] \in AnyRow
         /\ \A d \in AnyData : [rows[c] EXCEPT !.data = d] \in AnyRow
<1>1. rows[c] \in AnyRow
  BY DEF Shape, Found
<1>2. Quotable(c) \subseteq Nat
  BY DEF Quotable
<1>3. \A s \in AnyStatus : [rows[c] EXCEPT !.status = s] \in AnyRow
  BY <1>1, RowFields
<1>4. \A d \in AnyData : [rows[c] EXCEPT !.data = d] \in AnyRow
  BY <1>1, RowFields
<1> QED
  BY <1>1, <1>2, <1>3, <1>4

LEMMA DeleteJobIsJob ==
  ASSUME Shape, NEW c \in Codes, Found(c)
  PROVE  DeleteJob(c) \in AnyJob /\ rows[c] \in AnyRow
<1>1. rows[c] \in AnyRow
  BY DEF Shape, Found
<1> QED
  BY <1>1 DEF DeleteJob, AnyJob

\* A job that goes on with a look-up differs in its phase only.
LEMMA ThenFields ==
  ASSUME NEW j \in AnyJob, NEW p \in {"generator", "carrier", "manifest", "write", "reply"}
  PROVE  /\ Then(j, p) \in AnyJob
         /\ Then(j, p).phase = p
         /\ Then(j, p).op = j.op /\ Then(j, p).code = j.code /\ Then(j, p).read = j.read
         /\ Then(j, p).expected = j.expected /\ Then(j, p).item = j.item
BY DEF Then, AnyJob

\* A job for a table with statuses S and data D.
Fitted(j, S, D) ==
  /\ j \in AnyJob
  /\ j.op # "create" => j.read \in AnyRow
  /\ j.item.status \in S /\ j.item.data \in D

\* Every handler builds a job for its own table.
LEMMA JobsAreFitted ==
  ASSUME Shape, NEW c \in Codes, NEW S \in SUBSET AnyStatus, NEW D \in SUBSET AnyData
  PROVE  /\ \A s \in S, d \in D : Fitted(CreateJob(c, s, d), S, D)
         /\ Found(c) /\ rows[c].status \in S /\ rows[c].data \in D =>
              /\ \A e \in Quotable(c), d \in D :
                   Fitted(EditJob("update", c, e, [rows[c] EXCEPT !.data = d]), S, D)
              /\ \A e \in Quotable(c), s \in S :
                   Fitted(EditJob("transition", c, e, [rows[c] EXCEPT !.status = s]), S, D)
              /\ Fitted(DeleteJob(c), S, D)
<1>1. ASSUME NEW s \in S, NEW d \in D PROVE Fitted(CreateJob(c, s, d), S, D)
  <2>1. CreateJob(c, s, d) \in AnyJob
    BY CreateJobIsJob
  <2> QED
    BY <2>1 DEF Fitted, CreateJob
<1>2. ASSUME Found(c), rows[c].status \in S, rows[c].data \in D, NEW e \in Quotable(c), NEW d \in D
      PROVE  Fitted(EditJob("update", c, e, [rows[c] EXCEPT !.data = d]), S, D)
  <2>1. rows[c] \in AnyRow /\ e \in Nat /\ [rows[c] EXCEPT !.data = d] \in AnyRow
    BY <1>2, FoundRow
  <2>2. EditJob("update", c, e, [rows[c] EXCEPT !.data = d]) \in AnyJob
    BY <2>1, EditJobIsJob
  <2>3. [[rows[c] EXCEPT !.data = d] EXCEPT !.version = e + 1].status = rows[c].status
    BY <2>1, RowFields
  <2>4. [[rows[c] EXCEPT !.data = d] EXCEPT !.version = e + 1].data = d
    BY <2>1, RowFields
  <2> QED
    BY <1>2, <2>1, <2>2, <2>3, <2>4 DEF Fitted, EditJob
<1>3. ASSUME Found(c), rows[c].status \in S, rows[c].data \in D, NEW e \in Quotable(c), NEW s \in S
      PROVE  Fitted(EditJob("transition", c, e, [rows[c] EXCEPT !.status = s]), S, D)
  <2>1. rows[c] \in AnyRow /\ e \in Nat /\ [rows[c] EXCEPT !.status = s] \in AnyRow
    BY <1>3, FoundRow
  <2>2. EditJob("transition", c, e, [rows[c] EXCEPT !.status = s]) \in AnyJob
    BY <2>1, EditJobIsJob
  <2>3. [[rows[c] EXCEPT !.status = s] EXCEPT !.version = e + 1].status = s
    BY <2>1, RowFields
  <2>4. [[rows[c] EXCEPT !.status = s] EXCEPT !.version = e + 1].data = rows[c].data
    BY <2>1, RowFields
  <2> QED
    BY <1>3, <2>1, <2>2, <2>3, <2>4 DEF Fitted, EditJob
<1>4. ASSUME Found(c), rows[c].status \in S, rows[c].data \in D
      PROVE  Fitted(DeleteJob(c), S, D)
  <2>1. DeleteJob(c) \in AnyJob /\ rows[c] \in AnyRow
    BY <1>4, DeleteJobIsJob
  <2> QED
    BY <1>4, <2>1 DEF Fitted, DeleteJob
<1> QED
  BY <1>1, <1>2, <1>3, <1>4

LEMMA ThenIsFitted ==
  ASSUME NEW S, NEW D, NEW j, Fitted(j, S, D),
         NEW p \in {"generator", "carrier", "manifest", "write", "reply"}
  PROVE  Fitted(Then(j, p), S, D) /\ Then(j, p).phase = p /\ Then(j, p).code = j.code
BY ThenFields DEF Fitted

-----------------------------------------------------------------------------
(* What a request starts.                                                  *)

\* A request on the record c starts a job that is well formed.
Starts(w, c) == \E j : Start(w, j) /\ WellFormed(j) /\ j.code = c /\ j.phase # "reply"

\* What the handlers of each kind start, one case for each operation.
LEMMA GeneratorRequestStarts ==
  ASSUME Shape, NEW w \in Workers, NEW g \in Generators, GeneratorRequest(w, g)
  PROVE  Starts(w, g)
<1> DEFINE S == DOMAIN GeneratorGraph
<1>1. /\ g \in Codes /\ S \in SUBSET AnyStatus
      /\ Expiries \in SUBSET AnyData /\ GeneratorInitialStatus \in S
  BY KindsAssumption, Kinds
<1>2. ASSUME NEW j, Fitted(j, S, Expiries), j.code = g, j.phase \in {"write"}, Start(w, j)
      PROVE  Starts(w, g)
  BY <1>2, KindsAssumption, FitsOwnTable DEF Starts, Fitted, WellFormed
<1>3. Found(g) => rows[g].status \in S /\ rows[g].data \in Expiries
  BY <1>1, FitsOwnTable DEF Found, Shape
<1>4. ASSUME NEW d \in Expiries, CreateGenerator(w, g, d) PROVE Starts(w, g)
  <2>1. Fitted(CreateJob(g, GeneratorInitialStatus, d), S, Expiries)
    BY <1>1, JobsAreFitted
  <2> QED
    BY <1>2, <1>4, <2>1 DEF CreateGenerator, CreateJob
<1>5. ASSUME NEW e \in Quotable(g), NEW d \in Expiries, UpdateGenerator(w, g, d, e)
      PROVE  Starts(w, g)
  <2>1. Fitted(EditJob("update", g, e, [rows[g] EXCEPT !.data = d]), S, Expiries)
    BY <1>1, <1>3, <1>5, JobsAreFitted DEF UpdateGenerator
  <2> QED
    BY <1>2, <1>5, <2>1 DEF UpdateGenerator, EditJob
<1>6. ASSUME NEW e \in Quotable(g), NEW s \in S, TransitionGenerator(w, g, s, e)
      PROVE  Starts(w, g)
  <2>1. Fitted(EditJob("transition", g, e, [rows[g] EXCEPT !.status = s]), S, Expiries)
    BY <1>1, <1>3, <1>6, JobsAreFitted DEF TransitionGenerator
  <2> QED
    BY <1>2, <1>6, <2>1 DEF TransitionGenerator, EditJob
<1>7. ASSUME DeleteGenerator(w, g) PROVE Starts(w, g)
  <2>1. Fitted(DeleteJob(g), S, Expiries)
    BY <1>1, <1>3, <1>7, JobsAreFitted DEF DeleteGenerator
  <2> QED
    BY <1>2, <1>7, <2>1 DEF DeleteGenerator, DeleteJob
<1> QED
  BY <1>4, <1>5, <1>6, <1>7 DEF GeneratorRequest

LEMMA CarrierRequestStarts ==
  ASSUME Shape, NEW w \in Workers, NEW c \in Carriers, CarrierRequest(w, c)
  PROVE  Starts(w, c)
<1> DEFINE S == DOMAIN CarrierGraph
<1>1. /\ c \in Codes /\ S \in SUBSET AnyStatus
      /\ Expiries \in SUBSET AnyData /\ CarrierInitialStatus \in S
  BY KindsAssumption, Kinds
<1>2. ASSUME NEW j, Fitted(j, S, Expiries), j.code = c, j.phase \in {"write"}, Start(w, j)
      PROVE  Starts(w, c)
  BY <1>2, KindsAssumption, FitsOwnTable DEF Starts, Fitted, WellFormed
<1>3. Found(c) => rows[c].status \in S /\ rows[c].data \in Expiries
  BY <1>1, FitsOwnTable DEF Found, Shape
<1>4. ASSUME NEW d \in Expiries, CreateCarrier(w, c, d) PROVE Starts(w, c)
  <2>1. Fitted(CreateJob(c, CarrierInitialStatus, d), S, Expiries)
    BY <1>1, JobsAreFitted
  <2> QED
    BY <1>2, <1>4, <2>1 DEF CreateCarrier, CreateJob
<1>5. ASSUME NEW e \in Quotable(c), NEW d \in Expiries, UpdateCarrier(w, c, d, e)
      PROVE  Starts(w, c)
  <2>1. Fitted(EditJob("update", c, e, [rows[c] EXCEPT !.data = d]), S, Expiries)
    BY <1>1, <1>3, <1>5, JobsAreFitted DEF UpdateCarrier
  <2> QED
    BY <1>2, <1>5, <2>1 DEF UpdateCarrier, EditJob
<1>6. ASSUME NEW e \in Quotable(c), NEW s \in S, TransitionCarrier(w, c, s, e)
      PROVE  Starts(w, c)
  <2>1. Fitted(EditJob("transition", c, e, [rows[c] EXCEPT !.status = s]), S, Expiries)
    BY <1>1, <1>3, <1>6, JobsAreFitted DEF TransitionCarrier
  <2> QED
    BY <1>2, <1>6, <2>1 DEF TransitionCarrier, EditJob
<1>7. ASSUME DeleteCarrier(w, c) PROVE Starts(w, c)
  <2>1. Fitted(DeleteJob(c), S, Expiries)
    BY <1>1, <1>3, <1>7, JobsAreFitted DEF DeleteCarrier
  <2> QED
    BY <1>2, <1>7, <2>1 DEF DeleteCarrier, DeleteJob
<1> QED
  BY <1>4, <1>5, <1>6, <1>7 DEF CarrierRequest

LEMMA ManifestRequestStarts ==
  ASSUME Shape, NEW w \in Workers, NEW m \in Manifests, ManifestRequest(w, m)
  PROVE  Starts(w, m)
<1> DEFINE S == DOMAIN ManifestGraph
<1>1. /\ m \in Codes /\ S \in SUBSET AnyStatus
      /\ Parties \in SUBSET AnyData /\ ManifestInitialStatus \in S
  BY KindsAssumption, Kinds
<1>2. ASSUME NEW j, Fitted(j, S, Parties), j.code = m, j.phase \in {"write", "generator"}, Start(w, j)
      PROVE  Starts(w, m)
  BY <1>2, KindsAssumption, FitsOwnTable DEF Starts, Fitted, WellFormed
<1>3. Found(m) => rows[m].status \in S /\ rows[m].data \in Parties
  BY <1>1, FitsOwnTable DEF Found, Shape
<1>4. ASSUME NEW d \in Parties, CreateManifest(w, m, d) PROVE Starts(w, m)
  <2>1. Fitted(CreateJob(m, ManifestInitialStatus, d), S, Parties)
    BY <1>1, JobsAreFitted
  <2> QED
    BY <1>2, <1>4, <2>1, ThenIsFitted DEF CreateManifest, CreateJob
<1>5. ASSUME NEW e \in Quotable(m), NEW d \in Parties, UpdateManifest(w, m, d, e)
      PROVE  Starts(w, m)
  <2>1. Fitted(EditJob("update", m, e, [rows[m] EXCEPT !.data = d]), S, Parties)
    BY <1>1, <1>3, <1>5, JobsAreFitted DEF UpdateManifest
  <2> QED
    BY <1>2, <1>5, <2>1, ThenIsFitted DEF UpdateManifest, EditJob
<1>6. ASSUME NEW e \in Quotable(m), NEW s \in S, TransitionManifest(w, m, s, e)
      PROVE  Starts(w, m)
  <2>1. Fitted(EditJob("transition", m, e, [rows[m] EXCEPT !.status = s]), S, Parties)
    BY <1>1, <1>3, <1>6, JobsAreFitted DEF TransitionManifest
  <2> QED
    BY <1>2, <1>6, <2>1, ThenIsFitted DEF TransitionManifest, EditJob
<1>7. ASSUME DeleteManifest(w, m) PROVE Starts(w, m)
  <2>1. Fitted(DeleteJob(m), S, Parties)
    BY <1>1, <1>3, <1>7, JobsAreFitted DEF DeleteManifest
  <2> QED
    BY <1>2, <1>7, <2>1 DEF DeleteManifest, DeleteJob
<1> QED
  BY <1>4, <1>5, <1>6, <1>7 DEF ManifestRequest

LEMMA CheckRequestStarts ==
  ASSUME Shape, NEW w \in Workers, NEW k \in Checks, CheckRequest(w, k)
  PROVE  Starts(w, k)
<1> DEFINE S == DOMAIN CheckGraph
<1>1. /\ k \in Codes /\ S \in SUBSET AnyStatus
      /\ Manifests \in SUBSET AnyData /\ CheckInitialStatus \in S
  BY KindsAssumption, Kinds
<1>2. ASSUME NEW j, Fitted(j, S, Manifests), j.code = k, j.phase \in {"write", "manifest"}, Start(w, j)
      PROVE  Starts(w, k)
  BY <1>2, KindsAssumption, FitsOwnTable DEF Starts, Fitted, WellFormed
<1>3. Found(k) => rows[k].status \in S /\ rows[k].data \in Manifests
  BY <1>1, FitsOwnTable DEF Found, Shape
<1>4. ASSUME NEW d \in Manifests, CreateCheck(w, k, d) PROVE Starts(w, k)
  <2>1. Fitted(CreateJob(k, CheckInitialStatus, d), S, Manifests)
    BY <1>1, JobsAreFitted
  <2> QED
    BY <1>2, <1>4, <2>1, ThenIsFitted DEF CreateCheck, CreateJob
<1>5. ASSUME NEW e \in Quotable(k), NEW d \in Manifests, UpdateCheck(w, k, d, e)
      PROVE  Starts(w, k)
  <2>1. Fitted(EditJob("update", k, e, [rows[k] EXCEPT !.data = d]), S, Manifests)
    BY <1>1, <1>3, <1>5, JobsAreFitted DEF UpdateCheck
  <2> QED
    BY <1>2, <1>5, <2>1, ThenIsFitted DEF UpdateCheck, EditJob
<1>6. ASSUME NEW e \in Quotable(k), NEW s \in S, TransitionCheck(w, k, s, e)
      PROVE  Starts(w, k)
  <2>1. Fitted(EditJob("transition", k, e, [rows[k] EXCEPT !.status = s]), S, Manifests)
    BY <1>1, <1>3, <1>6, JobsAreFitted DEF TransitionCheck
  <2> QED
    BY <1>2, <1>6, <2>1, ThenIsFitted DEF TransitionCheck, EditJob
<1>7. ASSUME DeleteCheck(w, k) PROVE Starts(w, k)
  <2>1. Fitted(DeleteJob(k), S, Manifests)
    BY <1>1, <1>3, <1>7, JobsAreFitted DEF DeleteCheck
  <2> QED
    BY <1>2, <1>7, <2>1 DEF DeleteCheck, DeleteJob
<1> QED
  BY <1>4, <1>5, <1>6, <1>7 DEF CheckRequest

LEMMA RequestStarts ==
  ASSUME Shape, NEW w \in Workers, Request(w)
  PROVE  \E c \in Codes : Starts(w, c)
BY KindsAssumption, GeneratorRequestStarts, CarrierRequestStarts, ManifestRequestStarts,
   CheckRequestStarts DEF Request

-----------------------------------------------------------------------------
(* Every step keeps the shape.                                             *)

\* A job goes on to the look-ups of its own table, or to its write or reply.
LEMMA GoToKeepsShape ==
  ASSUME Shape, NEW w \in Workers, job[w] # Idle,
         NEW p \in {"generator", "carrier", "manifest", "write", "reply"}, GoTo(w, p),
         p \in {"generator", "carrier"} => job[w].code \in Manifests,
         p = "manifest" => job[w].code \in Checks
  PROVE  /\ job' \in [Workers -> AnyJob \union {Idle}]
         /\ \A v \in Workers : job'[v] # Idle => WellFormed(job'[v])
<1>1. job' = [job EXCEPT ![w] = Then(job[w], p)]
  BY DEF GoTo, Then, Shape
<1>2. job[w] \in AnyJob /\ WellFormed(job[w])
  BY DEF Shape
<1>3. Then(job[w], p) \in AnyJob /\ WellFormed(Then(job[w], p))
  BY <1>2, ThenFields DEF WellFormed
<1> QED
  BY <1>1, <1>3 DEF Shape

\* An answer leaves its worker idle.
LEMMA AnswerKeepsShape ==
  ASSUME Shape, NEW w \in Workers, Answer(w)
  PROVE  /\ job' \in [Workers -> AnyJob \union {Idle}]
         /\ \A v \in Workers : job'[v] # Idle => WellFormed(job'[v])
BY DEF Shape, Answer

\* The audit row of a job has its type.
LEMMA EntryOfJob ==
  ASSUME NEW j, WellFormed(j)
  PROVE  AuditEntry(j) \in AnyEntry /\ j.code \in Codes
<1>1. j.code \in Codes
  BY DEF WellFormed, AnyJob
<1>2. /\ j.op \in {"create", "update", "transition", "delete"}
      /\ j.item \in AnyRow
      /\ j.op # "create" => j.read \in AnyRow
  BY DEF WellFormed, AnyJob
<1>3. j.item.status \in AnyStatus /\ (j.op # "create" => j.read.status \in AnyStatus)
  BY <1>2, RowFields
<1>4. AuditEntry(j) \in AnyEntry
  BY <1>2, <1>3 DEF AuditEntry, AnyEntry
<1> QED
  BY <1>1, <1>4

LEMMA AppendKeepsShape ==
  ASSUME Shape, NEW j, WellFormed(j), AppendAudit(j)
  PROVE  trail' \in [Codes -> Seq(AnyEntry)]
BY EntryOfJob DEF Shape, AppendAudit

\* A row that is marked as deleted.
LEMMA RemovedRow ==
  ASSUME NEW old \in AnyRow, NEW row, row = [old EXCEPT !.deleted = TRUE]
  PROVE  row \in AnyRow /\ row.status = old.status /\ row.data = old.data
<1>1. old \in [deleted: BOOLEAN, status: AnyStatus, version: Nat \ {0}, data: AnyData]
  BY RowFields
<1>2. row \in [deleted: BOOLEAN, status: AnyStatus, version: Nat \ {0}, data: AnyData]
  BY <1>1
<1> QED
  BY <1>1, <1>2, RowFields

\* A row of the right kind is stored.
LEMMA StoreKeepsShape ==
  ASSUME Shape, NEW c \in Codes, NEW row \in AnyRow, Fits(c, row),
         rows' = [rows EXCEPT ![c] = row]
  PROVE  /\ rows' \in [Codes -> AnyRow \union {Absent}]
         /\ \A d \in Codes : rows'[d] # Absent => Fits(d, rows'[d])
BY DEF Shape

\* The end of a request, one case for each outcome.
LEMMA EndKeepsShape ==
  ASSUME Shape, NEW w \in Workers, EndRequest(w) \/ Abort(w), now' = now
  PROVE  Shape'
<1> DEFINE j == job[w]
<1>1. WellFormed(j) /\ job[w] # Idle
  BY DEF Shape, EndRequest, Abort, Insert, Save, Remove, Refuse, Reply, Writing, InPhase
<1>2. j.code \in Codes /\ j.item \in AnyRow /\ Fits(j.code, j.item)
  BY <1>1 DEF WellFormed, AnyJob
<1> DEFINE RowsKept == /\ rows' \in [Codes -> AnyRow \union {Absent}]
                       /\ \A c \in Codes : rows'[c] # Absent => Fits(c, rows'[c])
           JobsKept == /\ job' \in [Workers -> AnyJob \union {Idle}]
                       /\ \A v \in Workers : job'[v] # Idle => WellFormed(job'[v])
<1> SUFFICES trail' \in [Codes -> Seq(AnyEntry)] /\ RowsKept /\ JobsKept
  BY DEF Shape
<1>3. CASE Insert(w)
  <2>1. trail' \in [Codes -> Seq(AnyEntry)]
    BY <1>1, <1>3, AppendKeepsShape DEF Insert, CreateAudited
  <2>2. RowsKept
    BY <1>2, <1>3, StoreKeepsShape DEF Insert, CreateAudited
  <2>3. JobsKept
    BY <1>3, AnswerKeepsShape DEF Insert
  <2> QED
    BY <2>1, <2>2, <2>3
<1>4. CASE Save(w)
  <2>1. trail' \in [Codes -> Seq(AnyEntry)]
    BY <1>1, <1>4, AppendKeepsShape DEF Save, UpdateAudited
  <2>2. rows[j.code] \in AnyRow
    BY <1>2, <1>4 DEF Save, UpdateAudited, VersionMatches, Found, Shape
  <2>3. PICK row : row = [j.item EXCEPT !.deleted = rows[j.code].deleted]
    OBVIOUS
  <2>4. row \in AnyRow /\ row.status = j.item.status /\ row.data = j.item.data
    BY <1>2, <2>2, <2>3, RowFields
  <2>5. RowsKept
    BY <1>2, <1>4, <2>3, <2>4, StoreKeepsShape DEF Save, UpdateAudited, Fits
  <2>6. JobsKept
    BY <1>1, <1>4, GoToKeepsShape DEF Save
  <2> QED
    BY <2>1, <2>5, <2>6
<1>5. CASE Remove(w)
  <2>1. trail' \in [Codes -> Seq(AnyEntry)]
    BY <1>1, <1>5, AppendKeepsShape DEF Remove, DeleteAudited
  <2>2. rows[j.code] \in AnyRow /\ Fits(j.code, rows[j.code])
    BY <1>2, <1>5 DEF Remove, DeleteAudited, Found, Shape
  <2>3. PICK row : row = [rows[j.code] EXCEPT !.deleted = TRUE]
    OBVIOUS
  <2>4. row \in AnyRow /\ row.status = rows[j.code].status /\ row.data = rows[j.code].data
    BY <2>2, <2>3, RemovedRow
  <2>5. rows' = [rows EXCEPT ![j.code] = row]
    BY <1>5, <2>3 DEF Remove, DeleteAudited
  <2>6. RowsKept
    BY <1>2, <2>2, <2>4, <2>5, StoreKeepsShape DEF Fits
  <2>7. JobsKept
    BY <1>5, AnswerKeepsShape DEF Remove
  <2> QED
    BY <2>1, <2>6, <2>7
<1>6. CASE Refuse(w) \/ Reply(w) \/ Abort(w)
  BY <1>6, AnswerKeepsShape DEF Refuse, Reply, Abort, storeVars, Shape
<1> QED
  BY <1>3, <1>4, <1>5, <1>6 DEF EndRequest

LEMMA LookUpKeepsShape ==
  ASSUME Shape, NEW w \in Workers,
         LookUpGenerator(w) \/ LookUpCarrier(w) \/ LookUpManifest(w), now' = now
  PROVE  Shape'
<1>1. WellFormed(job[w]) /\ job[w] # Idle
  BY DEF Shape, LookUpGenerator, LookUpCarrier, LookUpManifest, InPhase
<1>2. UNCHANGED <<rows, trail>>
  BY DEF LookUpGenerator, LookUpCarrier, LookUpManifest, storeVars
<1>3. CASE Answer(w)
  BY <1>2, <1>3, AnswerKeepsShape DEF Shape, WellFormed
<1>4. CASE GoTo(w, "carrier") /\ InPhase(w, "generator")
  BY <1>1, <1>2, <1>4, GoToKeepsShape DEF Shape, WellFormed, InPhase
<1>5. CASE GoTo(w, "write")
  BY <1>1, <1>2, <1>5, GoToKeepsShape DEF Shape, WellFormed
<1> QED
  BY <1>3, <1>4, <1>5 DEF LookUpGenerator, LookUpCarrier, LookUpManifest

LEMMA NextKeepsShape == Shape /\ [Next]_allVars => Shape'
<1> SUFFICES ASSUME Shape, [Next]_allVars PROVE Shape'
  OBVIOUS
<1>1. ASSUME NEW w \in Workers, Request(w), now' = now PROVE Shape'
  <2>1. PICK c \in Codes : Starts(w, c)
    BY <1>1, RequestStarts
  <2>2. PICK j : Start(w, j) /\ WellFormed(j)
    BY <2>1 DEF Starts
  <2> QED
    BY <1>1, <2>2 DEF Start, storeVars, Shape, WellFormed
<1>2. ASSUME NEW w \in Workers, Continue(w) \/ Abort(w), now' = now PROVE Shape'
  BY <1>2, EndKeepsShape, LookUpKeepsShape DEF Continue
<1>3. CASE Tick
  BY <1>3, TimeAssumption DEF Tick, vars, Shape, WellFormed
<1>4. CASE UNCHANGED allVars
  BY <1>4 DEF allVars, vars, Shape, WellFormed
<1> QED
  BY <1>1, <1>2, <1>3, <1>4 DEF Next

\* A seeded row is a row.
LEMMA SeededRows ==
  ASSUME NEW S \in SUBSET AnyStatus, NEW D \in SUBSET AnyData,
         NEW row \in [deleted: {FALSE}, status: S, version: {1}, data: D]
  PROVE  row \in AnyRow /\ row.status \in S /\ row.data \in D
<1>1. {FALSE} \subseteq BOOLEAN /\ {1} \subseteq Nat \ {0}
  OBVIOUS
<1>2. row \in [deleted: BOOLEAN, status: AnyStatus, version: Nat \ {0}, data: AnyData]
  BY <1>1, Zenon
<1>3. row.status \in S /\ row.data \in D
  OBVIOUS
<1> QED
  BY <1>2, <1>3, RowFields

LEMMA SeedFits ==
  ASSUME NEW c \in Codes, Seed[c] # Absent
  PROVE  Seed[c] \in AnyRow /\ Fits(c, Seed[c])
<1>1. ASSUME c \in Generators PROVE Seed[c] \in AnyRow /\ Fits(c, Seed[c])
  <2>1. Seed[c]
          \in [deleted: {FALSE}, status: DOMAIN GeneratorGraph, version: {1}, data: Expiries]
    BY <1>1, SeedAssumption DEF Seedable
  <2>2. Seed[c]
          \in AnyRow /\ Seed[c].status \in DOMAIN GeneratorGraph /\ Seed[c].data \in Expiries
    BY <2>1, Kinds, SeededRows
  <2> QED
    BY <1>1, <2>2, FitsOwnTable
<1>2. ASSUME c \in Carriers PROVE Seed[c] \in AnyRow /\ Fits(c, Seed[c])
  <2>1. Seed[c]
          \in [deleted: {FALSE}, status: DOMAIN CarrierGraph, version: {1}, data: Expiries]
    BY <1>2, SeedAssumption DEF Seedable
  <2>2. Seed[c]
          \in AnyRow /\ Seed[c].status \in DOMAIN CarrierGraph /\ Seed[c].data \in Expiries
    BY <2>1, Kinds, SeededRows
  <2> QED
    BY <1>2, <2>2, FitsOwnTable
<1>3. ASSUME c \in Manifests PROVE Seed[c] \in AnyRow /\ Fits(c, Seed[c])
  <2>1. Seed[c]
          \in [deleted: {FALSE}, status: DOMAIN ManifestGraph, version: {1}, data: Parties]
    BY <1>3, SeedAssumption DEF Seedable
  <2>2. Seed[c]
          \in AnyRow /\ Seed[c].status \in DOMAIN ManifestGraph /\ Seed[c].data \in Parties
    BY <2>1, Kinds, SeededRows
  <2> QED
    BY <1>3, <2>2, FitsOwnTable
<1>4. ASSUME c \in Checks PROVE Seed[c] \in AnyRow /\ Fits(c, Seed[c])
  <2>1. Seed[c]
          \in [deleted: {FALSE}, status: DOMAIN CheckGraph, version: {1}, data: Manifests]
    BY <1>4, SeedAssumption DEF Seedable
  <2>2. Seed[c]
          \in AnyRow /\ Seed[c].status \in DOMAIN CheckGraph /\ Seed[c].data \in Manifests
    BY <2>1, Kinds, SeededRows
  <2> QED
    BY <1>4, <2>2, FitsOwnTable
<1> QED
  BY <1>1, <1>2, <1>3, <1>4, KindsAssumption

LEMMA InitHasShape == Init => Shape
<1> SUFFICES ASSUME Init PROVE Shape
  OBVIOUS
<1>1. rows \in [Codes -> AnyRow \union {Absent}]
  <2>1. Seed = [c \in Codes |-> Seed[c]]
    BY SeedAssumption
  <2>2. \A c \in Codes : Seed[c] \in AnyRow \union {Absent}
    BY SeedFits
  <2> QED
    BY <2>1, <2>2 DEF Init
<1>2. \A c \in Codes : rows[c] # Absent => Fits(c, rows[c])
  BY SeedFits DEF Init
<1> QED
  BY <1>1, <1>2, TimeAssumption DEF Init, Shape

\* Every reachable state has the shape.
LEMMA AlwaysShaped == Spec => []Shape
BY InitHasShape, NextKeepsShape, PTL DEF Spec

-----------------------------------------------------------------------------
(* What a record has been, it has been for ever.                           *)

\* A step that changes a table is the commit of one request.
LEMMA OneHistoryGrows ==
  ASSUME Shape, [Next]_allVars
  PROVE  \/ UNCHANGED <<rows, trail>>
         \/ \E w \in Workers : job[w] # Idle /\ (Insert(w) \/ Save(w) \/ Remove(w))
<1>1. ASSUME NEW w \in Workers, Request(w) PROVE UNCHANGED <<rows, trail>>
  <2>1. PICK c \in Codes : Starts(w, c)
    BY <1>1, RequestStarts
  <2> QED
    BY <2>1 DEF Starts, Start, storeVars
<1>2. ASSUME NEW w \in Workers, Continue(w) \/ Abort(w)
      PROVE  UNCHANGED <<rows, trail>> \/ (job[w] # Idle /\ (Insert(w) \/ Save(w) \/ Remove(w)))
  BY <1>2
  DEF Continue, EndRequest, Insert, Save, Remove, Refuse, Reply, Abort, Writing, InPhase,
     LookUpGenerator, LookUpCarrier, LookUpManifest, storeVars
<1>3. CASE Tick \/ UNCHANGED allVars
  BY <1>3 DEF Tick, allVars, vars
<1> QED
  BY <1>1, <1>2, <1>3 DEF Next

\* An audit row that is appended leaves the earlier ones where they were.
LEMMA AppendGrows ==
  ASSUME Shape, NEW j, WellFormed(j), AppendAudit(j)
  PROVE  /\ \A c \in Codes : \A status : HasBeen(c, status) => HasBeen(c, status)'
         /\ \A status : status = AuditEntry(j).after => HasBeen(j.code, status)'
<1>1. j.code \in Codes /\ trail[j.code] \in Seq(AnyEntry)
  BY DEF WellFormed, AnyJob, Shape
<1>2. PICK e : e = AuditEntry(j)
  OBVIOUS
<1>3. trail' = [trail EXCEPT ![j.code] = Append(trail[j.code], e)]
  BY <1>2 DEF AppendAudit
<1>4. e \in AnyEntry
  BY <1>2, EntryOfJob
<1>5. /\ Len(Append(trail[j.code], e)) = Len(trail[j.code]) + 1
      /\ Append(trail[j.code], e)[Len(trail[j.code]) + 1] = e
      /\ \A i \in 1 .. Len(trail[j.code]) : Append(trail[j.code], e)[i] = trail[j.code][i]
      /\ Len(trail[j.code]) \in Nat
  BY <1>1, <1>4
<1>6. trail'[j.code] = Append(trail[j.code], e)
  BY <1>1, <1>3 DEF Shape
<1>7. ASSUME NEW c \in Codes, NEW status, HasBeen(c, status) PROVE HasBeen(c, status)'
  <2>1. CASE c = j.code
    BY <1>5, <1>6, <1>7, <2>1 DEF HasBeen, SeededAs
  <2>2. CASE c # j.code
    <3>1. trail'[c] = trail[c]
      BY <1>3, <2>2 DEF Shape
    <3> QED
      BY <1>7, <3>1 DEF HasBeen, SeededAs
  <2> QED
    BY <2>1, <2>2
<1>8. ASSUME NEW status, status = e.after PROVE HasBeen(j.code, status)'
  BY <1>5, <1>6, <1>8 DEF HasBeen
<1> QED
  BY <1>2, <1>7, <1>8

LEMMA CommitGrows ==
  ASSUME Shape, NEW w \in Workers, Insert(w) \/ Save(w) \/ Remove(w)
  PROVE  /\ \A c \in Codes : \A status : HasBeen(c, status) => HasBeen(c, status)'
         /\ \A c, status :
              c = job[w].code /\ status = AuditEntry(job[w]).after => HasBeen(c, status)'
<1>1. PICK j : j = job[w]
  OBVIOUS
<1>2. WellFormed(j) /\ AppendAudit(j)
  BY <1>1
  DEF Shape, Insert, CreateAudited, Save, UpdateAudited, Remove, DeleteAudited, Writing, InPhase
<1> QED
  BY <1>1, <1>2, AppendGrows

LEMMA HistoriesOnlyGrow ==
  ASSUME Shape, [Next]_allVars, NEW c \in Codes, NEW status, HasBeen(c, status)
  PROVE  HasBeen(c, status)'
<1>1. CASE UNCHANGED <<rows, trail>>
  BY <1>1 DEF HasBeen, SeededAs
<1> QED
  BY <1>1, OneHistoryGrows, CommitGrows

\* The status of a record is one that it has been in.
StatusesAreRecorded ==
  \A c \in Codes : rows[c] # Absent => HasBeen(c, rows[c].status)

\* What a commit stores: its item, or the row that was there.
LEMMA CommitStores ==
  ASSUME Shape, NEW w \in Workers, Insert(w) \/ Save(w) \/ Remove(w)
  PROVE  LET c == job[w].code IN
         /\ c \in Codes /\ rows'[c] # Absent
         /\ \A d \in Codes : d # c => rows'[d] = rows[d]
         /\ IF Remove(w)
            THEN /\ rows[c] # Absent
                 /\ rows'[c].status = rows[c].status /\ rows'[c].data = rows[c].data
            ELSE /\ job[w].phase = "write" /\ job[w].op # "delete"
                 /\ AuditEntry(job[w]).after = job[w].item.status
                 /\ rows'[c].status = job[w].item.status /\ rows'[c].data = job[w].item.data
<1> DEFINE j == job[w]
           c == j.code
<1>1. j # Idle /\ WellFormed(j) /\ c \in Codes /\ j.item \in AnyRow
  BY DEF Shape, Insert, Save, Remove, Writing, InPhase, WellFormed, AnyJob
<1>2. CASE Insert(w)
  <2>1. rows' = [rows EXCEPT ![c] = j.item] /\ j.op = "create" /\ j.phase = "write"
    BY <1>2 DEF Insert, CreateAudited, Writing, InPhase
  <2>2. rows'[c] = j.item /\ \A d \in Codes : d # c => rows'[d] = rows[d]
    BY <1>1, <2>1 DEF Shape
  <2> QED
    BY <1>1, <1>2, <2>1, <2>2, SentinelAssumption DEF Remove, Writing, AuditEntry
<1>3. CASE Save(w)
  <2>1. /\ rows' = [rows EXCEPT ![c] = [j.item EXCEPT !.deleted = rows[c].deleted]]
        /\ j.op \in {"update", "transition"} /\ j.phase = "write"
        /\ rows[c] # Absent
    BY <1>3 DEF Save, UpdateAudited, VersionMatches, Found, Writing, InPhase
  <2>2. rows[c] \in AnyRow
    BY <1>1, <2>1 DEF Shape
  <2>3. PICK row : row = [j.item EXCEPT !.deleted = rows[c].deleted]
    OBVIOUS
  <2>4. row \in AnyRow /\ row.status = j.item.status /\ row.data = j.item.data
    BY <1>1, <2>2, <2>3, RowFields
  <2>5. rows'[c] = row /\ \A d \in Codes : d # c => rows'[d] = rows[d]
    BY <1>1, <2>1, <2>3 DEF Shape
  <2> QED
    BY <1>1, <2>1, <2>4, <2>5, SentinelAssumption DEF Remove, Writing, AuditEntry
<1>4. CASE Remove(w)
  <2>1. rows' = [rows EXCEPT ![c] = [rows[c] EXCEPT !.deleted = TRUE]] /\ rows[c] # Absent
    BY <1>4 DEF Remove, DeleteAudited, Found
  <2>2. rows[c] \in AnyRow
    BY <1>1, <2>1 DEF Shape
  <2>3. PICK row : row = [rows[c] EXCEPT !.deleted = TRUE]
    OBVIOUS
  <2>4. row \in AnyRow /\ row.status = rows[c].status /\ row.data = rows[c].data
    BY <2>2, <2>3, RemovedRow
  <2>5. rows'[c] = row /\ \A d \in Codes : d # c => rows'[d] = rows[d]
    BY <1>1, <2>1, <2>3 DEF Shape
  <2> QED
    BY <1>1, <1>4, <2>1, <2>4, <2>5, SentinelAssumption
<1> QED
  BY <1>2, <1>3, <1>4

\* A commit records the status it stores.
LEMMA NextKeepsStatusesRecorded ==
  ASSUME Shape, StatusesAreRecorded, [Next]_allVars
  PROVE  StatusesAreRecorded'
<1> SUFFICES ASSUME NEW c \in Codes, rows'[c] # Absent, NEW status, status = rows'[c].status
             PROVE  HasBeen(c, status)'
  BY DEF StatusesAreRecorded
<1>1. CASE rows[c] # Absent /\ rows[c].status = status
  BY <1>1, HistoriesOnlyGrow DEF StatusesAreRecorded
<1>2. CASE UNCHANGED <<rows, trail>>
  BY <1>1, <1>2
<1>3. ASSUME NEW w \in Workers, Insert(w) \/ Save(w) \/ Remove(w)
      PROVE  HasBeen(c, status)'
  <2>1. CASE c # job[w].code \/ Remove(w)
    BY <1>1, <1>3, <2>1, CommitStores
  <2>2. CASE c = job[w].code /\ ~Remove(w)
    <3>1. status = AuditEntry(job[w]).after
      BY <1>3, <2>2, CommitStores
    <3> QED
      BY <1>3, <2>2, <3>1, CommitGrows
  <2> QED
    BY <2>1, <2>2
<1> QED
  BY <1>2, <1>3, OneHistoryGrows

LEMMA AlwaysRecorded == Spec => []StatusesAreRecorded
<1>1. Init => StatusesAreRecorded
  BY DEF Init, StatusesAreRecorded, HasBeen, SeededAs
<1>2. Shape /\ StatusesAreRecorded /\ [Next]_allVars => StatusesAreRecorded'
  BY NextKeepsStatusesRecorded
<1> QED
  BY <1>1, <1>2, AlwaysShaped, PTL DEF Spec

-----------------------------------------------------------------------------
(* What a request that is under way has established about linked records.  *)

Vetted(parties) == HasBeen(parties.generator, "active") /\ HasBeen(parties.carrier, "verified")

\* A job that takes a manifest out of the draft, or further, is a transition
\* that has vetted the parties it is about to save, as far as it has come.
VetsParties(j) ==
  j.code \in Manifests /\ j.op # "delete" /\ j.item.status # "draft" =>
    /\ j.op = "transition"
    /\ \/ j.phase = "generator"
       \/ j.phase = "carrier" /\ HasBeen(j.item.data.generator, "active")
       \/ Vetted(j.item.data)

PassedOn(m) == \E status \in {"submitted", "in_transit", "received"} : HasBeen(m, status)

\* A job that decides a check is a transition; if it passes the check, it has
\* yet to look the manifest up, or has found it submitted.
VetsManifest(j) ==
  j.code \in Checks /\ j.op # "delete" =>
    /\ j.item.status # "pending" => j.op = "transition"
    /\ j.item.status = "pass" => j.phase = "manifest" \/ PassedOn(j.item.data)

\* Every request under way.
LookUpsAreKept ==
  \A w \in Workers : job[w] # Idle => VetsParties(job[w]) /\ VetsManifest(job[w])

\* The inductive invariant, on top of Shape.
LinksAreVetted == StatusesAreRecorded /\ SubmittedPartiesWereVetted /\ LookUpsAreKept

\* Where the job of a request comes from.
LEMMA NextJob ==
  ASSUME Shape, [Next]_allVars, NEW v \in Workers, NEW j, j = job'[v], j # Idle
  PROVE  \/ j = job[v]
         \/ Request(v) /\ Start(v, j)
         \/ LookUpGenerator(v) /\ GeneratorAccepted(job[v]) /\ j = Then(job[v], "carrier")
         \/ LookUpCarrier(v) /\ CarrierAccepted(job[v]) /\ j = Then(job[v], "write")
         \/ LookUpManifest(v) /\ ManifestAccepted(job[v]) /\ j = Then(job[v], "write")
         \/ Save(v) /\ j = Then(job[v], "reply")
<1>1. ASSUME NEW w \in Workers, NEW next, job' = [job EXCEPT ![w] = next]
      PROVE  job'[w] = next /\ (w # v => job'[v] = job[v])
  BY <1>1 DEF Shape
<1>2. ASSUME NEW w \in Workers, Answer(w) PROVE j = job[v]
  BY <1>1, <1>2 DEF Answer
<1>3. ASSUME NEW w \in Workers, NEW p, GoTo(w, p)
      PROVE  IF w = v THEN j = Then(job[v], p) ELSE j = job[v]
  BY <1>1, <1>3 DEF GoTo, Then
<1>4. ASSUME NEW w \in Workers, Request(w) PROVE j = job[v] \/ (Request(v) /\ Start(v, j))
  <2>1. PICK c \in Codes : Starts(w, c)
    BY <1>4, RequestStarts
  <2>2. PICK next : Start(w, next)
    BY <2>1 DEF Starts
  <2> QED
    BY <1>1, <1>4, <2>2 DEF Start
<1>5. ASSUME NEW w \in Workers, EndRequest(w) \/ Abort(w)
      PROVE  j = job[v] \/ (Save(v) /\ j = Then(job[v], "reply"))
  BY <1>2, <1>3, <1>5 DEF EndRequest, Insert, Save, Remove, Refuse, Reply, Abort
<1>6. ASSUME NEW w \in Workers, LookUpGenerator(w)
      PROVE  \/ j = job[v]
             \/ LookUpGenerator(v) /\ GeneratorAccepted(job[v]) /\ j = Then(job[v], "carrier")
  BY <1>2, <1>3, <1>6 DEF LookUpGenerator
<1>7. ASSUME NEW w \in Workers, LookUpCarrier(w)
      PROVE  \/ j = job[v]
             \/ LookUpCarrier(v) /\ CarrierAccepted(job[v]) /\ j = Then(job[v], "write")
  BY <1>2, <1>3, <1>7 DEF LookUpCarrier
<1>8. ASSUME NEW w \in Workers, LookUpManifest(w)
      PROVE  \/ j = job[v]
             \/ LookUpManifest(v) /\ ManifestAccepted(job[v]) /\ j = Then(job[v], "write")
  BY <1>2, <1>3, <1>8 DEF LookUpManifest
<1>9. CASE Tick \/ UNCHANGED allVars
  BY <1>9 DEF Tick, allVars, vars
<1> QED
  BY <1>4, <1>5, <1>6, <1>7, <1>8, <1>9 DEF Next, Continue

\* The columns of an edited row.
LEMMA EditedRow ==
  ASSUME NEW row \in AnyRow, NEW x, NEW e
  PROVE  /\ [[row EXCEPT !.status = x] EXCEPT !.version = e].status = x
         /\ [[row EXCEPT !.status = x] EXCEPT !.version = e].data = row.data
         /\ [[row EXCEPT !.data = x] EXCEPT !.version = e].status = row.status
BY RowFields

\* A manifest leaves the draft by a submission, and what has left the draft
\* has been vetted.
LEMMA ManifestJobsVet ==
  ASSUME Shape, SubmittedPartiesWereVetted, NEW w \in Workers, NEW m \in Manifests,
         ManifestRequest(w, m), NEW j, Start(w, j)
  PROVE  VetsParties(j)
<1>1. m \in Codes /\ (Found(m) => rows[m] \in AnyRow)
  BY KindsAssumption, FoundRow
<1>2. ASSUME NEW k, Start(w, k) PROVE k = j
  BY <1>2 DEF Start, Shape
<1>3. ASSUME NEW p \in Parties, CreateManifest(w, m, p) PROVE VetsParties(j)
  <2>1. PICK k : k = CreateJob(m, ManifestInitialStatus, p)
    OBVIOUS
  <2>2. k.item.status = "draft" /\ j = Then(k, "generator")
    BY <1>2, <1>3, <2>1 DEF CreateManifest, CreateJob, ManifestInitialStatus
  <2>3. j.item = k.item
    BY <2>1, <2>2 DEF Then, CreateJob
  <2> QED
    BY <2>2, <2>3 DEF VetsParties
<1>4. ASSUME NEW p \in Parties, NEW e \in Quotable(m), UpdateManifest(w, m, p, e)
      PROVE  VetsParties(j)
  <2>1. PICK item : item = [[rows[m] EXCEPT !.data = p] EXCEPT !.version = e + 1]
    OBVIOUS
  <2>2. item.status = "draft"
    BY <1>1, <1>4, <2>1, EditedRow DEF UpdateManifest
  <2>3. j = Then(EditJob("update", m, e, [rows[m] EXCEPT !.data = p]), "generator")
    BY <1>2, <1>4 DEF UpdateManifest
  <2>4. j.item = item
    BY <2>1, <2>3 DEF Then, EditJob
  <2> QED
    BY <2>2, <2>4 DEF VetsParties
<1>5. ASSUME NEW s \in DOMAIN ManifestGraph, NEW e \in Quotable(m), TransitionManifest(w, m, s, e)
      PROVE  VetsParties(j)
  <2>1. PICK item : item = [[rows[m] EXCEPT !.status = s] EXCEPT !.version = e + 1]
    OBVIOUS
  <2>2. item.status = s /\ item.data = rows[m].data /\ rows[m] # Absent
    BY <1>1, <1>5, <2>1, EditedRow DEF TransitionManifest, Found
  <2>3. PICK p : /\ p = IF s \in {"submitted", "in_transit"} THEN "generator" ELSE "write"
                 /\ j = Then(EditJob("transition", m, e, [rows[m] EXCEPT !.status = s]), p)
    BY <1>2, <1>5 DEF TransitionManifest
  <2>4. j.item = item /\ j.op = "transition" /\ j.phase = p
    BY <2>1, <2>3 DEF Then, EditJob
  <2>5. CASE s \in {"submitted", "in_transit"}
    BY <2>3, <2>4, <2>5 DEF VetsParties
  <2>6. CASE s \notin {"submitted", "in_transit"}
    <3>1. rows[m].status # "draft"
      BY <1>5, <2>6 DEF TransitionManifest, CanTransition, ManifestGraph
    <3> QED
      BY <2>2, <2>4, <3>1 DEF SubmittedPartiesWereVetted, Vetted, VetsParties
  <2> QED
    BY <2>5, <2>6
<1>6. ASSUME DeleteManifest(w, m) PROVE VetsParties(j)
  BY <1>2, <1>6 DEF DeleteManifest, DeleteJob, VetsParties
<1> QED
  BY <1>3, <1>4, <1>5, <1>6 DEF ManifestRequest

\* A check passes by a transition, which looks its manifest up.
LEMMA CheckJobsVet ==
  ASSUME Shape, NEW w \in Workers, NEW k \in Checks, CheckRequest(w, k), NEW j, Start(w, j)
  PROVE  VetsManifest(j)
<1>1. k \in Codes /\ (Found(k) => rows[k] \in AnyRow)
  BY KindsAssumption, FoundRow
<1>2. ASSUME NEW i, Start(w, i) PROVE i = j
  BY <1>2 DEF Start, Shape
<1>3. ASSUME NEW m \in Manifests, CreateCheck(w, k, m) PROVE VetsManifest(j)
  <2>1. PICK i : i = CreateJob(k, CheckInitialStatus, m)
    OBVIOUS
  <2>2. i.item.status = "pending" /\ j = Then(i, "manifest")
    BY <1>2, <1>3, <2>1 DEF CreateCheck, CreateJob, CheckInitialStatus
  <2>3. j.item = i.item
    BY <2>1, <2>2 DEF Then, CreateJob
  <2> QED
    BY <2>2, <2>3 DEF VetsManifest
<1>4. ASSUME NEW m \in Manifests, NEW e \in Quotable(k), UpdateCheck(w, k, m, e)
      PROVE  VetsManifest(j)
  <2>1. PICK item : item = [[rows[k] EXCEPT !.data = m] EXCEPT !.version = e + 1]
    OBVIOUS
  <2>2. item.status = "pending"
    BY <1>1, <1>4, <2>1, EditedRow DEF UpdateCheck
  <2>3. j = Then(EditJob("update", k, e, [rows[k] EXCEPT !.data = m]), "manifest")
    BY <1>2, <1>4 DEF UpdateCheck
  <2>4. j.item = item
    BY <2>1, <2>3 DEF Then, EditJob
  <2> QED
    BY <2>2, <2>4 DEF VetsManifest
<1>5. ASSUME NEW s \in DOMAIN CheckGraph, NEW e \in Quotable(k), TransitionCheck(w, k, s, e)
      PROVE  VetsManifest(j)
  <2>1. j = Then(EditJob("transition", k, e, [rows[k] EXCEPT !.status = s]), "manifest")
    BY <1>2, <1>5 DEF TransitionCheck
  <2> QED
    BY <2>1 DEF Then, EditJob, VetsManifest
<1>6. ASSUME DeleteCheck(w, k) PROVE VetsManifest(j)
  BY <1>2, <1>6 DEF DeleteCheck, DeleteJob, VetsManifest
<1> QED
  BY <1>3, <1>4, <1>5, <1>6 DEF CheckRequest

LEMMA StartedJobsVet ==
  ASSUME Shape, SubmittedPartiesWereVetted, NEW w \in Workers, Request(w), NEW j, Start(w, j)
  PROVE  VetsParties(j) /\ VetsManifest(j)
<1>1. ASSUME NEW c \in Codes, Starts(w, c) PROVE j.code = c
  BY <1>1 DEF Starts, Start, Shape
<1>2. ASSUME NEW g \in Generators, GeneratorRequest(w, g)
      PROVE  VetsParties(j) /\ VetsManifest(j)
  BY <1>1, <1>2, GeneratorRequestStarts, KindsAssumption DEF VetsParties, VetsManifest
<1>3. ASSUME NEW c \in Carriers, CarrierRequest(w, c)
      PROVE  VetsParties(j) /\ VetsManifest(j)
  BY <1>1, <1>3, CarrierRequestStarts, KindsAssumption DEF VetsParties, VetsManifest
<1>4. ASSUME NEW m \in Manifests, ManifestRequest(w, m)
      PROVE  VetsParties(j) /\ VetsManifest(j)
  <2>1. j.code = m
    BY <1>1, <1>4, ManifestRequestStarts, KindsAssumption
  <2>2. VetsManifest(j)
    BY <2>1, KindsAssumption DEF VetsManifest
  <2> QED
    BY <1>4, <2>2, ManifestJobsVet
<1>5. ASSUME NEW k \in Checks, CheckRequest(w, k) PROVE VetsParties(j) /\ VetsManifest(j)
  <2>1. j.code = k
    BY <1>1, <1>5, CheckRequestStarts, KindsAssumption
  <2>2. VetsParties(j)
    BY <2>1, KindsAssumption DEF VetsParties
  <2> QED
    BY <1>5, <2>2, CheckJobsVet
<1> QED
  BY <1>2, <1>3, <1>4, <1>5 DEF Request

\* A look-up that accepts has found the status it asks for, which is then on
\* record.
LEMMA LookUpsVet ==
  ASSUME Shape, LinksAreVetted, NEW w \in Workers, NEW i, i = job[w], NEW j,
         \/ LookUpGenerator(w) /\ GeneratorAccepted(i) /\ j = Then(i, "carrier")
         \/ LookUpCarrier(w) /\ CarrierAccepted(i) /\ j = Then(i, "write")
         \/ LookUpManifest(w) /\ ManifestAccepted(i) /\ j = Then(i, "write")
         \/ Save(w) /\ j = Then(i, "reply")
  PROVE  VetsParties(j) /\ VetsManifest(j)
<1>1. i # Idle
  BY DEF LookUpGenerator, LookUpCarrier, LookUpManifest, Save, Writing, InPhase
<1>2. WellFormed(i) /\ VetsParties(i) /\ VetsManifest(i)
  BY <1>1 DEF Shape, LinksAreVetted, LookUpsAreKept
<1>3. ASSUME NEW p \in {"carrier", "write", "reply"}, j = Then(i, p)
      PROVE  j.phase = p /\ j.code = i.code /\ j.op = i.op /\ j.item = i.item
  BY <1>2, <1>3, ThenFields DEF WellFormed
<1>4. ASSUME i.code \in Manifests PROVE i.item.data \in Parties
  BY <1>2, <1>4 DEF WellFormed, Fits
<1>5. ASSUME i.code \in Checks PROVE i.item.data \in Manifests
  BY <1>2, <1>5 DEF WellFormed, Fits
<1>6. ASSUME NEW c \in Codes, Found(c) PROVE HasBeen(c, rows[c].status)
  BY <1>6 DEF LinksAreVetted, StatusesAreRecorded, Found
<1>7. CASE LookUpGenerator(w) /\ GeneratorAccepted(i) /\ j = Then(i, "carrier")
  <2>1. i.code \in Manifests /\ i.item.data.generator \in Codes /\ j.phase = "carrier"
    BY <1>2, <1>3, <1>4, <1>7, KindsAssumption
    DEF LookUpGenerator, InPhase, WellFormed, Parties
  <2>2. i.op = "transition" => HasBeen(i.item.data.generator, "active")
    BY <1>6, <1>7, <2>1 DEF GeneratorAccepted, Acceptable
  <2>3. VetsParties(j)
    BY <1>2, <1>3, <1>7, <2>1, <2>2 DEF VetsParties
  <2> QED
    BY <1>3, <1>7, <2>1, <2>3, KindsAssumption DEF VetsManifest
<1>8. CASE LookUpCarrier(w) /\ CarrierAccepted(i) /\ j = Then(i, "write")
  <2>1. /\ i.code \in Manifests /\ i.item.data.carrier \in Codes
        /\ i.phase = "carrier" /\ j.phase = "write"
    BY <1>2, <1>3, <1>4, <1>8, KindsAssumption
    DEF LookUpCarrier, InPhase, WellFormed, Parties
  <2>2. i.op = "transition" => HasBeen(i.item.data.carrier, "verified")
    BY <1>6, <1>8, <2>1 DEF CarrierAccepted, Acceptable
  <2>3. VetsParties(j)
    BY <1>2, <1>3, <1>8, <2>1, <2>2 DEF VetsParties, Vetted
  <2> QED
    BY <1>3, <1>8, <2>1, <2>3, KindsAssumption DEF VetsManifest
<1>9. CASE LookUpManifest(w) /\ ManifestAccepted(i) /\ j = Then(i, "write")
  <2>1. i.code \in Checks /\ i.item.data \in Codes /\ j.phase = "write"
    BY <1>2, <1>3, <1>5, <1>9, KindsAssumption DEF LookUpManifest, InPhase, WellFormed
  <2>2. i.op = "transition" /\ i.item.status = "pass" => PassedOn(i.item.data)
    BY <1>6, <1>9, <2>1 DEF ManifestAccepted, PassedOn
  <2>3. VetsManifest(j)
    BY <1>2, <1>3, <1>9, <2>1, <2>2 DEF VetsManifest
  <2> QED
    BY <1>3, <1>9, <2>1, <2>3, KindsAssumption DEF VetsParties
<1>10. CASE Save(w) /\ j = Then(i, "reply")
  <2>1. i.phase = "write" /\ j.phase = "reply"
    BY <1>3, <1>10 DEF Save, Writing, InPhase
  <2> QED
    BY <1>2, <1>3, <1>10, <2>1 DEF VetsParties, VetsManifest
<1> QED
  BY <1>7, <1>8, <1>9, <1>10

\* What a request has established stays established.
LEMMA VettedForGood ==
  ASSUME Shape, [Next]_allVars
  PROVE  /\ \A p \in Parties : Vetted(p) => Vetted(p)'
         /\ \A m \in Manifests : PassedOn(m) => PassedOn(m)'
<1>1. ASSUME NEW p \in Parties, Vetted(p) PROVE Vetted(p)'
  <2>1. p.generator \in Codes /\ p.carrier \in Codes
    BY KindsAssumption DEF Parties
  <2> QED
    BY <1>1, <2>1, HistoriesOnlyGrow DEF Vetted
<1>2. ASSUME NEW m \in Manifests, PassedOn(m) PROVE PassedOn(m)'
  BY <1>2, HistoriesOnlyGrow, KindsAssumption DEF PassedOn
<1> QED
  BY <1>1, <1>2

LEMMA VettingIsForGood ==
  ASSUME Shape, [Next]_allVars, NEW j, WellFormed(j), VetsParties(j), VetsManifest(j)
  PROVE  VetsParties(j)' /\ VetsManifest(j)'
<1>1. ASSUME j.code \in Manifests
      PROVE  j.item.data \in Parties /\ j.item.data.generator \in Codes
  BY <1>1, KindsAssumption DEF WellFormed, Fits, Parties
<1>2. ASSUME j.code \in Checks PROVE j.item.data \in Manifests
  BY <1>2 DEF WellFormed, Fits
<1>3. VetsParties(j)'
  BY <1>1, VettedForGood, HistoriesOnlyGrow DEF VetsParties
<1>4. VetsManifest(j)'
  BY <1>2, VettedForGood DEF VetsManifest
<1> QED
  BY <1>3, <1>4

\* A request under way has established what its phase says.
LEMMA NextKeepsLookUps ==
  ASSUME Shape, LinksAreVetted, [Next]_allVars
  PROVE  LookUpsAreKept'
<1> SUFFICES ASSUME NEW w \in Workers, NEW j, j = job'[w], j # Idle
             PROVE  VetsParties(j)' /\ VetsManifest(j)'
  BY DEF LookUpsAreKept, VetsParties, VetsManifest
<1>1. Shape'
  BY NextKeepsShape
<1>2. WellFormed(j)
  BY <1>1 DEF Shape, WellFormed, Fits
<1>3. PICK i : i = job[w]
  OBVIOUS
<1>4. VetsParties(j) /\ VetsManifest(j)
  <2>1. CASE j = job[w]
    BY <2>1 DEF LinksAreVetted, LookUpsAreKept
  <2>2. CASE Request(w) /\ Start(w, j)
    BY <2>2, StartedJobsVet DEF LinksAreVetted
  <2>3. CASE \/ LookUpGenerator(w) /\ GeneratorAccepted(i) /\ j = Then(i, "carrier")
             \/ LookUpCarrier(w) /\ CarrierAccepted(i) /\ j = Then(i, "write")
             \/ LookUpManifest(w) /\ ManifestAccepted(i) /\ j = Then(i, "write")
             \/ Save(w) /\ j = Then(i, "reply")
    BY <1>3, <2>3, LookUpsVet
  <2> QED
    BY <1>3, <2>1, <2>2, <2>3, NextJob
<1> QED
  BY <1>2, <1>4, VettingIsForGood

\* What a commit does to one row: nothing that shows, or what the job of a
\* create, an update or a transition asked for.
LEMMA RowBefore ==
  ASSUME Shape, [Next]_allVars, NEW c \in Codes, NEW row, row = rows'[c], row # Absent
  PROVE  \/ rows[c] # Absent /\ row.status = rows[c].status /\ row.data = rows[c].data
         \/ \E w \in Workers :
              /\ job[w] # Idle /\ job[w].code = c
              /\ job[w].phase = "write" /\ job[w].op # "delete"
              /\ row.status = job[w].item.status /\ row.data = job[w].item.data
<1>1. CASE UNCHANGED <<rows, trail>>
  BY <1>1
<1>2. ASSUME NEW w \in Workers, job[w] # Idle, Insert(w) \/ Save(w) \/ Remove(w), c # job[w].code
      PROVE  row = rows[c]
  BY <1>2, CommitStores
<1>3. ASSUME NEW w \in Workers, job[w] # Idle, Remove(w), c = job[w].code
      PROVE  rows[c] # Absent /\ row.status = rows[c].status /\ row.data = rows[c].data
  BY <1>3, CommitStores
<1>4. ASSUME NEW w \in Workers, job[w] # Idle, Insert(w) \/ Save(w), ~Remove(w), c = job[w].code
      PROVE  /\ job[w].phase = "write" /\ job[w].op # "delete"
             /\ row.status = job[w].item.status /\ row.data = job[w].item.data
  BY <1>4, CommitStores
<1> QED
  BY <1>1, <1>2, <1>3, <1>4, OneHistoryGrows

\* A manifest out of the draft was so before, or its job has vetted it.
LEMMA NextKeepsPartiesVetted ==
  ASSUME Shape, LinksAreVetted, [Next]_allVars
  PROVE  SubmittedPartiesWereVetted'
<1> SUFFICES ASSUME NEW m \in Manifests, NEW row, row = rows'[m],
                    row # Absent, row.status # "draft", NEW p, p = row.data
             PROVE  Vetted(p)'
  BY DEF SubmittedPartiesWereVetted, Vetted
<1>1. m \in Codes
  BY KindsAssumption
<1>2. CASE rows[m] # Absent /\ row.status = rows[m].status /\ p = rows[m].data
  <2>1. Vetted(p)
    BY <1>2 DEF LinksAreVetted, SubmittedPartiesWereVetted, Vetted
  <2>2. p \in Parties
    BY <1>1, <1>2, FitsOwnTable DEF Shape
  <2> QED
    BY <2>1, <2>2, VettedForGood
<1>3. ASSUME NEW w \in Workers,
             job[w] # Idle, job[w].code = m, job[w].phase = "write", job[w].op # "delete",
             row.status = job[w].item.status, p = job[w].item.data
      PROVE  Vetted(p)'
  <2>1. Vetted(p)
    BY <1>3 DEF LinksAreVetted, LookUpsAreKept, VetsParties
  <2>2. p \in Parties
    BY <1>3 DEF Shape, WellFormed, Fits
  <2> QED
    BY <2>1, <2>2, VettedForGood
<1> QED
  BY <1>1, <1>2, <1>3, RowBefore

\* A check that passed had passed before, or its job has vetted it.
LEMMA NextKeepsManifestsSubmitted ==
  ASSUME Shape, LinksAreVetted, PassedManifestsWereSubmitted, [Next]_allVars
  PROVE  PassedManifestsWereSubmitted'
<1> SUFFICES ASSUME NEW k \in Checks, NEW row, row = rows'[k],
                    row # Absent, row.status = "pass", NEW m, m = row.data
             PROVE  PassedOn(m)'
  BY DEF PassedManifestsWereSubmitted, PassedOn
<1>1. k \in Codes
  BY KindsAssumption
<1>2. CASE rows[k] # Absent /\ row.status = rows[k].status /\ m = rows[k].data
  <2>1. PassedOn(m)
    BY <1>2 DEF PassedManifestsWereSubmitted, PassedOn
  <2>2. m \in Manifests
    BY <1>1, <1>2, FitsOwnTable DEF Shape
  <2> QED
    BY <2>1, <2>2, VettedForGood
<1>3. ASSUME NEW w \in Workers,
             job[w] # Idle, job[w].code = k, job[w].phase = "write", job[w].op # "delete",
             row.status = job[w].item.status, m = job[w].item.data
      PROVE  PassedOn(m)'
  <2>1. PassedOn(m)
    BY <1>3 DEF LinksAreVetted, LookUpsAreKept, VetsManifest
  <2>2. m \in Manifests
    BY <1>3 DEF Shape, WellFormed, Fits
  <2> QED
    BY <2>1, <2>2, VettedForGood
<1> QED
  BY <1>1, <1>2, <1>3, RowBefore

\* The seed is vetted.
LEMMA InitIsVetted == Init => LinksAreVetted /\ PassedManifestsWereSubmitted
<1> SUFFICES ASSUME Init PROVE LinksAreVetted /\ PassedManifestsWereSubmitted
  OBVIOUS
<1>1. StatusesAreRecorded
  BY DEF Init, StatusesAreRecorded, HasBeen, SeededAs
<1>2. SubmittedPartiesWereVetted
  <2> SUFFICES ASSUME NEW m \in Manifests, Seed[m] # Absent, Seed[m].status # "draft"
               PROVE  /\ SeededAs(Seed[m].data.generator, "active")
                      /\ SeededAs(Seed[m].data.carrier, "verified")
    BY DEF Init, SubmittedPartiesWereVetted, HasBeen
  <2> QED
    BY SeedAssumption
<1>3. PassedManifestsWereSubmitted
  <2> SUFFICES ASSUME NEW k \in Checks, SeededAs(k, "pass")
               PROVE  \E status \in {"submitted", "in_transit"} : SeededAs(Seed[k].data, status)
    BY DEF Init, PassedManifestsWereSubmitted, HasBeen, SeededAs
  <2> QED
    BY SeedAssumption
<1>4. LookUpsAreKept
  BY DEF Init, LookUpsAreKept
<1> QED
  BY <1>1, <1>2, <1>3, <1>4 DEF LinksAreVetted

LEMMA AlwaysVetted == Spec => [](LinksAreVetted /\ PassedManifestsWereSubmitted)
<1>1. /\ Shape /\ LinksAreVetted /\ PassedManifestsWereSubmitted /\ [Next]_allVars
      => LinksAreVetted' /\ PassedManifestsWereSubmitted'
  <2> SUFFICES ASSUME Shape, LinksAreVetted, PassedManifestsWereSubmitted, [Next]_allVars
               PROVE  LinksAreVetted' /\ PassedManifestsWereSubmitted'
    OBVIOUS
  <2>1. StatusesAreRecorded'
    BY NextKeepsStatusesRecorded DEF LinksAreVetted
  <2>2. SubmittedPartiesWereVetted'
    BY NextKeepsPartiesVetted
  <2>3. LookUpsAreKept'
    BY NextKeepsLookUps
  <2>4. PassedManifestsWereSubmitted'
    BY NextKeepsManifestsSubmitted
  <2> QED
    BY <2>1, <2>2, <2>3, <2>4 DEF LinksAreVetted
<1> QED
  BY <1>1, InitIsVetted, AlwaysShaped, PTL DEF Spec

\* Whatever edits race with a submission, the parties that were vetted are
\* the parties that were submitted (validateLinkedParties and Transition of
\* the transfer manifests).
THEOREM PartiesWereVetted == Spec => []SubmittedPartiesWereVetted
BY AlwaysVetted, PTL DEF LinksAreVetted

\* A check passes only on a manifest that its own history shows submitted, in
\* transit or received (Transition of the compliance checks).
THEOREM ManifestsWereSubmitted == Spec => []PassedManifestsWereSubmitted
BY AlwaysVetted, PTL

-----------------------------------------------------------------------------
(* What a request may do when a linked record is not fit, or is gone.      *)

\* A row that has been removed is not written again.
LEMMA RemovedForGood ==
  ASSUME Shape, [Next]_allVars, NEW c \in Codes, rows[c] # Absent, rows[c].deleted
  PROVE  rows'[c] = rows[c]
<1>1. ASSUME NEW w \in Workers, Insert(w) \/ Save(w) \/ Remove(w) PROVE rows'[c] = rows[c]
  <2>1. job[w].code # c
    BY <1>1 DEF Insert, CreateAudited, Save, UpdateAudited, VersionMatches, Remove,
       DeleteAudited, Found
  <2> QED
    BY <1>1, <2>1, CommitStores
<1> QED
  BY <1>1, OneHistoryGrows

\* The request of w may store its item in the row of c.
Edits(w, c) ==
  /\ job[w] # Idle /\ job[w].code = c
  /\ job[w].phase = "write" /\ job[w].op \in {"update", "transition"}

\* A row that a request could find is left alone, removed or edited.
LEMMA FoundRowAfter ==
  ASSUME Shape, [Next]_allVars, NEW c \in Codes, Found(c)
  PROVE  \/ rows'[c] = rows[c]
         \/ rows'[c].deleted
         \/ \E w \in Workers :
              /\ Edits(w, c) /\ Found(c)'
              /\ rows'[c].status = job[w].item.status /\ rows'[c].data = job[w].item.data
<1>1. ASSUME NEW w \in Workers, Remove(w), job[w].code = c PROVE rows'[c].deleted
  BY <1>1 DEF Remove, DeleteAudited, Shape, Found
<1>2. ASSUME NEW w \in Workers, Save(w), job[w].code = c
      PROVE  /\ Edits(w, c) /\ Found(c)'
             /\ rows'[c].status = job[w].item.status /\ rows'[c].data = job[w].item.data
  <2>1. rows'[c] = [job[w].item EXCEPT !.deleted = rows[c].deleted] /\ Edits(w, c)
    BY <1>2 DEF Save, UpdateAudited, Shape, Edits, Writing, InPhase
  <2>2. job[w].item \in AnyRow /\ rows[c] \in AnyRow
    BY <2>1 DEF Shape, WellFormed, AnyJob, Found, Edits
  <2>3. ~Remove(w)
    BY <1>2 DEF Save, Remove, Writing
  <2>4. rows'[c].deleted = rows[c].deleted
    BY <2>1, <2>2, RowFields
  <2> QED
    BY <1>2, <2>1, <2>3, <2>4, CommitStores DEF Found
<1>3. ASSUME NEW w \in Workers, Insert(w) PROVE job[w].code # c
  BY <1>3 DEF Insert, CreateAudited, Found
<1>4. ASSUME NEW w \in Workers, Insert(w) \/ Save(w) \/ Remove(w), job[w].code # c
      PROVE  rows'[c] = rows[c]
  BY <1>4, CommitStores
<1> QED
  BY <1>1, <1>2, <1>3, <1>4, OneHistoryGrows

\* A decision of a check, a submission and a dispatch start with a look-up.
LEMMA TransitionsLookUp ==
  ASSUME Shape, NEW w \in Workers, Request(w), NEW j, Start(w, j), j.op = "transition"
  PROVE  /\ j.code \in Checks => j.phase = "manifest"
         /\ j.code \in Manifests /\ j.item.status \in {"submitted", "in_transit"}
              => j.phase = "generator"
<1>1. ASSUME NEW i, Start(w, i) PROVE i = j
  BY <1>1 DEF Start, Shape
<1>2. ASSUME NEW c \in Codes, Starts(w, c) PROVE j.code = c
  BY <1>1, <1>2 DEF Starts
<1>3. ASSUME NEW g \in Generators, GeneratorRequest(w, g) PROVE j.code = g
  BY <1>2, <1>3, GeneratorRequestStarts, KindsAssumption
<1>4. ASSUME NEW c \in Carriers, CarrierRequest(w, c) PROVE j.code = c
  BY <1>2, <1>4, CarrierRequestStarts, KindsAssumption
<1>5. ASSUME NEW m \in Manifests, ManifestRequest(w, m)
      PROVE  /\ j.code = m
             /\ j.item.status \in {"submitted", "in_transit"} => j.phase = "generator"
  <2>1. j.code = m
    BY <1>2, <1>5, ManifestRequestStarts, KindsAssumption
  <2>2. ASSUME NEW p \in Parties, CreateManifest(w, m, p) PROVE FALSE
    BY <1>1, <2>2 DEF CreateManifest, Then, CreateJob
  <2>3. ASSUME NEW p \in Parties, NEW e \in Quotable(m), UpdateManifest(w, m, p, e) PROVE FALSE
    BY <1>1, <2>3 DEF UpdateManifest, Then, EditJob
  <2>4. ASSUME NEW s \in DOMAIN ManifestGraph, NEW e \in Quotable(m),
               TransitionManifest(w, m, s, e), j.item.status \in {"submitted", "in_transit"}
        PROVE  j.phase = "generator"
    <3>1. PICK item : item = [[rows[m] EXCEPT !.status = s] EXCEPT !.version = e + 1]
      OBVIOUS
    <3>2. item.status = s
      BY <2>4, <3>1, FoundRow, EditedRow, KindsAssumption DEF TransitionManifest
    <3>3. PICK p : /\ p = IF s \in {"submitted", "in_transit"} THEN "generator" ELSE "write"
                   /\ j = Then(EditJob("transition", m, e, [rows[m] EXCEPT !.status = s]), p)
      BY <1>1, <2>4 DEF TransitionManifest
    <3>4. j.item = item /\ j.phase = p
      BY <3>1, <3>3 DEF Then, EditJob
    <3> QED
      BY <2>4, <3>2, <3>3, <3>4
  <2>5. ASSUME DeleteManifest(w, m) PROVE FALSE
    BY <1>1, <2>5 DEF DeleteManifest, DeleteJob
  <2> QED
    BY <1>5, <2>1, <2>2, <2>3, <2>4, <2>5 DEF ManifestRequest
<1>6. ASSUME NEW k \in Checks, CheckRequest(w, k) PROVE j.code = k /\ j.phase = "manifest"
  <2>1. j.code = k
    BY <1>2, <1>6, CheckRequestStarts, KindsAssumption
  <2>2. ASSUME NEW m \in Manifests, CreateCheck(w, k, m) PROVE FALSE
    BY <1>1, <2>2 DEF CreateCheck, Then, CreateJob
  <2>3. ASSUME NEW m \in Manifests, NEW e \in Quotable(k), UpdateCheck(w, k, m, e) PROVE FALSE
    BY <1>1, <2>3 DEF UpdateCheck, Then, EditJob
  <2>4. ASSUME NEW s \in DOMAIN CheckGraph, NEW e \in Quotable(k), TransitionCheck(w, k, s, e)
        PROVE  j.phase = "manifest"
    BY <1>1, <2>4 DEF TransitionCheck, Then, EditJob
  <2>5. ASSUME DeleteCheck(w, k) PROVE FALSE
    BY <1>1, <2>5 DEF DeleteCheck, DeleteJob
  <2> QED
    BY <1>6, <2>1, <2>2, <2>3, <2>4, <2>5 DEF CheckRequest
<1> QED
  BY <1>3, <1>4, <1>5, <1>6, KindsAssumption DEF Request

\* The requests that still keep a check orphaned.
Undecided(k, m) ==
  \A w \in Workers :
    job[w] # Idle /\ job[w].code = k /\ job[w].op = "transition" /\ job[w].item.data = m
      => job[w].phase = "manifest"

\* A look-up does not find a manifest that was removed.
LEMMA RemovedIsNotFound ==
  ASSUME Shape, [Next]_allVars, NEW k \in Checks, NEW m \in Manifests,
         rows[m] # Absent, rows[m].deleted, Undecided(k, m)
  PROVE  Undecided(k, m)'
<1> SUFFICES ASSUME NEW v \in Workers, NEW j, j = job'[v], j # Idle,
                    j.code = k, j.op = "transition", j.item.data = m
             PROVE  j.phase = "manifest"
  BY DEF Undecided
<1>1. PICK i : i = job[v]
  OBVIOUS
<1>2. CASE j = i
  BY <1>1, <1>2 DEF Undecided
<1>3. CASE Request(v) /\ Start(v, j)
  BY <1>3, TransitionsLookUp
<1>4. ASSUME NEW p \in {"carrier", "write", "reply"}, j = Then(i, p), i # Idle
      PROVE  i.code = k /\ i.op = "transition" /\ i.item.data = m /\ i.phase = "manifest"
  <2>1. i \in AnyJob
    BY <1>1, <1>4 DEF Shape
  <2> QED
    BY <1>1, <1>4, <2>1, ThenFields DEF Undecided
<1>5. CASE LookUpGenerator(v) /\ j = Then(i, "carrier")
  BY <1>1, <1>4, <1>5 DEF LookUpGenerator, InPhase
<1>6. CASE LookUpCarrier(v) /\ j = Then(i, "write")
  BY <1>1, <1>4, <1>6 DEF LookUpCarrier, InPhase
<1>7. CASE LookUpManifest(v) /\ ManifestAccepted(i) /\ j = Then(i, "write")
  BY <1>1, <1>4, <1>7 DEF LookUpManifest, InPhase, ManifestAccepted, Found
<1>8. CASE Save(v) /\ j = Then(i, "reply")
  BY <1>1, <1>4, <1>8 DEF Save, Writing, InPhase
<1> QED
  BY <1>1, <1>2, <1>3, <1>5, <1>6, <1>7, <1>8, NextJob

LEMMA OrphanStep ==
  ASSUME Shape, LinksAreVetted, [Next]_allVars, NEW k \in Checks, Orphaned(k)
  PROVE  Orphaned(k)' \/ rows'[k].data # rows[k].data \/ rows'[k].deleted
<1> SUFFICES ASSUME rows'[k].data = rows[k].data, ~rows'[k].deleted
             PROVE  Orphaned(k)'
  OBVIOUS
<1>1. PICK m : m = rows[k].data
  OBVIOUS
<1>2. k \in Codes /\ Found(k)
  BY KindsAssumption DEF Orphaned
<1>3. m \in Manifests /\ m \in Codes
  BY <1>1, <1>2, FitsOwnTable, KindsAssumption DEF Shape, Found
<1>4. rows[m] # Absent /\ rows[m].deleted /\ Undecided(k, m)
  BY <1>1 DEF Orphaned, Undecided
<1>5. rows'[m] = rows[m] /\ Undecided(k, m)'
  BY <1>3, <1>4, RemovedForGood, RemovedIsNotFound
<1>6. Found(k)' /\ rows'[k].status = "pending"
  <2>1. CASE rows'[k] = rows[k]
    BY <1>2, <2>1 DEF Orphaned, Found
  <2>2. ASSUME NEW w \in Workers, Edits(w, k), rows'[k].status = job[w].item.status,
               rows'[k].data = job[w].item.data
        PROVE  rows'[k].status = "pending"
    <3>1. job[w].op = "update"
      BY <1>1, <1>4, <2>2 DEF Edits, Undecided
    <3> QED
      BY <2>2, <3>1 DEF Edits, LinksAreVetted, LookUpsAreKept, VetsManifest
  <2> QED
    BY <1>2, <2>1, <2>2, FoundRowAfter
<1> QED
  BY <1>1, <1>4, <1>5, <1>6 DEF Orphaned, Undecided

\* A check whose manifest was removed is not decided (Transition of the
\* compliance checks looks the manifest up whatever the decision).
THEOREM NoOrphanIsDecided == Spec => OrphansStayUndecided
<1>1. Shape /\ LinksAreVetted /\ [Next]_allVars
        => [\A k \in Checks : Orphaned(k) =>
              Orphaned(k)' \/ rows'[k].data # rows[k].data \/ rows'[k].deleted]_allVars
  BY OrphanStep
<1> QED
  BY <1>1, AlwaysShaped, AlwaysVetted, PTL DEF Spec, OrphansStayUndecided

\* A request that has found these parties of m fit, as far as its phase says.
ClearedFor(m, parties, phases) ==
  \E w \in Workers :
    /\ job[w] # Idle /\ job[w].code = m /\ job[w].op = "transition"
    /\ job[w].phase \in phases
    /\ job[w].item.data = parties
    /\ job[w].item.status \in {"submitted", "in_transit"}

\* The passing of time makes no party fit.
LEMMA StaysUnfit ==
  ASSUME Shape, [Next]_allVars, NEW c \in Generators \union Carriers, NEW status,
         ~Fit(c, status), rows'[c] = rows[c]
  PROVE  ~Fit(c, status)'
<1>1. c \in Codes
  BY KindsAssumption
<1>2. ASSUME Found(c) PROVE rows[c].data \in Nat
  BY <1>1, <1>2, FitsOwnTable, TimeAssumption DEF Shape, Found
<1>3. now \in Nat /\ (now' = now \/ now' = now + 1)
  BY TimeAssumption DEF Shape, Next, Tick, allVars
<1> QED
  BY <1>2, <1>3 DEF Fit, Found, Unexpired

\* No look-up finds a generator fit that is not.
LEMMA GeneratorStaysUncleared ==
  ASSUME Shape, [Next]_allVars, NEW m \in Manifests, NEW p \in Parties,
         ~Fit(p.generator, "active"), ~ClearedFor(m, p, {"carrier", "write"})
  PROVE  ~ClearedFor(m, p, {"carrier", "write"})'
<1> SUFFICES ASSUME NEW v \in Workers, NEW j, j = job'[v], j # Idle,
                    j.code = m, j.op = "transition", j.phase \in {"carrier", "write"},
                    j.item.data = p, j.item.status \in {"submitted", "in_transit"}
             PROVE  FALSE
  BY DEF ClearedFor
<1>1. PICK i : i = job[v]
  OBVIOUS
<1>2. ~(/\ i # Idle /\ i.code = m /\ i.op = "transition" /\ i.phase \in {"carrier", "write"}
        /\ i.item.data = p /\ i.item.status \in {"submitted", "in_transit"})
  BY <1>1 DEF ClearedFor
<1>3. ASSUME NEW q \in {"carrier", "write", "reply"}, j = Then(i, q), i # Idle
      PROVE  /\ i.code = m /\ i.op = "transition" /\ i.item = j.item /\ j.phase = q
             /\ i.phase \notin {"carrier", "write"}
  <2>1. i \in AnyJob
    BY <1>1, <1>3 DEF Shape
  <2> QED
    BY <1>2, <1>3, <2>1, ThenFields
<1>4. CASE Request(v) /\ Start(v, j)
  <2>1. j.phase = "generator"
    BY <1>4, TransitionsLookUp
  <2> QED
    BY <2>1
<1>5. CASE LookUpGenerator(v) /\ GeneratorAccepted(i) /\ j = Then(i, "carrier")
  BY <1>1, <1>3, <1>5 DEF LookUpGenerator, InPhase, GeneratorAccepted, Acceptable, Fit
<1>6. CASE LookUpCarrier(v) /\ j = Then(i, "write")
  BY <1>1, <1>3, <1>6 DEF LookUpCarrier, InPhase
<1>7. CASE LookUpManifest(v) /\ j = Then(i, "write")
  <2>1. i # Idle /\ i.phase = "manifest"
    BY <1>1, <1>7 DEF LookUpManifest, InPhase
  <2>2. i.code \in Checks
    BY <1>1, <2>1 DEF Shape, WellFormed
  <2> QED
    BY <1>3, <1>7, <2>1, <2>2, KindsAssumption
<1>8. CASE Save(v) /\ j = Then(i, "reply")
  BY <1>1, <1>3, <1>8 DEF Save, Writing, InPhase
<1> QED
  BY <1>1, <1>2, <1>4, <1>5, <1>6, <1>7, <1>8, NextJob

\* No look-up finds a carrier fit that is not.
LEMMA CarrierStaysUncleared ==
  ASSUME Shape, [Next]_allVars, NEW m \in Manifests, NEW p \in Parties,
         ~Fit(p.carrier, "verified"), ~ClearedFor(m, p, {"write"})
  PROVE  ~ClearedFor(m, p, {"write"})'
<1> SUFFICES ASSUME NEW v \in Workers, NEW j, j = job'[v], j # Idle,
                    j.code = m, j.op = "transition", j.phase = "write",
                    j.item.data = p, j.item.status \in {"submitted", "in_transit"}
             PROVE  FALSE
  BY DEF ClearedFor
<1>1. PICK i : i = job[v]
  OBVIOUS
<1>2. ~(/\ i # Idle /\ i.code = m /\ i.op = "transition" /\ i.phase = "write"
        /\ i.item.data = p /\ i.item.status \in {"submitted", "in_transit"})
  BY <1>1 DEF ClearedFor
<1>3. ASSUME NEW q \in {"carrier", "write", "reply"}, j = Then(i, q), i # Idle
      PROVE  /\ i.code = m /\ i.op = "transition" /\ i.item = j.item /\ j.phase = q
             /\ i.phase # "write"
  <2>1. i \in AnyJob
    BY <1>1, <1>3 DEF Shape
  <2> QED
    BY <1>2, <1>3, <2>1, ThenFields
<1>4. CASE Request(v) /\ Start(v, j)
  <2>1. j.phase = "generator"
    BY <1>4, TransitionsLookUp
  <2> QED
    BY <2>1
<1>5. CASE LookUpGenerator(v) /\ j = Then(i, "carrier")
  BY <1>1, <1>3, <1>5 DEF LookUpGenerator, InPhase
<1>6. CASE LookUpCarrier(v) /\ CarrierAccepted(i) /\ j = Then(i, "write")
  BY <1>1, <1>3, <1>6 DEF LookUpCarrier, InPhase, CarrierAccepted, Acceptable, Fit
<1>7. CASE LookUpManifest(v) /\ j = Then(i, "write")
  <2>1. i # Idle /\ i.phase = "manifest"
    BY <1>1, <1>7 DEF LookUpManifest, InPhase
  <2>2. i.code \in Checks
    BY <1>1, <2>1 DEF Shape, WellFormed
  <2> QED
    BY <1>3, <1>7, <2>1, <2>2, KindsAssumption
<1>8. CASE Save(v) /\ j = Then(i, "reply")
  BY <1>1, <1>3, <1>8 DEF Save, Writing, InPhase
<1> QED
  BY <1>1, <1>2, <1>4, <1>5, <1>6, <1>7, <1>8, NextJob

LEMMA HeldBackStep ==
  ASSUME Shape, LinksAreVetted, [Next]_allVars, NEW m \in Manifests, HeldBack(m)
  PROVE  \/ HeldBack(m)' /\ ~Advances(m)
         \/ rows'[m].deleted \/ rows'[m].data # rows[m].data
         \/ \E c \in {rows[m].data.generator, rows[m].data.carrier} : rows'[c] # rows[c]
<1>1. PICK p : p = rows[m].data
  OBVIOUS
<1> SUFFICES ASSUME ~rows'[m].deleted, rows'[m].data = p,
                    rows'[p.generator] = rows[p.generator], rows'[p.carrier] = rows[p.carrier]
             PROVE  HeldBack(m)' /\ ~Advances(m)
  BY <1>1
<1>2. m \in Codes /\ Found(m)
  BY KindsAssumption DEF HeldBack
<1>3. p \in Parties
  BY <1>1, <1>2, FitsOwnTable DEF Shape, Found
<1>4. p.generator \in Generators /\ p.carrier \in Carriers
  BY <1>3 DEF Parties
<1>5. \/ ~Fit(p.generator, "active") /\ ~ClearedFor(m, p, {"carrier", "write"})
      \/ ~Fit(p.carrier, "verified") /\ ~ClearedFor(m, p, {"write"})
  BY <1>1 DEF HeldBack, Cleared, ClearedFor
<1>6. ~ClearedFor(m, p, {"write"})
  BY <1>5 DEF ClearedFor
<1>7. /\ Found(m)'
      /\ rows'[m].status # rows[m].status => rows'[m].status \notin {"submitted", "in_transit"}
  <2>1. ASSUME NEW w \in Workers, Edits(w, m), rows'[m].status = job[w].item.status,
               rows'[m].data = job[w].item.data
        PROVE  rows'[m].status \notin {"submitted", "in_transit"}
    <3>1. CASE job[w].op = "update"
      BY <2>1, <3>1 DEF Edits, LinksAreVetted, LookUpsAreKept, VetsParties
    <3>2. CASE job[w].op = "transition"
      BY <1>6, <2>1, <3>2 DEF Edits, ClearedFor
    <3> QED
      BY <2>1, <3>1, <3>2 DEF Edits
  <2>2. CASE rows'[m] = rows[m]
    BY <1>2, <2>2 DEF Found
  <2> QED
    BY <1>2, <2>1, <2>2, FoundRowAfter
<1>8. \/ ~Fit(p.generator, "active")' /\ ~ClearedFor(m, p, {"carrier", "write"})'
      \/ ~Fit(p.carrier, "verified")' /\ ~ClearedFor(m, p, {"write"})'
  BY <1>3, <1>4, <1>5, StaysUnfit, GeneratorStaysUncleared, CarrierStaysUncleared
<1>9. HeldBack(m)'
  BY <1>7, <1>8 DEF HeldBack, Cleared, ClearedFor
<1> QED
  BY <1>7, <1>9 DEF Advances

\* While a party of a manifest is not fit, the manifest is not submitted and
\* not dispatched, however the requests of all four services interleave
\* (validateLinkedParties in Transition of the transfer manifests).
THEOREM UnfitPartiesHold == Spec => UnfitPartiesHoldBack
<1>1. Shape /\ LinksAreVetted /\ [Next]_allVars
        => [\A m \in Manifests : HeldBack(m) =>
              \/ HeldBack(m)' /\ ~Advances(m)
              \/ rows'[m].deleted \/ rows'[m].data # rows[m].data
              \/ \E c \in {rows[m].data.generator, rows[m].data.carrier} :
                   rows'[c] # rows[c]]_allVars
  BY HeldBackStep
<1> QED
  BY <1>1, AlwaysShaped, AlwaysVetted, PTL DEF Spec, UnfitPartiesHoldBack
=============================================================================
