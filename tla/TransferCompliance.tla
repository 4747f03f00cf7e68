------------------------- MODULE TransferCompliance -------------------------
(***************************************************************************)
(* The four services that router.New wires together, on one database:      *)
(* waste generators, carriers, the transfer manifests that name one of     *)
(* each, and the compliance checks that name a manifest.  Links are codes  *)
(* in a column, without a foreign key: a handler looks the linked record   *)
(* up after it has read its own row and before its transaction, and every  *)
(* other request may commit in between.                                    *)
(*                                                                         *)
(* data is the expiry date of a generator or a carrier, the two parties of *)
(* a manifest, and the manifest of a check.                                *)
(***************************************************************************)
EXTENDS AuditedStore, StatusGraphs

CONSTANTS
  Generators, Carriers, Manifests, Checks,  \* the codes of each table
  Expiries,     \* expiry dates that requests ask for
  Seed,         \* rows that database.Seed has stored
  Addressed,    \* bound: codes that requests create, change or delete
  MaxTime       \* bound: last instant of the clock

VARIABLE now    \* time.Now of the server

allVars == <<vars, now>>

ASSUME KindsAssumption ==
  /\ Codes = Generators \union Carriers \union Manifests \union Checks
  /\ (Generators \union Carriers) \intersect (Manifests \union Checks) = {}
  /\ Generators \intersect Carriers = {} /\ Manifests \intersect Checks = {}

ASSUME TimeAssumption == MaxTime \in Nat /\ Expiries \subseteq Nat

ASSUME BoundAssumption == Lookahead \in Nat /\ \A c \in Codes : MaxVersion[c] \in Nat

Parties == [generator: Generators, carrier: Carriers]

\* The rows of a table that database.Seed may have stored.
Seedable(graph, data) ==
  [deleted: {FALSE}, status: DOMAIN graph, version: {1}, data: data] \union {Absent}

SeededAs(c, status) == Seed[c] # Absent /\ Seed[c].status = status

\* The seeded manifests that have left the draft name an active generator and
\* a verified carrier of the seed, and a seeded check that passed names a
\* manifest that was then submitted or in transit.
ASSUME SeedAssumption ==
  /\ DOMAIN Seed = Codes /\ Seed = [c \in Codes |-> Seed[c]]
  /\ \A g \in Generators : Seed[g] \in Seedable(GeneratorGraph, Expiries)
  /\ \A c \in Carriers : Seed[c] \in Seedable(CarrierGraph, Expiries)
  /\ \A m \in Manifests : Seed[m] \in Seedable(ManifestGraph, Parties)
  /\ \A k \in Checks : Seed[k] \in Seedable(CheckGraph, Manifests)
  /\ \A m \in Manifests : Seed[m] # Absent /\ Seed[m].status # "draft" =>
       SeededAs(Seed[m].data.generator, "active") /\ SeededAs(Seed[m].data.carrier, "verified")
  /\ \A k \in Checks : SeededAs(k, "pass") =>
       \E status \in {"submitted", "in_transit"} : SeededAs(Seed[k].data, status)

\* Rows and jobs of any of the services.
AnyStatus ==
  UNION {DOMAIN GeneratorGraph, DOMAIN CarrierGraph, DOMAIN ManifestGraph, DOMAIN CheckGraph}
AnyData == Expiries \union Parties \union Manifests
AnyRow == [deleted: BOOLEAN, status: AnyStatus, version: Nat \ {0}, data: AnyData]

AnyJob ==
  [ phase: {"generator", "carrier", "manifest", "write", "reply"},
    op: {"create", "update", "transition", "delete"}, code: Codes, expected: Nat,
    read: AnyRow \union {Absent}, item: AnyRow ]

ASSUME SentinelAssumption == Absent \notin AnyRow /\ Idle \notin AnyJob

Init ==
  /\ rows = Seed
  /\ trail = [c \in Codes |-> <<>>]
  /\ job = [w \in Workers |-> Idle]
  /\ now = 0

\* expiresAt.After(time.Now())
Unexpired(expiry) == expiry > now

\* The handler goes on with a look-up before it writes.
Then(j, phase) == [j EXCEPT !.phase = phase]

-----------------------------------------------------------------------------
(* Waste generators.  Update and Delete accept every status.               *)

CreateGenerator(w, g, expiry) ==
  /\ Unexpired(expiry)
  /\ Start(w, CreateJob(g, GeneratorInitialStatus, expiry))

UpdateGenerator(w, g, expiry, e) ==
  /\ Found(g)
  /\ Unexpired(expiry)
  /\ Start(w, EditJob("update", g, e, [rows[g] EXCEPT !.data = expiry]))

\* Mutant: the graph is not consulted.
TransitionGeneratorAnywhere(w, g, s, e) ==
  /\ Found(g)
  /\ s = "active" => Unexpired(rows[g].data)
  /\ Start(w, EditJob("transition", g, e, [rows[g] EXCEPT !.status = s]))

TransitionGenerator(w, g, s, e) ==
  /\ Found(g)
  /\ CanTransition(GeneratorGraph, rows[g].status, s)
  /\ s = "active" => Unexpired(rows[g].data)
  /\ Start(w, EditJob("transition", g, e, [rows[g] EXCEPT !.status = s]))

DeleteGenerator(w, g) == Found(g) /\ Start(w, DeleteJob(g))

GeneratorRequest(w, g) ==
  \/ \E x \in Expiries : CreateGenerator(w, g, x)
  \/ Found(g) /\ \E e \in Quotable(g) :
       \/ \E x \in Expiries : UpdateGenerator(w, g, x, e)
       \/ \E s \in DOMAIN GeneratorGraph : TransitionGenerator(w, g, s, e)
  \/ DeleteGenerator(w, g)

-----------------------------------------------------------------------------
(* Carriers.  Update and Delete accept every status.                       *)

\* Mutant: the handler of the generators, copied with its initial status.
CreateCarrierActive(w, c, expiry) ==
  /\ Unexpired(expiry)
  /\ Start(w, CreateJob(c, GeneratorInitialStatus, expiry))

CreateCarrier(w, c, expiry) ==
  /\ Unexpired(expiry)
  /\ Start(w, CreateJob(c, CarrierInitialStatus, expiry))

UpdateCarrier(w, c, expiry, e) ==
  /\ Found(c)
  /\ Unexpired(expiry)
  /\ Start(w, EditJob("update", c, e, [rows[c] EXCEPT !.data = expiry]))

\* Mutant: only the status asked for is looked at, not the stored one.
TransitionCarrierAnywhere(w, c, s, e) ==
  /\ Found(c)
  /\ s = "verified" => Unexpired(rows[c].data)
  /\ Start(w, EditJob("transition", c, e, [rows[c] EXCEPT !.status = s]))

TransitionCarrier(w, c, s, e) ==
  /\ Found(c)
  /\ CanTransition(CarrierGraph, rows[c].status, s)
  /\ s = "verified" => Unexpired(rows[c].data)
  /\ Start(w, EditJob("transition", c, e, [rows[c] EXCEPT !.status = s]))

DeleteCarrier(w, c) == Found(c) /\ Start(w, DeleteJob(c))

CarrierRequest(w, c) ==
  \/ \E x \in Expiries : CreateCarrier(w, c, x)
  \/ Found(c) /\ \E e \in Quotable(c) :
       \/ \E x \in Expiries : UpdateCarrier(w, c, x, e)
       \/ \E s \in DOMAIN CarrierGraph : TransitionCarrier(w, c, s, e)
  \/ DeleteCarrier(w, c)

-----------------------------------------------------------------------------
(* Transfer manifests: draft only to edit or delete; the linked parties    *)
(* are looked up one after the other, the generator first.                 *)

CreateManifest(w, m, parties) ==
  Start(w, Then(CreateJob(m, ManifestInitialStatus, parties), "generator"))

UpdateManifest(w, m, parties, e) ==
  /\ Found(m)
  /\ rows[m].status = "draft"
  /\ Start(w, Then(EditJob("update", m, e, [rows[m] EXCEPT !.data = parties]), "generator"))

\* Only a submission or a dispatch runs validateLinkedParties.
TransitionManifest(w, m, s, e) ==
  /\ Found(m)
  /\ CanTransition(ManifestGraph, rows[m].status, s)
  /\ Start(w, Then(EditJob("transition", m, e, [rows[m] EXCEPT !.status = s]),
                   IF s \in {"submitted", "in_transit"} THEN "generator" ELSE "write"))

\* Mutant: a submitted manifest can be deleted.
DeleteManifestAnyStatus(w, m) == Found(m) /\ Start(w, DeleteJob(m))

DeleteManifest(w, m) ==
  /\ Found(m)
  /\ rows[m].status = "draft"
  /\ Start(w, DeleteJob(m))

ManifestRequest(w, m) ==
  \/ \E p \in Parties : CreateManifest(w, m, p)
  \/ Found(m) /\ \E e \in Quotable(m) :
       \/ \E p \in Parties : UpdateManifest(w, m, p, e)
       \/ \E s \in DOMAIN ManifestGraph : TransitionManifest(w, m, s, e)
  \/ DeleteManifest(w, m)

\* A linked party that a look-up accepts: it exists and, for a submission or
\* a dispatch, it has the required status and an unexpired date.
Acceptable(j, code, status) ==
  /\ Found(code)
  /\ j.op = "transition" => rows[code].status = status /\ Unexpired(rows[code].data)

\* Mutant: the permit's date is not compared with the clock.
GeneratorActive(j) ==
  LET g == j.item.data.generator IN Found(g) /\ (j.op = "transition" => rows[g].status = "active")

GeneratorAccepted(j) == Acceptable(j, j.item.data.generator, "active")

\* Mutant: the carrier only has to exist.
CarrierExists(j) == Found(j.item.data.carrier)

CarrierAccepted(j) == Acceptable(j, j.item.data.carrier, "verified")

LookUpGenerator(w) ==
  /\ InPhase(w, "generator")
  /\ IF GeneratorAccepted(job[w]) THEN GoTo(w, "carrier") ELSE Answer(w)
  /\ UNCHANGED storeVars

LookUpCarrier(w) ==
  /\ InPhase(w, "carrier")
  /\ IF CarrierAccepted(job[w]) THEN GoTo(w, "write") ELSE Answer(w)
  /\ UNCHANGED storeVars

-----------------------------------------------------------------------------
(* Compliance checks: pending only to edit or delete; every request but a  *)
(* delete looks its manifest up.                                           *)

CreateCheck(w, k, m) == Start(w, Then(CreateJob(k, CheckInitialStatus, m), "manifest"))

UpdateCheck(w, k, m, e) ==
  /\ Found(k)
  /\ rows[k].status = "pending"
  /\ Start(w, Then(EditJob("update", k, e, [rows[k] EXCEPT !.data = m]), "manifest"))

\* Mutant: only a pass looks the manifest up.
TransitionCheckUnlinked(w, k, s, e) ==
  /\ Found(k)
  /\ CanTransition(CheckGraph, rows[k].status, s)
  /\ Start(w, Then(EditJob("transition", k, e, [rows[k] EXCEPT !.status = s]),
                   IF s = "pass" THEN "manifest" ELSE "write"))

TransitionCheck(w, k, s, e) ==
  /\ Found(k)
  /\ CanTransition(CheckGraph, rows[k].status, s)
  /\ Start(w, Then(EditJob("transition", k, e, [rows[k] EXCEPT !.status = s]), "manifest"))

\* Mutant: a decided check can be deleted.
DeleteCheckAnyStatus(w, k) == Found(k) /\ Start(w, DeleteJob(k))

DeleteCheck(w, k) ==
  /\ Found(k)
  /\ rows[k].status = "pending"
  /\ Start(w, DeleteJob(k))

CheckRequest(w, k) ==
  \/ \E m \in Manifests : CreateCheck(w, k, m)
  \/ Found(k) /\ \E e \in Quotable(k) :
       \/ \E m \in Manifests : UpdateCheck(w, k, m, e)
       \/ \E s \in DOMAIN CheckGraph : TransitionCheck(w, k, s, e)
  \/ DeleteCheck(w, k)

\* Mutant: a pass only asks that the manifest exists.
ManifestExists(j) == Found(j.item.data)

\* The manifest exists and, for a pass, is submitted, in transit or received.
ManifestAccepted(j) ==
  /\ Found(j.item.data)
  /\ j.op = "transition" /\ j.item.status = "pass"
       => rows[j.item.data].status \in {"submitted", "in_transit", "received"}

LookUpManifest(w) ==
  /\ InPhase(w, "manifest")
  /\ IF ManifestAccepted(job[w]) THEN GoTo(w, "write") ELSE Answer(w)
  /\ UNCHANGED storeVars

-----------------------------------------------------------------------------

Request(w) ==
  \/ \E g \in Generators \intersect Addressed : GeneratorRequest(w, g)
  \/ \E c \in Carriers \intersect Addressed : CarrierRequest(w, c)
  \/ \E m \in Manifests \intersect Addressed : ManifestRequest(w, m)
  \/ \E k \in Checks \intersect Addressed : CheckRequest(w, k)

Continue(w) ==
  LookUpGenerator(w) \/ LookUpCarrier(w) \/ LookUpManifest(w) \/ EndRequest(w)

Tick == now < MaxTime /\ now' = now + 1 /\ UNCHANGED vars

Next ==
  \/ \E w \in Workers : Request(w) /\ UNCHANGED now
  \/ \E w \in Workers : Continue(w) /\ UNCHANGED now
  \/ \E w \in Workers : Abort(w) /\ UNCHANGED now
  \/ Tick

Spec == Init /\ [][Next]_allVars

-----------------------------------------------------------------------------
(* Each service, seen alone, is a RecordService: a job that still looks    *)
(* linked records up is one that may yet write or give up.                 *)

TableOf(kind, table) == [c \in kind |-> table[c]]

JobsOn(kind) ==
  [w \in Workers |->
     IF job[w] = Idle \/ job[w].code \notin kind THEN Idle
     ELSE IF job[w].phase = "reply" THEN job[w]
     ELSE Then(job[w], "write")]

GeneratorService == INSTANCE RecordService WITH
  Codes <- Generators, Graph <- GeneratorGraph, InitialStatus <- GeneratorInitialStatus,
  Editable <- DOMAIN GeneratorGraph, Deletable <- DOMAIN GeneratorGraph, Data <- Expiries,
  Seed <- TableOf(Generators, Seed), rows <- TableOf(Generators, rows),
  trail <- TableOf(Generators, trail), job <- JobsOn(Generators)

CarrierService == INSTANCE RecordService WITH
  Codes <- Carriers, Graph <- CarrierGraph, InitialStatus <- CarrierInitialStatus,
  Editable <- DOMAIN CarrierGraph, Deletable <- DOMAIN CarrierGraph, Data <- Expiries,
  Seed <- TableOf(Carriers, Seed), rows <- TableOf(Carriers, rows),
  trail <- TableOf(Carriers, trail), job <- JobsOn(Carriers)

ManifestService == INSTANCE RecordService WITH
  Codes <- Manifests, Graph <- ManifestGraph, InitialStatus <- ManifestInitialStatus,
  Editable <- {"draft"}, Deletable <- {"draft"}, Data <- Parties,
  Seed <- TableOf(Manifests, Seed), rows <- TableOf(Manifests, rows),
  trail <- TableOf(Manifests, trail), job <- JobsOn(Manifests)

CheckService == INSTANCE RecordService WITH
  Codes <- Checks, Graph <- CheckGraph, InitialStatus <- CheckInitialStatus,
  Editable <- {"pending"}, Deletable <- {"pending"}, Data <- Manifests,
  Seed <- TableOf(Checks, Seed), rows <- TableOf(Checks, rows),
  trail <- TableOf(Checks, trail), job <- JobsOn(Checks)

-----------------------------------------------------------------------------
(* What must hold of every run.                                            *)

\* Type invariant: the tables and jobs of each service have their types, and
\* only the requests of manifests and checks stop for a look-up.
TypeOK ==
  /\ now \in 0 .. MaxTime
  /\ GeneratorService!TypeOK
  /\ CarrierService!TypeOK
  /\ ManifestService!TypeOK
  /\ CheckService!TypeOK
  /\ \A w \in Workers : job[w] # Idle =>
       /\ job[w].phase \in {"generator", "carrier"} => job[w].code \in Manifests
       /\ job[w].phase = "manifest" => job[w].code \in Checks

\* The record has had the status: as seeded, or by an audited change.
HasBeen(c, status) ==
  \/ SeededAs(c, status)
  \/ \E i \in 1 .. Len(trail[c]) : trail[c][i].after = status

\* A manifest that has left the draft names a generator that has been active
\* and a carrier that has been verified, according to their own histories:
\* the parties that were vetted are the parties that were submitted, whatever
\* edits of the manifest raced with the submission.
SubmittedPartiesWereVetted ==
  \A m \in Manifests : rows[m] # Absent /\ rows[m].status # "draft" =>
    /\ HasBeen(rows[m].data.generator, "active")
    /\ HasBeen(rows[m].data.carrier, "verified")

\* A check that passed names a manifest that, by its own history, has been
\* submitted, in transit or received, although the manifest of the check and
\* the status of the manifest both change under concurrent requests.
PassedManifestsWereSubmitted ==
  \A k \in Checks : rows[k] # Absent /\ rows[k].status = "pass" =>
    \E status \in {"submitted", "in_transit", "received"} : HasBeen(rows[k].data, status)

\* Seen alone, each service is a RecordService: its look-ups refuse requests
\* and change nothing else, and no other service writes to its table.  (Each
\* is the Spec of the instance, with the stuttering step put first: most
\* steps are another service's.)
GeneratorsFollowTheService ==
  GeneratorService!Init /\ [][UNCHANGED GeneratorService!vars \/ GeneratorService!Next]_allVars
CarriersFollowTheService ==
  CarrierService!Init /\ [][UNCHANGED CarrierService!vars \/ CarrierService!Next]_allVars
ManifestsFollowTheService ==
  ManifestService!Init /\ [][UNCHANGED ManifestService!vars \/ ManifestService!Next]_allVars
ChecksFollowTheService ==
  CheckService!Init /\ [][UNCHANGED CheckService!vars \/ CheckService!Next]_allVars

\* A party that a submission or a dispatch would accept now.
Fit(code, status) ==
  Found(code) /\ rows[code].status = status /\ Unexpired(rows[code].data)

\* A submission or dispatch of m, with the parties that m names, is under way
\* and has come to one of these phases.
Cleared(m, phases) ==
  \E w \in Workers :
    /\ job[w] # Idle /\ job[w].code = m /\ job[w].op = "transition"
    /\ job[w].phase \in phases
    /\ job[w].item.data = rows[m].data
    /\ job[w].item.status \in {"submitted", "in_transit"}

\* A party of m is not fit, and no request has found it fit before.
HeldBack(m) ==
  /\ Found(m)
  /\ \/ ~Fit(rows[m].data.generator, "active") /\ ~Cleared(m, {"carrier", "write"})
     \/ ~Fit(rows[m].data.carrier, "verified") /\ ~Cleared(m, {"write"})

Advances(m) ==
  rows'[m].status # rows[m].status /\ rows'[m].status \in {"submitted", "in_transit"}

\* Parties are vetted again before each submission and each dispatch: while a
\* party of a manifest is restricted, past its date or removed, the manifest
\* is neither submitted nor dispatched, except by requests that had found the
\* party fit already.  That ends when the party or the draft is changed.
UnfitPartiesHoldBack ==
  [][\A m \in Manifests : HeldBack(m) =>
       \/ HeldBack(m)' /\ ~Advances(m)
       \/ rows'[m].deleted \/ rows'[m].data # rows[m].data
       \/ \E c \in {rows[m].data.generator, rows[m].data.carrier} : rows'[c] # rows[c]]_allVars

\* The manifest of k was removed, and no decision had found it before.
Orphaned(k) ==
  /\ Found(k) /\ rows[k].status = "pending"
  /\ rows[rows[k].data] # Absent /\ rows[rows[k].data].deleted
  /\ \A w \in Workers :
       job[w] # Idle /\ job[w].code = k /\ job[w].op = "transition"
         /\ job[w].item.data = rows[k].data => job[w].phase = "manifest"

\* A pending check whose manifest has been removed is not decided any more,
\* whichever way: it can only be given another manifest, or be removed.
OrphansStayUndecided ==
  [][\A k \in Checks : Orphaned(k) =>
       Orphaned(k)' \/ rows'[k].data # rows[k].data \/ rows'[k].deleted]_allVars

\* A check is not passed on a manifest that has been rejected.
RejectedNeverPasses ==
  [][\A k \in Checks : rows[k] # Absent /\ rows[k].status # "pass" /\ rows'[k].status = "pass"
       => rows[rows[k].data].status # "rejected"]_allVars
=============================================================================
