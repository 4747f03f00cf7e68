# Verification of the hazardous waste transfer compliance service

TLA+ models of the repository's back end and of the part of its browser client that keeps
state, checked with TLC, and theorems about them proved with TLAPS. Every definition is
translated from `src/`; the `map` of `PROJECT.json` names the lines.

## 1. Inventory

| Part | State it keeps | Operations | Talks to |
|---|---|---|---|
| Status graphs (`constants/status.go`, `model/*.go`) | none | `CanTransition`, initial statuses | services |
| Audited store (`repository/base.go`) | one table per kind of record, `audit_logs` | `Get`, `FindByCode`, `CreateAudited`, `UpdateAudited`, `DeleteAudited` | PostgreSQL |
| Services (`service/*.go`) | the locals of each request | `Create`, `Update`, `Transition`, `Delete` per kind | their store, and the stores of the records they link to |
| Handlers, DTOs (`handler/*.go`, `dto/*.go`) | none | decode a request, call one service method, encode the answer | services |
| Authentication and roles (`middleware/auth.go`, `service/security.go`) | the users table; a token carries its claims | `Login`, `Authenticate`, `RequireMinimumRole`, `Session` | clients |
| Rate limiter (`middleware/ratelimit.go`) | counters in Redis, a map in the process | `increment`, `incrementLocal`, `cleanupLocal` | Redis |
| Start-up (`database/database.go`, `cmd/server/main.go`) | the database that survives, the position in the start-up | `Open`, `migrate`, `Seed`, stop | PostgreSQL, Redis, the container's restart policy |
| Browser session (`hooks/use-auth.ts`, `api/client.ts`, `router/guards.ts`) | `localStorage`, shared by all tabs; the session signal of each tab | `restore`, `login`, `logout`, guards, the 401 rule | `/api/session`, `/api/auth/login` |
| Browser workbench (`stores/factory.ts`, `entity-page.component.ts`) | the loaded page, the open dialog | `load`, `createRecord`, `transition` | resource handlers |
| System queries (`handler/system.go`, `repository/security.go`) | none | overview, audit list, summary, history, health | all tables |
| Configuration, request ids, presentation | none that changes | | |

The kinds of record are waste generators, carriers, transfer manifests (each
names a generator and a carrier by code) and compliance checks (each names a
manifest by code). There are no foreign keys.

What is hard. Requests run concurrently and every one reads its row, looks other
rows up and decides *before* the transaction that writes; the only thing the
transaction compares is a version number that comes from the client, and a delete
compares nothing. A start can be cut off at any statement, and the database
that it leaves decides the next one. The limiter counts in two places that fail
and forget independently. In the browser every click starts a chain of requests that nobody
cancels, their answers arrive in any order, and the session is kept twice: once in
storage that all tabs share and once in each tab. `PROJECT.json` lists
every such hazard with its line and the properties about it.

What makes each part correct:

- *store and services*: no committed change is overwritten unseen; a status moves
  along its graph only; a decided record is frozen; the audit history explains the row;
- *links*: what a look-up vetted is what the record names when it is committed; while a linked record is unfit or gone,
  what depends on it does not go on;
- *start-up*: seeding is all or nothing per table, never revives a deleted
  record, and the server gets to serve again;
- *limiter*: no minute admits more than the limit per backend, and the map stays small;
- *sessions*: a session claims what its token claims, a page fits the session that it is
  shown with, and a request is served on a role that its user held not long ago;
- *workbench*: the page shows and quotes only what was stored, and what the user confirmed is
  what is saved.

## 2. Modules

    StatusGraphs     AuditedStore      RecordLifecycle (abstract)
          \           /        \           |
           \         /         RecordService --- RecordServiceProofs --- RecordHistoryProofs
        TransferCompliance --(four instances)--^   \              |
            |                                      Workbench --- WorkbenchProofs
        LinkProofs --- ServicesProofs --(instances of the theorems)-'
        AccessControl --- ClientSession --- SessionProofs
        Startup --- StartupProofs
        RequestLimiter --- LimiterProofs

`MC*` modules give the constants values for TLC.

**AuditedStore** holds `rows` (the tables), `trail` (`audit_logs`, one sequence
per record in commit order) and `job` (the locals of each request: the row it
read, the row it will save, the version the client quoted). A row is `[deleted,
status, version, data]`. Each of `CreateAudited`, `UpdateAudited` and
`DeleteAudited` is one step, because the code makes it one transaction and the update is
one statement with `WHERE id = ? AND version = ?`. That a row and its audit row are committed together or
not at all is therefore an assumption about the database, not a result: what is checked is what the transaction
is given, a before-state that was read earlier included. Everything a handler does
before is a step or steps of its own, so any other request may
commit in between. `Refuse` is a conflict, a missing row or a duplicate code;
`Abort` is every other end without a commit (cancelled context, failed
statement, stopped process, a field that is not valid); `Reply` is the read after the
commit. Not in the model: wording, field formats, the columns no property is about, the id
beside the code (the unique index covers deleted rows, so one names the other).

**RecordService** is the protocol the four services share, with the graph, the
editable and the deletable statuses as constants. **RecordLifecycle** is what a
service promises: each change is one atomic, audited, legal step; it knows no
requests and no quoted versions. `ImplementsLifecycle` is the refinement (the
mapping is the identity on `rows` and `trail`; `job` is hidden). It holds for every
kind of record. A removal is left open there in the status that the record has by
then and in the status that its audit entry names, since the code decides a removal on
what it read earlier; that the difference matters is finding 1.

**TransferCompliance** is the whole service layer on one database, with one action
per handler method, the look-ups as steps of their own (`LookUpGenerator`,
`LookUpCarrier`, `LookUpManifest`) and the clock. `data` is the expiry date,
the two parties or the manifest. Each service is stated to be an instance of
`RecordService` (`GeneratorsFollowTheService`, ...), so what is proved there
holds here (`ServicesProofs` makes that a proof); the mapping restricts the tables to the kind and shows a request
that is still looking up as one that has not written yet. `Seedable` and `SeedAssumption` say what
`database.Seed` may have stored before the first request: rows of version 1, none deleted, and, where a manifest has left
the draft or a check has passed, links that fit, as in `TM-002`, `TM-003` and `CC-002`. A seeded row has no history, so a
check may pass on a manifest whose history shows it in transit but never submitted; `PassedManifestsWereSubmitted` asks
for `submitted` or one of the statuses after it.

**Workbench** is one page of the browser over a `RecordService`: `shown` is the loaded
table, `dialog` the open dialog, `call` the chain of requests that each of its slots is in.
A slot is also a worker of the server, so the page's requests take the steps of
`RecordService` themselves, beside the requests of other clients. The dialogs are modal (the
backdrop covers the toolbar and the table): no query starts while one is open, but it can be
cancelled, and confirmed again, while a confirmation is under way. After a change the page
loads the first page of the table again, without a search text (`FirstPages`, with the code's `PageSize`: all records
if they fit on the page, otherwise any that fill it); the chain ends with that load, and its end closes whatever
transition dialog is open by then.

**AccessControl** is the server's side of a session: accounts, `Issue` (a login's token),
`Verdict` (what the middleware makes of a request), an operator of the database who changes
accounts, and a clock whose unit is much longer than a request. **ClientSession** puts tabs in front of it. `stored` is
`localStorage`, from which each request takes its token; `session` is the signal of each tab,
from which guards, navigation and buttons take the role. `auth` is the login or restore of
a tab, behind the loading overlay; `api` is a page's call, which nobody cancels.

**Startup** follows `main` and `database.Open`: attempts with their two pings,
migration, the tables in order (count, then insert), Redis, serving. The insertion of a table's seed is one step, because
it is one `INSERT` of a slice; that the statement is all or nothing is assumed of the database. Requests and the operator
change the database while it serves; outages, the start-up deadline and stops happen at any step.

**RequestLimiter** counts a request in Redis under the minute in which it was
stamped, or, after an error, in the map under the minute of that moment. An error may
come after Redis has counted, and the client library may try again.

## 3. Runs

| Run | Question | Instance |
|---|---|---|
| `manifest` | do versions protect every save, does the history explain the row, is every commit a step of `RecordLifecycle`? | 3 requests; a seeded draft up to version 4, and a code that is created and removed |
| `linking` | are the parties of a submitted manifest parties that were vetted, does a manifest with an unfit party go no further, and are generators and carriers each a `RecordService`? | 2 requests on a generator, a pending carrier and a manifest that is created; a second generator, which is restricted; versions up to 2 |
| `deciding` | does a passed check name a manifest that has been submitted, does a check whose manifest was removed stay undecided, does a manifest whose parties' permits expired go no further, are manifests and checks each a `RecordService`? | 2 requests on a draft and on a check that is created; a submitted manifest; a generator whose permit expires before the carrier's; versions up to 2, of the draft up to 3, which is its dispatch |
| `workbench` | does the page quote only stored versions, is a confirmed transition saved on the row its dialog showed, does the loading sign go out? | 1 carrier from its creation, 2 requests of the page in flight, 1 other client, versions up to 3 |
| `sessions` | do sessions, tokens, pages, buttons and the server's roles stay consistent, and does every loading end? | 2 tabs, a viewer, a reviewer who is deactivated, tokens that live for 1 tick, 1 tick, fairness |
| `restarts` | what survives any sequence of cut-off starts, and does the server serve again? | 2 tables, 4 seeded rows, 1 user row, 3 attempts, 3 faults, fairness |
| `limiting` | does each backend keep the limit, and does the map stay small? | 2 keys, 2 requests at once, 4 in all, limit 1, cleaned from 1 bucket on, 3 minutes, 1 retry |
| `manifest_delete`, `quoted_ahead`, `pass_race`, `session_lost`, `reseeded` | the findings | each finds its counterexample within a few thousand states |

Bounds, and why they are enough:

- *Requests.* A lost update or a stale delete needs two requests (one that has read, one
  that commits), a chain of two saves under a third one that is waiting needs three. `manifest` has
  three; the linked instances have two, one of which waits between its look-up and
  its save while the other changes what was looked up. `workbench` has two of the page, so that
  answers overtake each other, and one of another client.
- *`MaxVersion`* stops, for each code, updates and transitions at a version: 4 lets a manifest go
  through most of its graph beside an edit, 1 only creates and removes, 2 is one change
  of each linked record, for which the requests race from the same version. The longer paths of a manifest
  (to `in_transit` and beyond) are in `manifest`; version 3 of a manifest is its dispatch in `deciding` and its rejection in `pass_race`.
- *`Lookahead`* is how far beyond the stored version a client may quote: 0, clients
  quote what they have seen. `workbench` checks that the shipped page is such a client; `quoted_ahead` has 1, for a
  client that is not.
- *`PageSize`* is 20, as in the code, so the one carrier of the instance is always on the first page; the proofs
  hold for any size.
- *`Addressed`* names the codes that requests change; the others are only looked up.
- *`MaxTime`, `Expiries`*: one tick past the nearest date is the only thing an expiry can do. It happens in `deciding`; in
  `linking`, where the parties change their status or are removed instead, the clock stands still.
- *`Ttl`, `MaxTime`* of `sessions`: one tick takes a token past its expiry, and an account can
  be deactivated before or after it.
- *`PageRoutes`* of `sessions` is a sample of the routes: one that asks for any role, one that
  asks for a reviewer on the work page, and the audit page's. Of a request on its way the model keeps the
  least role that its route asks for, which is all the middleware looks at.
- *`MaxAttempts`* is 20 in the code; three attempts reach the first, a middle and the last one.
- *`MaxFaults`* bounds outages, expired deadlines and stops together.
- *`CleanupSize`* is 512 in the code, *`Limit`* 240 and *`Retries`* 3; the model needs a map that
  reaches the first, keys that pass the second, and a retry that counts twice. *`Ttl`* is the code's two
  minutes. *`MaxRequests`* bounds the requests and with them every counter: four pass the limit of a key
  in both backends. *`MaxMinute`* lets a counter expire while a request stamped in its minute was late.

Symmetry is used on the workers, the slots of the page and the keys, which the
configurations treat alike, and never with a liveness property.
`CHECK_DEADLOCK FALSE` is given where a model really stops: a server that serves with every fault used up, and a
limiter at the last minute of its clock.

Fairness is assumed in the two runs with a liveness property. `sessions`: for each tab, weak fairness of being answered or taking an answer: `fetch` settles,
at the latest when the proxy or the connection gives up (`FailAuth` is one of the answers), and the
browser runs the handler. `restarts`: weak fairness of `Boot` (the container is restarted unless it is stopped),
of the process's own steps, and of the recovery of the services it depends on, whose containers
have the same policy.

## 4. Findings

1. **A submitted manifest can be deleted** (`manifest_delete`). The delete is decided on a
   draft, the submission commits, the delete looks at the id alone.
2. **A submitted manifest can be edited** (`quoted_ahead`). An update is decided on a draft at version 1 and quotes
   version 2; the submission commits version 2; the update's `WHERE version = 2` matches. The columns are
   replaced and the status is the draft's again. The number is compared with the row at the commit, never with the row that
   the handler read. It takes a client that quotes a version it has not seen, which the shipped page never does.
3. **A check passes on a rejected manifest** (`pass_race`). The manifest's status is read before
   the transaction of the check and not again in it.
4. **A tab keeps a session whose token is gone** (`session_lost`). A 401 clears the stored
   session and not the signal, so the page, its navigation and its buttons stay while every call is refused,
   until the user logs out or loads the page again.
5. **Removed demonstration accounts come back** (`reseeded`): an empty users table is seeded again at the next start.

Observed while modelling, where no text of the repository says otherwise (no run for them):

- A manifest can be submitted with a party that has been restricted, has expired or was deleted since the
  look-up, which is outside the transaction. `src/README.md:42` says that the parties are verified again before a
  submission and a dispatch, which is what happens; what holds is `SubmittedPartiesWereVetted`, and `UnfitPartiesHoldBack`
  for every look-up that comes after the change.
- A check whose manifest was removed can be neither passed nor failed (`OrphansStayUndecided`): every decision looks the
  manifest up. It can be given another manifest, or be removed.
- The table of the page can go back to older rows when loads overtake each other; the end of a
  confirmation can close a dialog that was opened later; the load after a change ignores the page and the search
  text; an error is wiped by the next load.
- A restore under way stores a session again that another tab has logged out meanwhile; a refused
  login clears the session of the other tabs; any failure of a restore, a 429 too, logs out.
- `ServesUnlessBlocked` has one exception built in: when all records of a seeded table have been
  soft-deleted, `Count` finds none, the unique index refuses the seeded codes, and every start
  ends in that error. Generators and carriers can be deleted in every status, so an
  administrator can get there with ordinary requests.
- The history of a record is listed by `created_at`, which is stamped before the transaction. The saves of one
  record are still listed in the order of their commits, because the stamp lies between the read and the save and
  nothing commits on the record in between (`SavesReplaceWhatTheyRead`). A delete compares
  no version and can be listed before a change that was committed earlier.

One disagreement with a text is plain from reading and has no run: the page's copy of the graphs offers
`pending -> expired` for a carrier and `pending -> escalated` for a check (`types/status.ts:17`, `:19`), which the
server's graphs do not have (`constants/status.go:37`, `:52`), so those buttons are always refused, although
`src/README.md:138` asks for the two to be kept the same.

What the models show to hold in spite of those races is worth as much: the parties of a submitted
manifest *have been* active and verified, a passed check's manifest *has been* submitted, whatever edits
and decisions interleave, because a transition stores the very links that it vetted
and an edit only ever stores the undecided status that it read. A confirmation that is repeated, or overtaken by another client, changes
nothing. However tabs log in, out and restore, no tab shows a page or a button that its own session's token would not be served for.

## 5. Proofs

All theorems are for every value of the constants that satisfies the named assumptions of the
module: `RecordService` (a graph over its statuses, a sentinel that is not a row, a seed of
version 1, natural bounds), `ClientSession` and `AccessControl` (accounts are accounts, the sentinel is
none of the values it stands beside, a token lives for at least one tick), `Workbench` (its requests are
workers of the service, its menu offers statuses, "no call" and "no dialog" are none of the calls and dialogs),
`TransferCompliance` (the four kinds have different codes, the sentinels are no row and no job, dates and bounds are natural
numbers, the seed is as above), `Startup` (every table has a seeded row and its own, finitely many rows; the seed order
lists tables), `RequestLimiter` (natural bounds, a clean-up from at least one bucket on, the sentinel is no bucket). TLC
evaluates them on every run, so the instances of section 3 satisfy them.

`RecordServiceProofs`:

- `TypeCorrect`: `Spec => []TypeOK`. Inductive as it stands. The proof shows that each
  action changes `rows`, `trail` and `job` by one entry of the right type.
- `PendingSavesStaySound`: with `Lookahead = 0`, `Spec => []PendingSavesAreSound`. This is the
  strengthening that the others need. A pending save says what it read, and the invariant ties
  that to the present: while the row still has the version read, it *is* the row read, and the row to be
  saved is a legal successor of it. It is inductive because every save raises the version
  and nothing lowers it (`EveryStepIsARowStep`, `RowStepKeepsReads`).
- `NoLostUpdate`, `StatusesFollowTheGraph`, `FrozenOnceDecided`: a save that
  matches its version quotes at most the version read, so the row it replaces is the row read,
  and the three action properties follow from that one step.

`RecordHistoryProofs`, with `Lookahead = 0` as well:

- `RefinesLifecycle`: `Spec => ImplementsLifecycle`. Each commit is one step of `RecordLifecycle`
  (`InsertIsCreate`, `SaveIsEdit`, `SaveIsAdvance`, `RemoveIsRetire`), every other step changes no record. Beside
  `PendingSavesAreSound` it needs that a pending creation holds a new row (`PendingCreatesAreNew`).
- `HistoriesExplain`: `Spec => []AuditExplainsRows`, by induction over the steps of the *abstract* lifecycle,
  which the refinement makes available. The strengthening is that a code without a row never had one, so that the
  first entry of a history is the creation.
- `SavesSurvive`: `Spec => []SavedVersionsSurvive`, since a later step raises the version or leaves status
  and columns alone (`RowStepKeepsSaves`).

`Lookahead = 0` cannot be dropped: with a client that quotes one version ahead, `quoted_ahead` violates `FrozenOutsideEditable`.

`SessionProofs`, for any number of tabs and users:

- `TypeCorrect`: `Spec => []TypeOK`, with the types of `AccessControl`'s variables.
- `SessionsAreTheirTokens`, `PagesFitSessions`, `ButtonsArePermitted` rest on `SessionsSound`: in each tab the session shown, the
  session that a restore has cached and the one that a login brings all claim what their tokens claim, *a restore works on
  the very session that its tab shows*, and the page fits that session, or will when the restore is done. Without the
  italicised part the answer of a restore could put a role under a page that was opened with another one.
- `ServedRolesAreRecent` rests on `TokensBacked`: wherever a token is (stored, shown, cached, on its way),
  it expires within `Ttl` of a moment at which its user was active in its role; a login establishes that, and time only
  adds to `lastHeld`.

`WorkbenchProofs`, for any menus, any number of requests of the page in flight and of other clients;
`Lookahead = 0` is assumed of the other clients only. Everything rests on `PageSound`:

- A slot's job is what its call asked for (`JobsFitCalls`), and each copy of a row, in the table, in the dialog, in an
  answer or in a request, is the stored row or has a lower version (`ShownIsCurrentOrOutdated`). So that the page quotes only
  versions it has seen is *proved*, not assumed: its transition begins like one of `RecordService` that quotes no
  more than the row found (`Starts`), and `PendingSavesAreSound` carries over (`PageStepOfService`).
- `PageTypeCorrect` and `PageShowsStoredRows` are parts of `PageSound`.
- `ConfirmationsAreHonest`: the row that a save replaces is the one that its request read, at the version that the
  dialog's copy had, and the copy of the stored version is the stored row.
- `LoadingSignGoesOut`: whatever ends a chain while nothing else is in flight is an answer that puts the sign out.

`LinkProofs`, for all codes, seeds, dates, numbers of requests and quoted versions (no `Lookahead = 0` here):

- `PartiesWereVetted`: `Spec => []SubmittedPartiesWereVetted`, and `ManifestsWereSubmitted`:
  `Spec => []PassedManifestsWereSubmitted`. Neither is inductive: it says nothing of a request that is between its look-ups
  and its commit. `LookUpsAreKept` says what such a request has established, look-up by look-up: a
  job that is to store a manifest outside the draft is a transition; once past the first look-up its generator *has been*
  active, past the second its carrier *has been* verified; likewise a job that is to pass a check.
  "Has been" is a statement about histories and seeds, which only grow (`HistoriesOnlyGrow`, one lemma per kind of commit), so
  what was established stays established while other requests commit. `StatusesAreRecorded` connects the look-up, which
  sees the present status, to the history. An edit keeps the status that it read, a draft's, so the parties it brings need
  no vetting, and a transition stores the parties that it vetted: the argument does not lean on the version test.
- `UnfitPartiesHold`: `Spec => UnfitPartiesHoldBack`, and `NoOrphanIsDecided`: `Spec => OrphansStayUndecided`. Both say
  that a bad state of a link lasts until somebody mends it. Their premise names the requests that had passed the look-up
  already (`Cleared`, `Undecided`); the proofs show that no step adds one: a request starts before its look-up
  (`TransitionsLookUp`), a look-up does not find what is not fit, time makes nothing fit (`StaysUnfit`), and a
  removed row is not written again (`RemovedForGood`). What is then committed is an edit, which by `LookUpsAreKept`
  stores an undecided status.
- `Shape` is the type invariant these proofs need, with the look-ups each table allows; `AlwaysShaped` proves it first.

`ServicesProofs`, on the same assumptions:

- `GeneratorsFollow`, `CarriersFollow`, `ManifestsFollow`, `ChecksFollow`: each service, seen alone, is a
  `RecordService`. `View(kind)` is `AuditedStore` on the tables of one kind. The lemmas `ViewOf...` say once, for any kind, that
  a store operation on a code of the kind is the same operation in the view and one on any other code
  changes nothing there; a finished look-up does not show. `GeneratorBegins`, ... then take the handlers one by one, and
  `GeneratorStep`, ... the disjuncts of `Next`: each is a step of that service or leaves its view unchanged.
- `TypeCorrect`: `Spec => []TypeOK`, from the four services' types and `Shape`.
- `EachImplementsLifecycle`, `EachFollowsItsGraph`, `EachSaveReplacesWhatItRead`, `EachHistoryExplainsItsRow`,
  `EachSaveSurvives`, `LinksAreFrozen`, with `Lookahead = 0`: `GeneratorTheory`, ... are instances of `RecordHistoryProofs`. Their assumptions are proved
  from those of `TransferCompliance` (`GeneratorTheoryApplies`, ...), their specifications are those of the services
  (`GeneratorTheorySteps`, ...), and so every theorem about `RecordService` becomes one about the shared database. These
  properties are not checked by a run of their own: the `manifest` run checks them on `RecordService`, and
  the refinements that carry them over are checked by `linking` and `deciding`.

`StartupProofs`, for any tables, seeds, attempts and faults:

- `TypeCorrect`: `Spec => []TypeOK`; no start-up makes more than `MaxAttempts` attempts to connect.
- `TablesAreSeededWhole`, `SeededBeforeServing` and `DeletedForGood` rest on `StoredSound`: beside `SeededAsAWhole`, the tables
  before the position of the process are seeded (`SeededSoFar`), and a row that is no seed was stored only after all
  the seeds (`OthersComeLater`). Without the last, a table that is skipped because it counts a row could be one whose only
  row came from a request and whose seed is still missing.

`LimiterProofs`, for any keys, requests, retries and clock:

- `TypeCorrect`: `Spec => []TypeOK`, with no bucket ahead of the clock.
- `AtMostLimit`: `Spec => []LimitPerBackend`, with `Ttl >= 2`, as the code has it. In Redis (`RedisSound`): what was admitted
  for a minute is at most its counter, *or that minute is so long past that no request stamped in it is left*; a counter lives
  long enough for that. In the map (`MemorySound`): the bucket of the running minute counts all that was
  admitted in it, since the clean-up drops only buckets of other minutes.
- `MapStaysSmall`: `Spec => []BucketsBounded`, with the finiteness of the map as the strengthening (`MapSound`), without
  which its cardinality says nothing.

Every invariant and every safety property of the passing runs has a theorem. Only model-checked: the liveness properties
`LoadingEnds` and `ServesUnlessBlocked`, since temporal proofs under fairness and `ENABLED` are out of the
prover's reach, as is induction over data; and the five findings, which are counterexamples.

## 6. Plan

Left to state and prove: when a start ends in the insertion error of section 4 (the state that
`ServesUnlessBlocked` excepts), as a safety property of `Startup`.

Not modelled, and why:

- *Configuration* is read once from the environment before anything runs; its values are constants of the models.
- *Request ids, headers, field validation* carry no state from one request to the next. A request that a field
  check refuses is one that changes nothing (`Abort`).
- *Queries that only read* (overview, audit list, summary and history, health, lists) have no effect on later steps.
  The lists page by offset over rows ordered by a time that changes, and count in a statement of their own, so a page may miss or
  repeat a row and the numbers need not belong to one moment; no text of the repository promises otherwise.
- *Presentation*: layout, formatting, the text of errors, the pager's arithmetic.
- *A restart of the process* empties the limiter's map; `RequestLimiter` leaves it out, since it only admits more than the
  map would, in a fallback that is local to the process anyway.
