# Origin: specifications of the backend and the web app

Origin tracks agricultural shipments: custody is handed over with signatures made on the
custodians' devices, payment waits in a 2-of-3 escrow, and hashes of events are committed to
Bitcoin. The backend is a set of small services that share a PostgreSQL database and talk over
Kafka; the web app, which is the larger part of the code, talks to them over HTTP or runs alone on
files made from a public data set. This directory holds TLA+ models of the parts that carry their
own logic, the TLC configurations that check them on small instances, and TLAPS proofs.

Backend paths such as `api.py:60` are relative to the service the section is about
(`src/services/<service>/`); web paths to `src/apps/web-app/src/`; `docs/` stands for `src/docs/`.

## 1. Inventory

| Component | State it keeps | Operations | Talks to |
|---|---|---|---|
| shipment-service | tables shipments, custody_events, custodian_devices; manifest bucket | create_shipment, custody_handoff, init_escrow; reads | ML precheck (HTTP), S3, topics shipment-events, escrow.psbt.request |
| escrow-service | table escrow_states; offsets of its consumer group | trigger, sign, dispute (HTTP); the consumer loop | topics alert.events, escrow.psbt.request (which it also writes), escrow.psbt.finalize, `*.dlq` |
| crypto-service, anchoring job | tables merkle_leaves, merkle_trees; last_anchor_txid in memory | a tick every ten minutes | Bitcoin node, topics merkle.committed, bitcoin.anchored |
| crypto-service, Merkle tree | none | root of a list of leaves | called by the job |
| crypto-service, PSBT consumer | offsets; reads last_anchor_txid and the node's wallet | one PSBT per request | topics escrow.psbt.request, escrow.psbt.response |
| auth-service | table users; Redis: attempts, lockout, blacklist of tokens | register, login, refresh, logout, google | Redis, Vault, the web app |
| user-service | table users | profile, KYC, listing | topic kyc-events |
| alert_service | thresholds, recent alerts in memory | consumer of ml.events | topic alert.events |
| ml_service | a trained model | precheck (HTTP), consumer | topic ml.events |
| iot-ingestion-service | table sensor_readings | signed bulk upload | topic iot-events |
| audit_reporting_service | append-only audit_logs | consumer of all topics, reports | database |
| database migrations | schema_migrations | run_migrations.sh | database |
| web-app: session | localStorage (two tokens, the user), shared by the tabs; a snapshot of the user in each | authFetch with refresh and retry, login, register, logout, mock sign-in, gate of the pages | auth-service; every page |
| web-app: roles | none (a manifest) | can, normalizeRole, gates, links | sidebar, pages, dashboards |
| web-app: demo dataset | page files, meta.json, stats.json | build-dataset, fetchStaticPage | list pages, reports, dashboards |
| web-app: list pages | filter, page, shown answer, what is acted on, menu, selection | filters, pages, loads, acknowledge, ignore, bulk, settle, dispute, release, audit request | dataset or services |
| web-app: frame | search text, timer, results, drawer, menus, lock of the body | search, navigation | six functions of api.ts |
| web-app: forms | sign-in form, reports, settings, each with a timer or a request under way | submit, toggle, generate, download, save | api.ts |
| web-app: dashboards | the view of a role, what it has loaded | load, buttons, links | api.ts, roles |
| web-app: telemetry map | layers, an interval, an index, a selection | effects and cleanups | its parent page |
| web-app: analytics, profile, risk heatmap | a file of statistics; a zoom level | render | stats.json |
| mobile-app | a token | thin HTTP client with demonstration data | HTTP services |

What is hard in this code, in general: a handler suspends at every `await`, with what it read
before kept in ORM objects; no SELECT takes a lock; a commit and the message that tells of it are
two steps, and either may fail; Kafka delivers again after a restart or, with offsets committed
by a timer, not at all; deployments run two processes of one service for a while. In the browser a
function is cut at every `await` too: nothing cancels a request, so answers come in any order and
after the page has moved on; several tabs write one localStorage; four lists of buttons, links and
gates have to agree on what a role may do; an effect sees the rendering it closed over. The file
PROJECT.json lists each hazard at its line with the properties that would catch it, and the ones
that nothing covers yet.

Some hazards have no property, because what they threaten is what the code does; section 4 lists these
behaviours.

What makes the components correct:

* escrow: only a threshold of different participants finalises an escrow; its terms do not change
  afterwards; what is announced has happened; the circle over the topic it writes and reads dies
  out.
* shipment: the ledger of custody is connected and written once per accepted handoff; the row follows
  the ledger, and custody moves only together with an entry; a custodian's device is bound once; messages tell the truth.
* anchoring: a committed hash is under a stored root, an announced root is on the chain, no hash is
  left out.
* Merkle tree: the root binds the leaves.
* session: localStorage holds one whole session of a kind the build allows; every tab shows the stored
  user; a session that the service has revoked has lost it for a known reason; a retry uses the token
  that the refresh brought.
* dataset: the page files lose, repeat and move nothing, and the statistics count the same rows.
* list pages: the table is one page of one answer; a mark on a row was earned; "Loading" ends.
* frame, forms, dashboards, map: what is shown belongs to what was asked, what is sent was entered
  and granted, a user is led to pages of the role, and whatever works comes back to rest.
* auth (planned): five failures lock the account, and not for ever.
* event pipeline, audit (planned): every published event is recorded, once.

## 2. Modules

| Module | Models | Checked by |
|---|---|---|
| `EscrowContract` | what an escrow promises, without coroutines, database or messages | `escrow_sign` (as `ImplementsContract`) |
| `EscrowService` | escrow-service | `escrow_*` |
| `MCEscrowService` | symmetry for TLC | |
| `EscrowServiceProofs` | theorems about `EscrowService` | tlapm |
| `CustodyLedger` | what the ledger of custody promises, without requests, transactions or failures | `shipment_custody` (as `ImplementsLedger`) |
| `ShipmentService` | shipment-service | `shipment_*` |
| `MCShipmentService` | symmetry for TLC | |
| `ShipmentServiceProofs` | theorems about `ShipmentService` | tlapm |
| `Merkle` | merkle.rs | `merkle` |
| `MerkleProofs` | theorems about `Merkle` | tlapm |
| `MerkleAnchoring` | the job in main.rs, anchoring.rs, kafka.rs | `anchoring` |
| `MerkleAnchoringProofs` | theorems about `MerkleAnchoring` | tlapm |
| `Roles` | roles.config.ts, permissions.ts, the gates and links | `web_pages` and, through `WebSession`, `web_session` |
| `WebSession` | lib/api.ts, lib/auth-store.ts, the gates, and the tokens of auth-service | `web_session`, `web_retry` |
| `MCWebSession` | instance, symmetry and the bound on calls | |
| `WebSessionProofs` | theorems about `WebSession` | tlapm |
| `Dataset` | scripts/build-dataset.mjs and its reader | `web_list` |
| `Screen` | what the pages share: how a call of api.ts may end | |
| `ListPage` | the pages shipments, alerts, crypto and audits | `web_list` |
| `MCListPage` | the data sets of the instance | |
| `AppShell` | DashboardLayout | `web_pages` |
| `WebForms` | the pages login, reports and settings | `web_pages` |
| `Dashboards` | DashboardFactory and its seven views | `web_pages` |
| `TelemetryMap` | LiveTelemetryMap | `web_pages` |
| `WebPages` | one visit to one of these screens, with fairness | `web_pages` |
| `MCWebPages` | lists and categories of the instance | |
| `ListPageProofs` | theorems about `Dataset` and `ListPage` | tlapm |
| `WebPagesProofs` | theorems about `WebPages` and its four screens | tlapm |
| `Induction` | induction over numbers and over lists; what a loop over a list computes | tlapm |

Definitions marked `Faulty` are variants of the definition that follows them, each with a slip a
programmer might make. No action uses them; they show that the properties can fail.

### EscrowService

State: `row` is the table; `log`, `pos` and `committed` are the topics, the consumer's position and
its committed offsets; `pc` and `ctx` are, for every HTTP request and for the consumer, the `await`
it is suspended at and its local variables; `reply` is what the client got. `signed`, `announced`
and `finished` are history.

Actions: `SubmitSign`, `SubmitTrigger`, `SubmitDispute` (a request arrives), `SignSelect`,
`SignCommit`, `FinalizeRow`, `FinalizePublish` (sign_psbt and finalize_escrow), `HoldSelect`,
`HoldInsert`, `HoldPublish` (process_fund_hold, called by the trigger handler and by the loop),
`Poll`, `DeadLetter`, `AutoCommit`, `Crash`, `DbError`. `AlertCreated` and `ShipmentRequest` are
messages of other services. A commit may succeed, fail, or succeed without its acknowledgement.

The ORM writes the whole list of signers it read plus the new one: `SignedRow` does the same, and a
lost update is a behaviour of the model as it is one of the code. The amounts are sums in satoshi; the
column holds at most `Int4Max`.

`EscrowContract` knows the phases none, open and settled and the endorsements of an escrow; the
refinement mapping takes the phase from the row and the endorsements from the committed signatures,
not from the row's list, which may have lost some.

### ShipmentService

State: the three tables, the bucket (`objects`), the messages of the broker (`published`), and per
request `pc`, `ctx` and `reply`. `ctx[r].read` is the row the handler read; `Updated` writes the
columns that differ from it, as the unit of work of the ORM does, and that is what keeps an escrow
initiation from undoing a handoff that committed after its SELECT. The registration of a device, the
ledger entry and the new custodian are one transaction (`Record`); the primary key of
custodian_devices makes the second of two registrations fail (`Conflict`).

`CustodyLedger` knows who a shipment began with, who has it, the entries of the ledger, one device for each
user, and what is told. It admits an entry made in the name of anybody who has come to hold the shipment, not
only of whoever holds it now: the service does not keep the stronger promise, as `shipment_fork` shows. A
handoff to the very user it is made from leaves the custodian as it is: the ORM finds the column unchanged
and writes nothing, even when another handoff has moved the shipment since. The mapping takes the ledger from
custody_events and leaves escrows out.

### Merkle and MerkleAnchoring

`Merkle` has the rounds of compute_root over lists, with hashes as pairs. `MerkleAnchoring` has the
job: `InsertLeaf` is the environment (nothing in the repository inserts leaves), `Start` is
build_anchoring with its fallback on the mock, `SelectLeaves`, `InsertTree`, `UpdateLeaf`, `Anchor`,
`Publish` are the awaits of one tick, `Crash` a process that dies. A tree is the set of its leaves
there; `Merkle` shows that a root and a leaf count determine the list. The SELECT has no ORDER BY and
the order of the leaves is not stored; no property depends on it. A tick that fails to connect or
finds nothing changes nothing and is left out.

### Roles, WebSession

`Roles` is the manifest as data: capabilities, sidebar (`SidebarLinks`), gates of the pages, links of the
dashboards, the role a mock sign-in infers from an address. Case is left out: every reader takes upper case first.

`WebSession` has what the tabs of one browser share and the service they talk to. State: `build` (demo
files, development, production), `store` (localStorage), `shown` (the user each tab renders) and `told` (the
tabs that will read it again: a storage event, hydration), `page`, one record per `call` of api.ts, and on
the service's side the clock `now` and the blacklist `revoked`. A function of api.ts is cut where it awaits
fetch(): `StartFetch`, `AfterFetch`, `AfterRefresh`, `AfterResend` are authFetch, `SubmitLogin`,
`SubmitRegister`, `AfterSubmit` the sign-in, `SignOut` the sign-out. `Serve`, `RefreshCheck`,
`RefreshRotate` and `Authenticate` are the service, cut between the look at the blacklist and the write to
it; `NetworkFails` loses a request or an answer. A token is its claims, so two that are issued in one second
for one account are one string. `setTokens` notifies nobody, `dispatchAuthChange` reaches the tab it is
called in at once and the others later. The logout endpoint does not verify the token it is given
(`Accepted`). A refusal by the service for a reason the model does not keep, a wrong password, a locked
account, a user made inactive, is a choice.

### Dataset, ListPage

`Dataset` is the script that makes the demo files, as functions of a list of rows: the items of each entity
(`Items`), their groups and page files (`paginateAndWrite`), the numbers of stats.json that count lists
(`Stats`), and the reader (`staticPage`) with its clamping. A row is abstracted to the flags the script
derives everything from.

`ListPage` is the four pages over a list, which are one component written four times; `entity` says which
one runs. `loads` and `acts` are the requests in the order they were made; they are answered in any order
(`ListAnswered`, `ActAnswered`) or fail (`ActFailed`), and an answer is applied to whatever the page holds by
then, as in the code. `Show` is the effect over page and filter, with the comparison that keeps it from
running. The demo deployment answers from the files of `Dataset`, a live one with its whole list.

### AppShell, WebForms, Dashboards, TelemetryMap, WebPages

Each screen is a record whose fields are the component's useState and useRef cells and its requests and
timers. `AppShell` has the search box (a keystroke sets a timer and clears the one before, a request is never
cancelled), the panel, drawer and menus; going to another page mounts a new frame. `WebForms` has the three
forms, `Dashboards` the choice of a view by role, its Promise.all, its buttons and links, the sidebar, which
every page draws, and a role that another tab changes. fetchStats may resolve to the body of an error: the
farmer's view writes what it finds there into its text and goes on, the other six call methods of numbers that
are not there and throw (`Throws`). `TelemetryMap` has the five effects with their dependency lists (`Dependencies`): a
rendering runs the cleanup and the body of those whose dependencies changed (`Render`), so a missing one
leaves a stale layer. `WebPages` follows one screen at a time, since they share no state but the session.

## 3. Runs

| Run | Instance | Shows |
|---|---|---|
| `escrow_sign` | 1 escrow, 3 users, 4 requests, threshold 2, no messages of other services, 1 crash | the threshold and announcements hold; reads stay true; the service implements the contract |
| `escrow_live` | 1 escrow, 1 user, 1 request, 1 alert and 1 shipment request at most, threshold 1, amounts 1 to 3 in a column that holds 2, 1 crash, fairness | requests have rows; a row keeps its amount and stays finalised when messages come again; only a crash loses a message; the loop comes to rest; requests end |
| `escrow_lost_signature` | 3 users, 3 requests | violation: an accepted signature disappears |
| `shipment_custody` | 3 users (1 admin), 2 devices, 3 requests, 1 crash | devices, ledger and custody are written together and the row is where the ledger leads; the ledger is connected; messages and manifests are backed; the service implements `CustodyLedger` |
| `shipment_live` | 1 user, 3 requests, 1 crash, fairness | requests end |
| `shipment_fork` | 3 users, 3 requests | violation: a handoff by somebody who is no longer the custodian |
| `merkle` | lists of up to 7 leaves of 2 values | the root is the balanced tree, and binds the leaves |
| `anchoring` | 2 leaves, 2 processes, 1 failure or crash, fairness | coverage, storage, no announcement without a transaction; every hash is committed |
| `web_session` | 2 accounts, 2 tabs, 3 calls, 1 reload, seconds 1 and 2 | one whole session; a snapshot that is current; a dead session has a cause |
| `web_retry` | 1 account, 1 tab, 2 calls | violation: the retry carries the expired token |
| `web_list` | 4 pages, 2 items a page, 259 data sets, 4 loads and actions on one of them, fairness | the page files are the lists and the statistics count them; the table is one page of one answer; marks are earned; "Loading" ends |
| `web_pages` | each screen with a few requests, fairness | the frame, the forms, the views and the map are truthful and come back to rest; calls and pages are those of the role |

Bounds, and why they are enough.

* One shipment or escrow: handlers never relate two of them, except that a custodian's device is shared, and
  for that several users and keys take part. Two signatures reach the threshold, the third user is the one whose
  signature comes late or gets lost, the fourth request is the trigger that opens the escrow. Three requests on
  a shipment are a creation and two that race.
* `MaxEvents`, `MaxCrashes` and `MaxFaults` bound the environment, not the code. `MaxLog` is above what the
  other bounds let happen in `escrow_sign`. In `escrow_live` it is not: after four messages the topic is full
  and a publication fails, which the code has to live with anyway.
* Messages come again in `escrow_live` only, where a crash follows a message that was processed and not
  committed; one signature finalises there, so that a hold can meet a finalised row, and two amounts fit the
  column, so that it can come with another amount. `escrow_sign` has no messages from outside: it is about the
  signers.
* Seven leaves are three rounds with an odd level in each position. Two processes are what a rolling
  deployment has.
* Session: two calls that refresh with one token are what breaks a rotation; `FewCalls` admits a third only
  among calls that read, from one tab in a production build, where a third refresh can meet the pair of the
  second. Two seconds (`MaxNow`), with `AccessLife` 1, are enough for a token to expire and for two tokens to
  be the same string or not. `MaxReloads` 1 loses the local state of one tab.
* Lists: `PageSize` 2 makes two pages of each list and one that is not full; with `MaxCalls` 4 a load, an action
  and two more overlap.
* Data sets: every sequence of at most three of six kinds of row, which has lists without an item, lists that
  fill their last page exactly, and (of alerts) several pages. A page is opened on each; filters, pages and actions
  are used on one of them (`Used`), which has two pages of shipments and two items of one order.
* Pages: `MaxSearches` 2 are one request overtaken by another, `MaxJobs` 3 and `MaxSaves` 2 one more than the slot
  or the banner holds, `MaxCalls` 1 a call under way while the role changes. `Cycle` 2 (10 in the code) lies
  between the lengths of the lists; `MaxVersion` 3 lets a list be replaced and replaced again.

Deadlock is not checked: every instance has finitely many requests and ends.

Fairness. Users, other services, crashes and failures have none. A coroutine that can go on is run by
the event loop, the consumer and the job go on as long as their process lives, and a process that died is
started again by its orchestrator: weak fairness of each process's own steps. Each await ends, with a result
or an error, because the drivers have timeouts. In the browser a request ends, with an answer or an error, and a
timer fires; nobody has to click. `DashboardLoads` holds on behaviours where other tabs stop changing the
role, since each change mounts a view that loads anew. `web_session` states safety only and has no fairness.

## 4. Where the code and its documents disagree

Each violating run has a finding in PROJECT.json that quotes the document.

* `escrow_lost_signature`: two participants sign at once and the second UPDATE takes the first signature away.
* `shipment_fork`: a handoff is accepted from somebody who no longer holds the shipment.
* `web_retry`: authFetch lets the headers in the options override the fresh ones, so a call that put
  getAuthHeaders() there is repeated with the expired token.

Behaviours of the models that documents say otherwise of, without a run of their own: a finalised escrow whose
publication failed is never announced (docs/architecture/SystemDesign.md:357 says a failed publication is
retried); a crash skips a message whose offset the timer had committed; committed leaves stay unanchored when
the broadcast fails (SystemDesign.md:1264); the consumers do not deduplicate by event id
(docs/api/API_Contacts.md:2031); a dispute locks nothing (SystemDesign.md:369); a creation that fails after
its commit is not compensated (SystemDesign.md:1087); there is no advisory lock around the job
(SystemDesign.md:1075).

Further behaviours that no document rules out are in the models, and the properties are worded so as to
admit them:

* Session: of two refreshes with one token the one that is refused signs the user out although the other
  renewed the session; an answer that comes after a sign-out brings the session back; a refresh in the second of
  the login returns the string that it puts on the blacklist; a page stays open when another tab signs out.
* Lists: the page of an earlier filter may be shown under the filter chosen since; the answer to a bulk action
  marks the open rows that came meanwhile; an action that fails leaves the button at work.
* Frame and forms: a search that is answered late opens the panel for a text that is no longer there; the code
  typed for one person may be sent with another's sign-in; the timer of an earlier save takes down a later banner.
* Dashboards: a plain USER falls through to the AdminDashboard, whose buttons push `/analytics`, `/audits` and
  `/reports`, where the access-denied panel awaits it; an export that is answered after another tab has changed
  the role pushes `/reports` for whoever the user is by then. `CallsAreGranted` names these two
  (`PlainUserLink`, `LateExport`) and forbids any other way onto such a page.
* Map: an index that a shorter list has left behind shows no pulse until the next tick.

## 5. Proofs

Every safety invariant and every action property of the passing runs is a theorem, and so are the two
refinements, for every value of the constants that the named ASSUMEs admit. Each proof has the same shape:
an invariant stronger than the properties, one lemma per action that keeps it, and the properties read off
it.

`EscrowServiceProofs`, for every set of shipments, users and requests, every threshold above zero and
any number of crashes. Type correctness and `ReadsStayTrue` together are inductive: what a coroutine
learnt before it was suspended (the signers it read have signed, the row it found exists, the escrow it
finalised stays so) is not undone by any step of another one. From it follow the threshold, the
announcements, the fixed terms, the rows of requests, and the refinement of `EscrowContract`: each step
maps to a step of the contract or leaves it alone. Without `ReadsStayTrue` the step `SignCommit` could
write signers that never signed. `OnlyCrashesLoseMessages` needs a second invariant, `HandedIsProcessed`:
until the first crash every message the loop was handed is processed or in its hands, and so the offsets the
timer commits run ahead of the work by the one message a crash then loses.

`ShipmentServiceProofs`, for every set of shipments, users, keys and requests and any number of crashes. The
invariant says what each suspended handler knows (`CreateKnows`, `HandoffKnows`, `EscrowKnows`): the row it
read was there, the custodian it read had come to hold the shipment and was the caller unless an operator
called, the device is the registered one unless it is to be registered, the manifest is stored. `AnswerKnows`
ties a reply to the ledger, and `OneCreator` keeps two requests from creating one shipment. What makes these
survive the steps of other handlers is `Grows`: rows and entries are only added, a registered device stays,
and who has held a shipment has held it for good (`HoldersStay`); the custodian read may be stale when it is
written, and this is what is true of it still. `HandoffIsAtomic` needs a second invariant, `RowInv`: the row is
where its events lead, and a handler that read a shipment as having left CREATED finds it so still
(`ReadHasLeft`). The latter is there because the ORM leaves a column alone that is as it was read: a handoff
that read IN_TRANSIT writes no status, and the row must have one that fits the new event all the same. The
theorems are types, the four invariants,
`CustodyMovesWithEvent` (which no run checks, since the ledger implies it), and the refinement of `CustodyLedger`, where the checks that three earlier steps made
become the guard of one `Handoff`.

`MerkleAnchoringProofs`, for every set of leaves, any number of processes and faults. The invariant adds
to the checked properties that the batch of a process consists of parsed leaves, that the tree it refers
to is stored over exactly that batch (`BatchIsStored`), and that where a node is required a process that
is about to announce has broadcast (`NodeIsReal`). The theorems are types, coverage of committed leaves,
storage of anchored trees, and that what is told of the chain is on it (`AnchorsAreBroadcast`).

`MerkleProofs`, for lists of any length. A round shrinks a list that has more than one node, and two lists of
equal length with the same next level are equal. The number of rounds is the least at which one node is left
(`LeastNatural`), so lists of one length take the same rounds, and equality goes back from the roots to the
leaves: `RootsBind`. By an induction over the rounds each node is the balanced tree over its stretch of the
list, the last one repeated where the list ends early: `RootsAreTrees`.

`WebSessionProofs`, for every set of accounts, tabs and calls, any clock and any number of reloads. The
invariant has four parts. `Stored` is what localStorage holds, `SessionIsWhole` among it; `Seen` is what the tabs
show, `SnapshotIsCurrent` among it; `Calls` says that a call about to use a token, a pair or an account has
one, and that the ones it has are of the service; `Rest` is the other types. `Calls` is what makes the others
inductive: `AfterRefresh` stores the pair of an answer over whatever is there, and only because that pair is
of one account does localStorage stay whole. `DeadSessionHasCause` needs the history of the tokens (`History`):
one that is stored or was sent had been issued to some call, one on the blacklist has a successor that a call
brought, and once the successor was stored or lost the old one is stored again only if the service issued
that string twice. It speaks of pairs of calls, and each step is shown to move calls forward only (`Later`).

`ListPageProofs`, for every list of rows, page size, number of requests and filter. The data set first: a loop
of the script is a recursive function over the list, and `Induction` shows that it exists, is the only one and
goes on when the list does (`Folds`). So the page files cut a group without loss (`FillCuts`), the numbers of
stats.json count what the files list (`FilesAreTheLists`, `NumbersAreOfTheLists`). Then the page: `PageInv` adds
to the checked properties what the site answers from (`SiteIs`) and `BulkCovers`: an open row that is shown
while a bulk action is away was sent with it or came after it. Without it the answer to the bulk action could
mark a row that no action covered.

`WebPagesProofs`, for every list, query, category, part and role, any number of requests. The screens share no
state, so each has its own invariant. The frame: results that are not of the text in the box are about to be
replaced or came late, and the body is locked just while the drawer is open. The forms: one submission at a
time, a code only when one was asked for, a banner that was earned, one report for each answer. The dashboards:
what a view shows is all of what it asked for, and a call in the record was granted to the role that made it.
`CallsAreGranted` itself is about steps: a click is one that the role of that moment is offered
(`ClickGranted`), a link of a view and of the sidebar leads where the role may go but for the plain user's
three (`LinkGranted`, `SidebarGranted`), and an answer moves the user only when it is an export's
(`CallAnsweredGranted`). The map: each layer was
drawn from what the effect's dependency list covers. `PulseComesBackAlways` is an action property: the index
is on the list whenever it moves.

Two things the proofs brought out. That a map may be given the empty list of shipments is an assumption of
`TelemetryMap` (`MapAssumption`), since its parent renders it before the first answer. And `GeneratedIsReal`
counts with Cardinality what it used to count by a recursion; it says the same.

`Merkle`, `Dataset` and `ListPage` write their loops as recursive functions, because a RECURSIVE operator is
out of the prover's reach.

Left to TLC: everything under fairness (`EventuallyQuiet`, both `RequestsEnd`, `EveryLeafIsCommitted`,
`ListComesBack`, `PagesComeBack`), because the prover has no ENABLED; and the three disagreements of section 4,
which are counterexamples.

## 6. Not modelled

* crypto-service, PSBT consumer: planned (`PsbtPipeline`). Its effects on the escrow service are an ignored log
  line. The Vault client is one request at start, without state.
* auth-service, in part: the counter of failed logins and the lockout, the seven days of a blacklist
  entry (the model keeps an entry for ever, and its clock ends before), enrolment of the second factor, Google
  sign-in.
* user-service, alert_service, ml_service, iot-ingestion-service, audit_reporting_service, migrations: planned.
* shipment-service: the role gate (it refuses before anything happens), row-level security (a filter on
  what is found, bypassed by the table owner in the compose deployment), risk scores, the PDF, device
  rotation by an operator (no code does it), timestamps.
* dataset: sums of money, averages, routes, regions; they are arithmetic over the file without control.
* dashboards: the consumer's lookup, which shows a sample; buttons that only call alert().
* reports: the layout of the CSV file. Map: camera, coordinates, colours.
* analytics, profile, risk heatmap: one request or a zoom level, and otherwise rendering.
* mobile-app, infrastructure, the numerical model, cryptographic primitives.

## 7. Plan

1. `PsbtPipeline`: the consumer of escrow.psbt.request, composed with `EscrowService` over the topic:
   amounts, keys, the choice of the output, the response.
2. `EventPipeline` and `AuditSink`: topic routing from producers to ML, alert and audit consumers,
   dead letters, redelivery, the swallowed INSERT.
3. The lockout counter of auth-service; `Migrations`: two runners and one ledger.
4. Abstract specifications of the session (one account signed in or none, and why it ended) and of the
   commitment of leaves, with their refinements by `WebSession` and `MerkleAnchoring`.
5. Smaller: user-service, iot-ingestion-service.
