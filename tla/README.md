# TLA+ verification of then-server (wearlog)

This directory holds TLA+ models of the repository's Go server (`backend`) and
of its web client (`frontend`), the TLC configurations that check them on small
instances, and TLAPS proofs of the properties that matter most. Paths of the
server are relative to `backend/internal`, paths of the client to
`frontend/src`, unless they start with `tla/`.

## 1. Inventory

### Server

Two kinds of process over one PostgreSQL database: the HTTP API and one worker
process (`bootstrap/application.go`), which runs the media/community event
worker, the data-export worker, the account-mail worker and, when a provider is
configured, the generation workers. Redis counts authentication attempts, Kafka
carries outbox events, MinIO stores objects.

| Component | State it keeps | Operations | Talks to |
|---|---|---|---|
| Generation tasks (`application/generation`, `adapter/postgres/generation*.go`) | `generation_jobs` row (status, submission state, lease, fencing token, provider identity), quota reservation, outputs, cleanup requests and targets | accept, cancel, delete; claim/submit/record/observe/publish by workers; expire; reconcile; clean up; retain | provider port, object store, outbox |
| Media assets (`application/media`, `adapter/postgres/media.go`) | `media_assets`, `media_derivations`, `deletion_requests`, consents | create upload, complete, delete, withdraw consent | object store, outbox, sync feed, generation source cleanup |
| Event worker and broker (`application/eventworker`, `adapter/messagequeue`) | outbox, inbox receipts, Kafka offsets | relay, media check, media delete, notification, source sweep | media tables, object store |
| Account (`application/account`, `adapter/postgres/account*.go`) | users, sessions, mail challenges, deletion requests and receipts | register, login, logout, reset, verify, delete account | every owner-scoped table (CASCADE), mail, media and generation cleanup |
| Wardrobe, plans, wear events (`application/{wardrobe,outfitplan,wearevent}`) | one revisioned table each, tombstones, references between them | create (repeatable by id), update, delete, cancel, restore, impact | sync feed, media |
| Data export (`application/dataexport`) | `data_exports` with attempts, lease, object key | create, revoke, claim, complete, fail, cleanup | object store, read snapshot of all owner tables |
| Sync feed (`application/syncchange`, `adapter/postgres/sync_*.go`) | `sync_changes`, per-owner sequence and seed mark | seed, append, unlink, list after cursor | wardrobe, plans, wear events, diary |
| Community, diary, feedback, privacy, profile | rows under revision checks and unique indexes | publish, moderate, follow, block, notify, upsert | outbox |
| Rate limiter, HTTP layer, configuration | one Redis counter; none | count, decode | |

### Web client

One browser page at a time over one query cache (TanStack Query) and one session
cookie. Each page is one event loop: a handler runs to its `await`, the owner
goes on meanwhile, and the reply runs the rest of it.

| Component | State it keeps | Operations | Talks to |
|---|---|---|---|
| Recommendation page (`components/recommendation`) | conditions, request version, candidates and the request they answer, ids kept for saves that have not succeeded | change conditions, recommend, save a card | matching and plans of the server |
| Outfit plan page (`components/outfit-plan`, `lib`, `hooks`) | form, row being edited, `createID`, lists of plans and garments | choose, replace, save, edit, reload, cancel, not worn, restore, delete | plans, wardrobe |
| Wear event page (`components/wear-event`, `lib`, `hooks`) | form, row being corrected, reported duplicates, `createID`, the plan it was opened with | prefill, save, confirm, correct, reload, delete | wear events, plans, wardrobe |
| Wardrobe page (`components/wardrobe`, `lib`, `hooks`) | form with photo files and media ids, upload attempts, deletion under inspection, `createID` | add, edit, photo editing, upload and poll, inspect and delete, samples | wardrobe, media |
| Account pages and session gates (`components/account`, `hooks/account`, the 401 effects of every view) | cached current user, cached lists, draft, cookie | register, log in, log out, edit, delete, redirect | account of the server |
| Fitting room and looks (`components/fitting-room`, `look`, `person`, `hooks/look`) | photo shown, photo dialog with its request counter, object URLs, look draft in `localStorage` | choose and use a photo, take it back, change the view, save the draft | other tabs, through storage events |
| Interface kit, generated bindings | presentation | none that reaches the server | |

### What is hard here

- Every state change of the server is one short transaction under a row lock,
  but a worker's work is several of them with external calls in between; a
  lease, a fencing token and a status revision keep an outlived worker from
  writing.
- The generation provider may accept a request whose reply is lost, and late.
- Workers crash between any two steps; outbox events are published at least
  once; offsets are committed after the handler.
- Owner actions (cancel, delete, withdraw, delete account) race all of this, and
  deadlines, retry windows and lease times race late answers.
- A reply reaches a page that has moved on: other conditions, another row in the
  form, another account.
- A create whose reply is lost may have been carried out, may be carried out
  later, or never; the page retries with the same id and other content.
- Two devices of one account edit the same rows; a page saves what it read.
- A photo goes through five requests and a poll, each of which may fail, while
  the photo in the form may be cropped or replaced.
- A photo is decoded while its dialog is closed, reopened or given another file,
  and its object URL has to be revoked on each of these paths, once.
- Tabs share one draft, an older brand's entry beside it, and storage may refuse.

What makes each component correct is stated by the properties of its module;
`tla/PROJECT.json` lists the hazards at their lines, with the properties that
cover them and those that none covers.

## 2. Modules and plan

| Module | Models | Instance | Proofs |
|---|---|---|---|
| `GenerationTask` | the task row and its mutations | | |
| `GenerationWorkers` | workers, owner, deadline, administrator, faults over it | `MCGenerationWorkers` | `GenerationWorkers_proofs` |
| `GenerationLifecycle` | what the owner is promised (abstract) | refined by `GenerationWorkers` | |
| `MediaPipeline` | assets, outbox, broker, consumers, object store, erasure | `MCMediaPipeline` | `MediaPipeline_proofs` |
| `RecommendationView` | recommendation page and the rows it reads and makes | `MCRecommendationView` | `RecommendationView_proofs` |
| `OutfitPlanView` | plan page and the plans' handlers | `MCOutfitPlanView` | `OutfitPlanView_proofs` |
| `WearEventView` | wear event page, events' handlers, one plan | `MCWearEventView` | `WearEventView_proofs` |
| `WardrobeView` | wardrobe page, items' and media handlers | `MCWardrobeView` | `WardrobeView_proofs` |
| `AccountSession` | account pages, gates, query cache, cookie, sessions | `MCAccountSession` | `AccountSession_proofs` |
| `LookDraft` | the draft in `localStorage`, the tabs that read it, the dialog that saves it | part of `FittingRoom` | |
| `FittingRoom` | the fitting room and its photo dialog, composed with `LookDraft` | `MCFittingRoom` | `FittingRoom_proofs` |

The pages are separate modules because they are separate in the program: only
one is open, they share nothing but the cache and the cookie, and those two are
`AccountSession`. In the page modules the session stays; what every page
does when it ends (clear the cache, go to the login) is `AccountSession`. Each
page is composed with the part of the server it calls, in the same module: the
server's handlers are operators there (`Accepted`, `CarryOut`), because what is
hard is the order of their effects and of the page's.

Next, in this order: generation outputs and cleanup (targets, lease, retention
sweep), generation admission as an abstract quota ledger, data export, the sync
feed (replaying it reproduces the tables). Every safety property of the passing
runs is a theorem; what is left to TLC is liveness. Theorems next: the invariants
of those modules, and `TypeOK` of the four pages that do not have it yet.

## 3. The generation core

`GenerationTask` translates the domain methods of `model.go`, `lease.go`,
`settlement.go` and `reservation.go`: `MayX(t, ...)` is the method's guard and
`X(t, ...)` the row it returns. `GenerationWorkers` composes them. Its variables:

| Variable | Code |
|---|---|
| `task` | the `generation_jobs` row |
| `hold` | state of its `generation_quota_reservations` row |
| `overdue` | `TaskProcessingExpired` would answer yes |
| `remote` | states of the provider tasks created for this row, in order |
| `travelling` | submit requests still on their way although nobody waits for the reply |
| `worker` | per worker: the next step of its `RunNext`, the token of its claim, the cancellation seen in the claim's snapshot, the provider reply it acts on |
| `admin` | revision, attempt and evidence the administrator read |
| `budget` | what is left of the environment's detours |

One action is one transaction or one provider call; a worker is a sequence of
them (`step`), so every other actor may run in between. A refused transaction
makes the worker return, as the Go code does on error, leaving the lease to run
out. A canceled snapshot leads to a second query after `provider.Cancel`.

Abstractions, each chosen because no property looks past it:

- time is three facts: a lease is held or lapsed, a retry window is open or not,
  the deadline is reached or not; each moves by an action of its own;
- `leaseAttempt` moves with `fencingToken`, so one counter stands for both;
- storing and inventorying an output is the outcome of `Publish`; the refused
  publication leaves the stored version to cleanup, which is not modelled;
- expiry and deletion revoke the row; the cleanup request they open is left out.

`GenerationLifecycle` says what the owner may rely on: status moves forward,
the hold is settled with the task, the provider is asked only while the task is
active and not withdrawn, one request at a time and never again after it
created a task, a result is published only from that provider task, and every
task ends. `GenerationWorkers` implements it under the mapping in
`GenerationWorkers!Lifecycle`; that its steps do is proved for any number of
workers (section 7).

### Fairness

`Fairness` asks for three things. A worker that holds a claim takes its next
step (each provider call has `ProviderTimeout`; each transaction ends). The
timeout worker's poll expires an overdue task it may expire, and time passes:
leases lapse and the deadline comes. Nothing is assumed of claims, of the
owner, of the administrator or of the provider.

### Runs

| Run | Bounds | Shows |
|---|---|---|
| `workers_safety` | 2 workers, 2 attempts, 2 detours | the safety and action properties, and that a task is submitted once more than allowed for each detour at most |
| `workers_fair` | 2 workers, 2 attempts, 1 detour, no symmetry | refinement of `GenerationLifecycle`, progress included: every task ends and its quota with it, deleted ones too |

Two workers are enough for a takeover: one holds the old claim, the other the
new one. Two attempts are enough for a retry after a refusal. A detour is a
crash, an error of a provider call, a lease that lapses under a live worker or
one more poll of a running provider task; two of them allow a crash after a
takeover. Lost replies, refusals, late acceptances, cancellations, deletions and
the deadline cost nothing and are always possible. `CHECK_DEADLOCK FALSE` is
there because a settled task whose owner is done really has nothing left to do.

## 4. The media pipeline

`MediaPipeline` follows one private image from the upload intent to its
erasure. One action is one repository transaction, one object store call or one
broker call.

| Variable | Code |
|---|---|
| `media` | `media_assets` row, with the derivation and the deletion request that hang on it; `gone` once the user row is deleted |
| `outbox`, `inbox` | `outbox_events` by type and aggregate; `inbox_receipts` of the two handlers |
| `topic`, `offset`, `assigned` | the single partition of each topic, what its group committed, the process it is assigned to |
| `raw`, `puts`, `url`, `derived` | versions under the source key, the presigned URL, the normalised images |
| `account`, `tasks` | users row; whether a generation cleanup of the account is still open |
| `relay`, `check`, `erase`, `sweep` | where each process is: between publish and mark, in `checkMedia`, in `deleteMedia`, in `cleanupSources` |
| `budget` | faults left |

`Fault` names what may go wrong: a crash, an object store call that fails after
doing all, some or none of its work, a transaction that ends uncommitted on an
error or a deadline (`dbError`; it is a fault of the transactions that complete
something, because one that would begin something leaves everything as it was),
a commit whose reply is lost, a consumer
group that gives a topic away while its handler is alive. `latePut` lets the
client use a valid URL again after completing or deleting the asset. An error
that ends a goroutine ends its process (`Runner.Run`); processes are started
again. `README.md` and `docker-compose.yml` of the repository leave the restart
to the operator; a worker that is never started again obviously completes
nothing.

Abstractions: an uploaded version either passes the check or does not
(`valid`); the key of the normalised image is settled by purpose and content
type (`form`); avatar sources and generation inputs are both `personal` and
consent is one flag of the asset; time is `url` and the order of actions. The
sweep's one-day and one-minute delays become guards: an unfinished upload waits
for its URL, and a deleted asset for the check attempts that were running
(30 s each). The retry of a handler, within the process or by the next one, is
the handler starting over.

### Runs

| Run | Bounds | Shows |
|---|---|---|
| `media_safety` | 1 wardrobe photo, 2 processes, 2 uploads through its URL, 1 fault, any kind but lost replies, account kept | ready images exist, needed sources exist |
| `media_fair` | 1 asset of 2 kinds, 1 process, 1 fault (crash, store error, failed transaction, lost reply), account may go | uploads are decided, deletions and account deletions complete and are final |
| `media_erasure` | 1 asset of any kind, 1 process, 1 fault as above, 2 uploads through the URL, account kept | a deleted image leaves nothing, every record is handled |

One asset is enough because the code relates two of them only when it counts
what an account still has; a topic of two records of the same asset already has
a record behind another. Two processes are there to have the same record
handled twice at once, which one process never does. Each fault can hit any
step, the recovery from a handler's error included. `media_safety` takes one
fault because two of them, a failed transaction and a topic that moves, refute
`ReadyIsReadable` (section 8); its 7.9 million states take about three minutes.
`latePut` is in `media_safety` only, with the second upload its use needs:
section 8 says what it does to the erasure.
`CHECK_DEADLOCK FALSE`: everything may be erased and the owner gone.

### Fairness

Each process's relay, handlers and sweep take their next step: every call has a
timeout, tickers tick, and processes are restarted. URLs expire and the
generation cleanup of a deleted account ends (its worker retries). Nothing is
assumed of the owner.

## 5. The pages

Common to the four page modules:

- `op` is the request the page awaits (the view's `pending`), with what the
  handler captured before the `await`: the row it was asked for (`base`), the
  fields it sends, and `fate`, what the server has made of it so far. `Handle`
  is the server's handler, `ReplyShown` the rest of the page's handler after a
  reply, `ReplyFails` its `catch`.
- A request may be carried out and its reply lost, may be given up and arrive
  later (`late`, `Arrive`), or never. Each lost or late one costs a disturbance.
- `...Elsewhere` is the same account on another device: it moves a row's
  revision, archives or deletes a garment, by either policy for its history
  (`RedactSnapshots`, `DeleteAffectedHistory`), or changes a plan or an event. It
  costs a disturbance too.
- The lists a form chooses from are loaded by pages, newest first, and read again
  as far as they were (`RefetchItems`, `Refetch`). What was added elsewhere pushes
  a loaded row off the last page, at the price of a disturbance; what is gone
  makes room for others. So a selected garment, or the plan of an event, may be
  out of sight although the owner still has it.
- `form.from`, `tried` and the like are history variables: nothing in the code,
  read only by the properties.
- `nextID` is what `crypto.randomUUID` returns next: never an id used before.
- A repeated create is accepted if an item, a plan or an event of that id has
  the same content, refused if it has another or was deleted; an update or a
  deletion is refused unless `expected_revision` is the row's.

### 5.1 Recommendation (`RecommendationView`)

`conditions`, `version`, `pending`, `result`, `submitted` are the view's state of
those names; `asked` are all recommendation requests in flight, answered in any
order (`ShowResult`, `RecommendFails`), each comparing its `version` with
`requestVersion.current`. `planIDs` keeps the id of a card until its save has
succeeded. Candidates carry the revisions their items had when the server read
them, so an edit elsewhere makes a save fail. The order of the candidates and
their explanations are left out.

### 5.2 Plans (`OutfitPlanView`)

`form`, `editing`, `createID`, `list`, `shown` are the view's. `ReplaceGarment`
is the selection by category (`lib/outfit-plan`), with selections that are not
loaded kept as they are: the code knows no category of theirs. `form.away`, a
history variable, remembers those that dropped out while the owner had them. `Ask` builds one request; `RunAction` is cancel, not
worn and delete behind their dialog; `ReloadEditing` is the way out of a
conflict. The server's side includes the fingerprint comparison, tombstones and
the status of a plan. Time zone and note are left out.

### 5.3 Wear events (`WearEventView`)

Adds the plan the page was opened with (`linked`, `prefill`, `plansShown`), the
source of an event, the duplicates the server reports for a day (`duplicate`,
`Candidates`), and the recomputation of a plan's state from the events that are
linked to it (`Recomputed`) by every create, correction, deletion and redaction.
One plan stands for all of them, because an event is linked to one plan and no
handler compares two. `Recorded` says why the event on record was worn: it may be
linked to the plan from the start, and the plan need not be loaded
(`plansShown`). Then neither the page (`followedPlanError`) nor the server
(`PlanAccepted`) compares garments; `compared`, a history variable of the
event, says whether the page did.

### 5.4 Wardrobe (`WardrobeView`)

`form` has the item's fields as one content, the photo chosen or processed
(`file`), the photo it was made from (`originalFile`) and the media ids of both.
`Save` runs the hook's steps: for each of original and photo `Upload` (create
the upload, or reuse the attempt), `PutDone`, `complete`, the poll
(`PollReady`, `PollFails`), then `Write`. `CheckMedia` is the event worker,
seen from here: it decides at any time, or never. `InspectDelete` and `Remove` send
the digest of the impact the owner was shown.

### 5.5 Fitting room (`FittingRoom`, `LookDraft`)

It talks to no server, so nothing of the above applies but the event loop.
`person` is the photo dialog's state and `sequence` its counter; a decode in
`checks` carries the request it was begun for, ends in any order (`Decoded`,
`DecodeFails`) and is compared with the counter only then. `live` are the object
URLs the browser still keeps. An effect that revokes a URL runs with the state
change that replaces it, because no other handler runs in between. `wanted` is a
history variable. `LookDraft` has per tab the entry it read last (`shown`) and a
storage event on its way (`notified`, one for several, since its handler reads
the entry anew); writing and removing an entry may fail. The two meet in `view`,
which decides which dialog there is, and in the tab `Here`. Two drafts, two tabs
and `MaxSteps` owner's actions, shared by both halves, bound the run: ten are
choosing three files with the dialog closed and opened between them, and a draft
typed and saved in each tab. Left out: the sample garments and their search, the
comparison's toggles, reloading a picture.

### Runs

| Run | Bounds | Shows |
|---|---|---|
| `recommendation` | an outfit of 2 items and one of 1, 3 versions, 2 ids, 3 disturbances | answers match conditions; one plan per card |
| `plan` | a top and a dress (second page, in the laundry), 2 days, 3 ids, 3 requests, 1 disturbance | one plan per draft, one outfit of what stays loaded, no blind overwrite |
| `wear` | a shirt and a coat, an event worn by the plan, the plan loaded or not, 2 days, opened with and without a plan, 2 form changes, 3 ids, 2 requests, 1 disturbance | one event per draft, the plan follows its events, an event compared with its plan has its garments, confirmations are of what was reported, no blind overwrite |
| `wardrobe` | 2 contents, 2 photos, 4 media rows, 2 samples, 1 item besides, 2 requests, 1 disturbance | the photo saved is the photo chosen, its original uncut, nothing uploaded or created twice |
| `fitting_room` | 2 tabs, 2 drafts and none, 10 actions of the owner | the photo used is the one chosen last, object URLs live as long as they are needed, every tab shows the draft saved last |
| `wardrobe_retry` | as `wardrobe` | a violation, see section 8 |

Why these are enough: a hazard here needs one disturbance (a lost or late
request, an edit elsewhere) and the owner's next request after it. Two requests
are a save and its retry, or a deletion and a create; the plan page has three,
which adds a plan deleted between them; three ids give each draft its own. One
request a lost reply leaves behind is enough, since `late` requests only meet
through the row's revision. Two garments that exclude each other, or two outfits, make a
conflict; a garment on the second page makes a selection that is not
loaded. Two changes of the wear form are a garment and a source, or a garment
taken out of a correction and a date; `wear` has 7.6 million states and takes about
three minutes, `plan` 2.3 million and one. Two photos are one chosen and one made of it, or a replacement.

The runs of the pages are about safety and have no fairness. Deadlock is not
checked: the bounds of the owner's requests end a run.

## 6. The browser's session (`AccountSession`)

| Variable | Code |
|---|---|
| `page` | the route; `auth` stands for login and registration, `private` for every view behind a session |
| `me`, `read` | `useCurrentUser`: row and error; the request awaited |
| `lists`, `listing` | whose private lists the query cache holds; the request awaited |
| `draft` | what the account form keeps under `userKey` (id and revision) |
| `op`, `orphans` | the mutation the page waits for; those whose page was left |
| `ghosts` | reads dropped by `queryClient.clear()` whose reply still sets a cookie |
| `cookie`, `issued`, `live`, `users` | the token sent; server: owner of each token, live tokens, account rows |

`AlreadyIn` and `SessionLost` are the effects that redirect. `ReplyShown` has
one branch per handler and status (`SignedIn`, `Saved`, `LoggedOut`, `Removed`,
`TurnedAway`, `LogoutRefused`), and runs also for orphans: their handler still
writes the cache and the address. A 401 reply expires the cookie before any
handler sees it (`Expired`).

Registering makes an account under a new id, also for the e-mail of a deleted one
(`Unused`); the server compares a change with the revision of the session's own
account (`Change`).

The run `account` has one account and one that may be registered, one more visit
of a page, three requests and one disturbance: log out, register, save is three;
a session ended elsewhere is the disturbance. `NavigationSettles` assumes that
effects run and that a request ends with a reply or an error of the connection
(`lib/api/request.ts` sets no timeout, so this is an assumption about the browser
and the server, whose handlers are bounded), and nothing of the owner.

## 7. What is proved

Every theorem holds for all values of the constants that meet the named
assumptions of its module: any number of workers, attempts, faults, assets,
processes, garments, photos, tabs, ids, requests and disturbances. The assumptions say that bounds are
natural numbers, that sets of inputs are subsets of what they choose from, and
that `None` is none of the values it is told from.

**Generation.** `TypeCorrect`; `NeverBilledTwice`, `ResubmissionIsSafe`,
`QuotaIsSettledWithTask`. `AtMostOneRemoteTask` is not inductive: a worker about
to send could send into a state that already has a provider task. The invariant
`OneRequest` adds who may still cause an effect. A worker has the request *in
hand* from the commit of `BeginSubmission` until the row says what became of it
(steps `submit`, `refused`, `reconcile`). While one has it, nothing is outside
and nobody else has it; while the row is active and `not_started`, nobody has it
and nothing is outside. Whether that worker still owns the lease does not enter
the argument, which is why an outlived worker does no harm. The three action
properties (`StaleWorkerChangesNothingAlways`, `CanceledIsNeverSubmittedAlways`,
`ReconciledOnCurrentEvidenceAlways`) rest on fencing: every transaction shows
the token of its claim, tokens only grow, and the revision moves with every
attempt.

`WorkersKeepTheLifecycle` is the step part of the refinement: the initial states
map to initial states of `GenerationLifecycle`, and each step of owner, worker,
administrator, clock or provider maps to one of its steps or to a stutter. The
mapping lets the abstract provider be *asked* while a worker stands at `submit`
or a request is on its way. Besides `OneRequest` it
rests on `Validated`: a row in validation has a provider identity, so that
whatever is delivered was billed. The model's bounds and detours do not matter
to it.

`ExtraAttemptsCostDetours`, the theorem of `SubmissionsAreBounded`, says how far
the finding `AttemptsWithinLimit` of section 8 goes: `submissionAttempt` exceeds `MaxAttempts` by the number of
detours spent at most (a crash, a lease its holder outlives), so without one the
limit the repository's test states does hold. The invariant `Attempts` says when
a row may be submitted although its attempts are used up: only while the holder
of the newest claim is about to apply the limit (steps `schedule`, `exhausted`),
or after a detour was paid for that nothing was submitted for yet. `Claims`
makes that holder unique: no two workers carry the same token and none a token
the row has not issued. `HoldFollowsStatus` is needed as well: it is why the
settlement at `exhausted` is not refused.

**Media.** `MediaInv` is the invariant of all four theorems. Its first half is
`TypeOK` with `Handling`: a handler whose process still holds the topic works on
the record the group has not committed. Its second half, `LifeInv`, keeps
everything that acts later behind the row it is about: an event that was ever
written, at the relay or in a topic, has its row at least as far as the
transaction that wrote it left it (`EventsAreDue`); a handler under way is about
an asset whose check, or deletion, has begun (`HandlersAreDue`); a sweep under
way is about a source nobody needs, now or later (`SweepsAreDue`); an account is
gone only with all its rows (`AccountLast`). `RowMoves` says where a row may go
from each status, whoever acts; `DeletionIsFinal` is read off it.
`SourceIsKeptAlways` adds that only unneeded sources shrink. Both hold with every
fault of the model. `ReadyIsReadableAlways` rests on `ImagesInPlace`: an attempt
that is about to record an image has stored it, unless the asset is rejected or
on its way out or its one attempt is taking the image back (`TakenBack`), and an
attempt that takes its image back is about such an asset. Its assumption
`AttemptsAgree` is what section 8 shows to be needed: `lostReply` does not happen,
and not both `dbError` and `rebalance`. Without `rebalance` a topic stays with its
process, so no two attempts are at one asset, and none that has not recorded yet
is at a ready one (`OneAttempt`): what a failed transaction makes it take back is
an image no row names. Without `dbError` an image is only taken back after a
refusal, and then no row will name it. `AccountGoneIsErasedAlways` rests on `SourcesErased`: an erasure past its
first step has left no source, and a deleted row has none; it assumes that
`latePut` does not happen.

**Recommendation.** `RequestInv`: every request in flight carries a version up
to the current one, and the one that carries it is the one `pending` is about.
`OneIDPerCard`: ids tried for a card are the one kept for it.

**Plans and wear events.** `OnePlanPerDraft` and `OneEventPerDraft` rest on ids
being fresh: what was tried for the draft in the form is `createID` alone, and
everything that carries an id, on its way or stored, is below `nextID`.
`NothingIsOverwrittenUnseen` is the statement that a revision names one content
for ever, and that a form goes out as a change of the row it was filled from. `ServerInv`, `Known` and `PageInv` say it of the server, of every
place the page keeps a row in, and of the step: a row the page holds has either
the very content the server has under that revision, or a smaller revision.
`PlanFollowsEventsAlways` adds which plan each revision was.

For plans the second part is a conjunct of the page's invariant. On the wear page
it holds while no plan is being read for the form; the theorem says so
(`prefill`), and the case that is left out is the finding
`CorrectionsAreOfTheirRow` of section 8.

`LoadedIsOneOutfitAlways` needs the types (`OutfitPlanView!TypeCorrect`; that is
where `NoneAssumption` comes from: `None` is neither an id nor a stored
operation). Its invariant says that of the selections that are loaded and never
dropped out (`away`) no two conflict, and that a selection that is neither is gone
from the wardrobe. The second half is what makes the first enough: a selection
that was not loaded would be compared with nothing, and `save` refuses one that is
gone. That no two categories are the same becomes a count of categories, as
`Exclusive` states it, because the map from garments to categories is injective.

`ConfirmsWhatWasReportedAlways`: as long as something is reported, the form either
says what it was reported for or selects nothing, and then nothing can be sent
(`ConfirmInv`). The second case is real: the plan is found deleted while the
report is shown, and the form is emptied under it.

`FollowedIsTheListedPlanAlways` compares an event with a plan row that is gone by
the time they are compared, so the invariant is about the past: `planned` holds
what the plan was at each revision; every row of the plan, shown or stored, was
the plan (`HistoryInv`), and has the garments of every revision an event names
(`Agrees`: a plan with an event cannot be edited). `FollowInv` adds that what the
page holds names no later revision than the row it compares with, and that a
request under way that was compared has the garments of a revision at least as
late as the one it names. So when the server finds that revision current, the
garments are those. The server also accepts a correction that keeps its link
(`PlanAccepted`), current or not; `Agrees` covers that: the plan row shown has the
garments of every revision an event names, because a plan with an event is
completed and no longer edited.

**Wardrobe.** `UncutInv` follows a photo from the input through crops, uploads
and media rows: every file that stands as an original, in the form, in the
request under way or in an item, is a chosen one. `OneID` and `ServerInv` with
`PageInv` are the same arguments as for plans, the samples with their known ids
included; a deletion carries in addition the digest it was shown.
`SavedPhotoIsTheChosenOneAlways` and `UploadedOnceAlways` share `PhotoInv`: a media
id in the form stores the form's original; an upload brings the form's original,
or the photo shown when its original is stored already (`Brings`); what is
completed, or asked to be, is remembered under its photo in `attempts`
(`CompletedInv`). Two media of one photo that are both completed would be two
entries of one function.

**Account.** `SessionInv`: whoever a list or a read of it on its way belongs to
is the owner of the token it was asked with, and a clear drops every one that is
not of the new session. `AccountInv` adds the types (`AccountSession!TypeCorrect`),
that a live session is of an account that exists, and that every row the browser
holds (in the cache, in a reply, in a draft, in a request) is of an earlier
revision than the stored one or is that very row (`Seen`); it is kept because an
id is never given to a second account (`Grows`). `DraftIsOfTheRowReplacedAlways`
follows: a form goes out under the revision of the row it was begun from, so when
the server finds that revision current, that row is what it replaces.

**Fitting room.** `DraftInv`: a tab shows the very entry unless it is still to
hear of it, and the entry is the draft last reported as saved. `PhotoInv` says
what a decode stands for: no two are of one file, none is of the file that can
be used, and the current one, if there is any, is of the file chosen last, in an
open dialog that has no photo yet. That is why an answer may be taken over by
comparing a counter alone, and why revoking one URL never takes another's.

Only model-checked: liveness (fairness is out of TLAPS's reach), that is the
progress of the refinement, `UploadIsDecided`,
`DeletionCompletes`, `AccountDeletionCompletes`, `ErasedLeavesNothing`,
`EveryRecordIsHandled` (both without some of the faults, section 8) and
`NavigationSettles`. `TypeOK` of `RecommendationView`,
`WardrobeView`, `WearEventView` and `FittingRoom` documents the shape of their
state and is not among the runs' properties; what a proof needs of it is a
conjunct of the invariants above. `TypeOK` of `OutfitPlanView`, `AccountSession`
and `MediaPipeline` (`MediaTypeCorrect`) is not either: it is proved.

## 8. Findings

Kept as a run:

- `wardrobe_retry`: the page says that a photo whose check took too long will be
  used by the next save (`hooks/wardrobe/use-wardrobe-photo.ts:87`); the next
  save completes the same upload again, which the server refuses once the photo
  is ready, so it can never be saved.

Shown by TLC with a property that is stated in its module, not kept as runs:

- `AttemptsWithinLimit` (`GenerationWorkers`): the retry limit is checked in the
  transaction after the one that makes the row submittable again, so a worker
  that dies between the two lets the provider be asked once more than
  `RetryPolicy` allows. It is once per fault: `SubmissionsAreBounded`.
- `ListedUnknownIsActionable` (`GenerationWorkers`): a submission that is unknown
  when the deadline passes stays on the administrators' list although no
  decision on it is accepted any more.
- `EveryRecordIsHandled` (`MediaPipeline`) with the account deleted: a
  media-check record whose account is gone blocks its topic.
- `ErasedLeavesNothing` (`MediaPipeline`) with the account deleted: a check
  stores its image after the account's deletion swept the keys and dies; the row
  the second sweep would find it by is gone. Two more ways to the same end: a
  version uploaded after the sweep of a deleted asset (`latePut`), and a PNG
  stored by a failed check of an asset that is then rejected and swept before it
  is deleted (two faults).
- `ReadyIsReadable` (`MediaPipeline`) with lost replies: an image is taken back
  although the transaction that recorded it was committed. Without lost replies,
  with two faults: one attempt's recording fails, the topic moves to another
  process, which stores the image under the same key; the first attempt deletes
  all versions of that key (`worker.go:202-206`) and the second records the
  image, or has recorded it already. The row is ready and its image is gone.
- `DraftIsOneOutfit` (`OutfitPlanView`): a top is chosen, garments added elsewhere
  push it off the loaded pages, a dress is chosen (`replaceGarment` has no category
  for the top and keeps it), the top is loaded again and the plan is saved with
  both, where `lib/outfit-plan/selection.ts:4` says that "a one-piece and separates
  are mutually exclusive in this flat-lay editor".
- `FollowedIsThePlan` (`WearEventView`): an event worn by a plan is corrected while
  the plan is not among those loaded. The page compares garments only with a loaded
  plan (`wear-event-view.tsx:302-317`) and the server never does
  (`validateWearSourcePlan`), so the event still says that the plan was followed and
  has other garments than the plan had.
- `CorrectionsAreOfTheirRow` (`WearEventView`): a page that was opened with a plan
  offers its list of events before the plan has been read. Reading it fills the form
  (`wear-event-view.tsx:129-153`) while the event chosen meanwhile stays the one
  being corrected, so saving puts the plan's content into that event.
- `LinkLeadsToThePlan` (`WearEventView`): deleting a garment together with the
  history it is in (`adapter/postgres/wardrobe.go:318-355`) deletes its plans but
  does not unlink their events, as `DeleteOutfitPlan` does; an event worn by such a
  plan without that garment keeps a link that leads nowhere.
- `RetryIsAcknowledged` (`WearEventView`, three requests): the owner confirms
  the similar events reported, the event is recorded and the reply lost. The page
  has dropped the confirmation by then, so the same draft saved again says less
  than the first request did and is refused as another operation under the same
  id, where `docs/requirement/04` (section 6, line 144) has a retry return the
  event.
- `LogoutClears` (`AccountSession`): a logout whose session is gone already, ended
  elsewhere or by an earlier logout whose reply was lost, is answered 401; unlike
  `save` and `remove`, `logout` (`account-view.tsx:117`) has no branch for it and
  keeps the account's data, where `PROJECT.md:128` has the cache cleared.
- `CheckingIsTrue` (`FittingRoom`): a file that is refused while an earlier one is
  decoded outdates that decode without ending `checking`
  (`person-photo-dialog.tsx:52, 70`), so the button says that a photo is checked
  until another one is chosen or the dialog is closed.
- `LeavingReleasesPhotos` (`FittingRoom`): leaving the page does not outdate the
  decode under way; its object URL is neither shown nor revoked.
- `MeIsOfTheSession` (`AccountSession`): a change of the account that is
  answered after its page was left and another account signed in puts the first
  account's row into the cache of the second.
- `SavedToItsAccount` (`AccountSession`, four requests, two visits and two
  disturbances, 18 steps): from there, a form filled with the first account's
  fields can be saved into the second, if the two are at the same revision: the
  request names a revision and no account. `DraftIsOfTheRowReplaced` is therefore
  stated of forms that go to the account they were begun from.

## 9. Not modelled

- Generation outputs and cleanup, admission, data export: leases and rows of
  their own; the leases' discipline is that of `GenerationWorkers`.
- Sync feed: its order is that of the database's transactions, which the models
  take for granted.
- Community, diary and feedback, privacy declarations, profile: no client in the
  tree calls most of them; single rows under revision checks, as the plans' are.
- Mail challenges and the list of sessions; the receipt's token.
- Rate limiter: one atomic Redis script. HTTP layer, configuration, schema
  creation and SMTP keep no state whose order matters.
- Picking and searching the sample garments of the fitting room, the toggles of
  the comparison. Interface kit, layouts and generated bindings: presentation.
- `RenewLease` of the generation tasks: only its tests call it.
- Inside the modelled parts: wording and layout; the filters of the lists and the
  statistics, which only choose what is shown; time zones; the pixels a crop makes.
  Of paging, what matters is modelled where a form chooses from a list (section 5);
  which rows the list of plans or events itself shows is not, nor the wardrobe
  page's, whose handlers only act on a row that is there.
