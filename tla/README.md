# AEGIBIT Flow backend: specification and proofs

The repository is the backend of a car dealership: organizations upload price
lists, salespeople create deals, and deals that give too much away wait for a
general manager (GM) or a director. It is one FastAPI process over PostgreSQL.
This directory holds TLA+ modules of its core, the TLC runs that check them on
small instances, and TLAPS proofs of the most important facts for every value of
the constants.

## 1. The system

### How it runs

`run.py` starts one uvicorn process. Two kinds of handler matter to the models.

* `async def` handlers (create, approve, reject, delete, restore, uploads) are
  coroutines of one event loop. None of the deal handlers awaits between its
  first query and its commit, so each is atomic up to its commit; what follows
  (notifications, broadcasts) interleaves with other handlers at every `await`.
* `def` handlers (OTP, dashboard, lists, accounts, branches) run in a pool of threads and
  interleave with everything, statement by statement, at READ COMMITTED.

A request has one session, with autoflush off (`database.py:55`).

### Components

| component | state | operations | hard behaviour | what makes it correct |
|---|---|---|---|---|
| deal workflow (`deal_service.py`, `task_service.py`) | deals, tasks, deal_events | create, approve GM, approve director, reject, delete, restore | any order of legal calls; rows that come back from the trash | one verdict, the right signature, exactly one queue per waiting deal |
| fraud rules (`verification_service.py`) | fraud_audit_logs | check at creation and again at the director's approval | windows, off-by-one, deleted deals | limits hold in every window |
| pricing engine, profit guard | none | price breakdown, routing decision | boundaries, overlapping rules | routing follows the limits |
| price list (`excel_ingestion.py`) | car_models | upload, lookup, preview | batch swap, column mapping, fallbacks | one active batch per organization, all or nothing |
| secure OTP (`otp_service_secure.py`) | otp_verifications | send, verify, check | threads between two statements, lost updates | a verification lasts; the newest code works |
| audit chain (`audit_service.py`) | audit_logs | append, verify | a failure or a crash between two statements, triggers that refuse one of them | one chain per organization; the log tells what became of a deal |
| live updates (`websocket_manager.py`, `notification_service.py`) | connections, notifications | connect, broadcast, heartbeat, read | a loop that awaits over a live dictionary, whose keys may move | every event reaches every connection that stays, and once |
| dashboard cache (`routes/dashboard.py`) | dict in memory | summary, invalidate | a computation begun before a commit and stored after its eviction; a dictionary that grows while its keys are listed; handlers that evict nothing | what is served is right, unless a change passed it by, and then not for ever |
| accounts, branches (`auth.py`, `routes/auth.py`, `routes/branches.py`) | users, organizations, branches, tokens held by clients | login, create, toggle, switch organization, create branch | a token of another organization; two creations or toggles at once | organizations stay apart, an active administrator, head offices |
| legacy OTP by email (`email_otp_service.py`) | the same rows of otp_verifications | send, verify | writes under the newer service, without a cooldown | the newer service's promises hold beside it |
| legacy OTP by SMS (`verification_service.py`) | phone_verifications, customers | send, verify | as above | not consulted by deals any more |
| start-up (`main.py`, `database_migrations.py`, `seed.py`) | the schema, the seeds | wait, migrate, create tables, seed | kills between two steps, two processes at once, errors that are skipped | phones stay guarded, a restart repairs, every process comes to serve |
| recovery and audit endpoints (`routes/admin.py`) | none of their own | restore in bulk, verify the chain, lists | the guard refuses everybody, so none is reached | |
| middleware, email, schemas, scripts | none | | | |

`PROJECT.json` lists each with its files and what is modelled of it.

### Interaction

Every component reaches the others through tables of one database. `create_deal`
asks OTP verification whether the phone is verified and the fraud rules whether it may be used,
the price list for a row, the pricing engine for a price and the profit guard for a decision; it writes the deal, an event and
a task in one transaction, then invalidates the dashboard cache and notifies.

## 2. The modules

| module | stands for | state |
|---|---|---|
| `Pricing` | `pricing_engine.py`, `profit_guard.py`: pure operators under the code's names | none |
| `ApprovalAuthority` | what the approval workflow promises: one final verdict; above the director limit only a director approves | verdict, above, signedBy |
| `DealWorkflow` | `deal_service.py` with tasks, events, fraud rules and the phone index; implements `ApprovalAuthority` | one function per column: status, approval_stage, is_deleted; pending tasks per role; events and audit kinds; verified phones; clock |
| `DealWorkflowProofs` | theorems about it | |
| `PriceBook` | `excel_ingestion.py`, the lookups of `deal_service.py`, preview and pricing of a deal | car_models rows, last answer |
| `PricingProofs` | theorems about the two engines and the price lists | |
| `OtpVerification` | `otp_service_secure.py` and `email_otp_service.py` over one table, one action per statement of a thread | code rows in commit order, the request of each thread, clock |
| `OtpVerificationProofs` | theorems about it | |
| `LiveUpdates` | `websocket_manager.py`, `routes/websocket.py` and the announcing end of every request (`notification_service.py`), one action per `await` | the slots and the storage of the dictionary of connections, what became of each socket, rounds since its last pong, the heartbeat task, the broadcast of each request |
| `LiveUpdatesProofs` | theorems about the heartbeat and the iterator of the broadcasts | |
| `AuditChain` | `audit_service.py` inside the transactions of its callers (`deal_service.py`, delete and restore), one action per statement, each of which may fail or be the last of the process, and the triggers of `db_hardening.sql` | committed is_deleted, audit rows in the order of created_at with their links, the transaction under way |
| `AuditChainProofs` | theorems about it | |
| `Accounts` | `auth.py`, `routes/auth.py`, `routes/branches.py`, from the state `seed.py` leaves; a check and its commit are two steps | users by email, branches in commit order, the tokens clients hold, the request of each thread |
| `AccountsProofs` | theorems about it | |
| `Startup` | the start of a process (`main.py`, `database_migrations.py`, `seed.py`), a look and the statement that relies on it being two steps, beside the deals of one phone | place of each process, objects of the schema, what is seeded, deals of the phone |
| `StartupProofs` | theorems about it | |
| `Dashboard` | the cache of `routes/dashboard.py`, its threads and the commits and evictions of the handlers | deals as a summary counts them, entries by key with their age, the computation of each thread, the eviction under way |
| `DashboardProofs` | theorems about what is served | |
| `MC...` | instances for TLC | |

`DealWorkflow` and `PriceBook` extend `Pricing`; `DealWorkflow` sees OTP
verification as one action that makes a phone verified for good, which is what
`OtpVerification` checks under the name `VerificationLasts`. `TakePhone` and
`FreePhone` there stand for the deal handlers.
`AuditChain` looks inside the deletions and restorations that `DealWorkflow`
takes as one step each. Rows have a predecessor instead of a hash, which says the same as long as SHA-256
does not collide. The loop runs one such transaction at a time, the service being one process; the clock behind `created_at` is taken not to go back.
The third writer of the log, the bulk restore of `routes/admin.py`, is in no module: the guard of that
file admits nobody (section 6), so that neither it nor the endpoint over `verify_chain` ever runs. What the
link check of `verify_chain` expects of a row is `ExpectedPrev`.
`Startup` shows where the index comes from on which `IndexAccepts` in `DealWorkflow` relies,
and on which state of the schema it is missing. `Dashboard` takes a commit of `DealWorkflow` or
`AuditChain` as one step and looks at what happens to the cache before and after it.
`LiveUpdates` begins where `DealWorkflow` ends: a request of it has committed,
and `Announced` lists the events it goes on to persist and broadcast. Its dictionary is CPython's: a removed key leaves a hole; a new key takes the slot after the last
that was filled, and where the storage has none the keys move to a new one, without the holes; the iterator
remembers a slot, the size it started from and how many keys it has
returned, and `Changed` is the RuntimeError that follows from a difference. `Capacity` says
how large a new storage is. The heartbeat goes through a
snapshot instead, and reads the last pong of a connection when it comes to it.

What is abstracted: a deal carries one number (`mobile`, which the schema
requires); money is in integers (the code's floats are sums of amounts with two decimals,
and the tax is rounded to two); a timestamp is a tick; a header of a sheet is the set
of keywords the mapping rules look for in it; names, wording, risk levels and
health labels are left out. Role checks are taken as passed, except in `Accounts`, which is about them.

In each module, a definition introduced as a *slip* is a plausible mistake in
the operator that follows it. The specification does not use it: putting it in
the operator's place makes the property it is paired with in `PROJECT.json` fail, which is how we know the property depends on that code.

## 3. Runs

| run | instance | shows |
|---|---|---|
| `deal_workflow` | 3 deals, 2 organizations (the default limits, and one that sells at cost), 1 phone, 1 salesperson, 3 quotes, 3 instants; 635,496 states | types, queues, history, director's signature, phones, fraud windows, trash, and the refinement of `ApprovalAuthority` |
| `price_book` | 2 organizations, 5 kinds of sheet, up to 3 uploads, 4 discounts, 3 registration types; 22,432 states | the batch swap, and that the preview is never stricter than the deal |
| `otp` | 2 threads, one email with two phones, 3 codes of either service, a limit of 1 per window, 4 instants; 1,394,270 states up to symmetry | overlapping sends and verifications of both services |
| `accounts` | the administrator and one more account, 2 organizations, 2 threads, 4 branches of 2 names; 260,520 states up to symmetry | tokens and branches keep to their organizations, the administrator stays, head offices are bounded by overlaps |
| `live_updates` | 3 sockets, 1 request with two events, a storage that is full with two keys, fairness; 1,814,186 states | a heartbeat runs while anyone is registered; a broadcast over a dictionary that changes serves nobody twice, and passes over somebody only where the keys have moved to a new storage; a client that vanishes is dropped |
| `audit` | 3 deals of 2 organizations, 5 rows, a failure or a crash at every statement, the hardening script at any time; 46,652 states | entry and change commit together; the newest entry of a deal tells its state; the entries of an organization are one chain |
| `startup` | 2 processes, 2 organizations, 4 databases (empty, and three an earlier version may have left), 2 connects, up to 2 deals of a phone, 2 disruptions; 1,597,229 states | one undisturbed restart repairs the schema; phones stay guarded; branches and administrator are seeded within bounds; every process comes to serve |
| `dashboard` | 2 deals of 2 branches of one organization, 2 scopes, 2 threads, 2 commits, entries that live one tick; 806,302 states | a stale entry is explained by a change that passed it by, and expires |
| `event_stored`, `broadcast_skips`, `hardened`, `phone_index` | the instances above; for `broadcast_skips` 6 sockets, 1 request and CPython's own sizes | statements of the documentation that the code does not keep (section 6) |

Why the bounds are enough. Three deals of one phone are needed for one to be in
the trash while another takes the number and a third meets the daily limit (2
here, in a window of all three instants); the hourly limit (1, in a window of
one instant) closes and opens with every tick. Two organizations
differ in limits so that every routing decision occurs: create_deal sells at
cost, hence only the organization with threshold 0 approves automatically. Three uploads give an
organization an old, a current and a new list, or two organizations lists that could mix.
Two threads are enough for every pairwise race of sends and verifications, three codes
for a limit of one to be exceeded and for a resend to lock two of them.
In `accounts`, one ordinary account is created, toggled, and a caller; the three roles
that can be created differ in nothing the module looks at, and it gets the highest, from which a
check one rank too low would be noticed. The seeded head office and three more branches are what two
overlapping requests need to exceed what two requests may do.
Three sockets are one being sent to, one that leaves and one that comes, which
keeps the size of the table as it was. The request broadcasts twice; what a second request could do under it, dropping
dead connections, the heartbeat does as well, and the proofs are about any number of requests.
With a storage that is full with two keys, the third socket makes the keys move, over the hole of one that left.
CPython's own sizes (5 keys, then 10 or 21, as in 3.11) need six sockets: `broadcast_skips` has them, and
the proofs hold for every size. A pong is late after one interval instead of three:
one round may find it late and the next must.
In `audit`, two deals of one organization tell the newest entry of a deal from that of its organization, and the third
belongs to another; five rows leave room for a deletion and a restoration with rows of other deals and of failed attempts between them.

Two processes are what overlaps in a deployment; the databases are an empty one, the
first tables alone, one with the full constraint on the phone, and one whose later tables lack
columns, so that every migration has something to add in some of them. Two deals of a phone are what the
index forbids. Disruptions (kills, failing statements, failing connects) are bounded together, so
that they end and the start can be asked to succeed after them.
In `dashboard`, one scope sees all branches and one a single branch, and a deal of the other branch is counted by the first only;
organizations do not share entries, and the proof covers any number of them. Two commits are one that a computation falls behind and one that falls into
its eviction; two threads let one entry appear while the keys are listed for another.

Fairness. `LiveUpdates`: weak fairness of each step of the
heartbeat and of each broadcast, because the event loop runs every task that is
ready, the sleep ends, and uvicorn gives up a send whose peer does not answer its own
pings. Nothing is assumed of clients, nor that the endpoint ever learns that one
is gone; `LostRemoved` rests on the heartbeat alone. `Startup`: weak fairness of the steps of a
start, which is sequential code, and of `Start`: the platform starts a process that is down (an
assumption about its surroundings; the repository's code does not restart itself). `Dashboard`:
weak fairness of time, of the threads' computations once begun and of an eviction once begun; nobody has
to ask for a summary. Nothing in the other components is scheduled or retried by the code itself (a
deal waits for a person, a code for its customer), so there is no liveness the
code promises, and their properties are safety properties.

## 4. Proofs

`DealWorkflowProofs`, for every set of deals, phones, organizations and quotes,
every limit and every value of the clock; the assumptions are that quotes are
pricing inputs, each organization has a configuration (`QuotesAssumption`,
`ConfigAssumption`) and the fraud limits and windows are natural numbers.

* `TypeCorrect` is inductive as it stands.
* `WaitingDealsQueued` needs `QueueInv`: it adds that a deal not yet created has no task (otherwise its
  first task could be its second). `DecidedDealsUnqueued` follows from it: the deal was in one queue before it was decided (`LeftTask`, `ApprovalTasks`). Each handler is followed by what
  it does to the queues of its own deal (`QueueStep`) and of the others (unchanged).
* `DirectorSigns` and `OneVerdict` follow from `VerdictInv`, which says
  per deal which verdict events its status allows; `LimitStable` says that being above the
  limit never changes once the deal exists, because neither the discount nor the
  configuration does.
* `Refinement` maps status to verdict and the events to a signature. `Simulates`
  shows that creation is `Submit`, an approval `Sign`, a rejection `Refuse`, and that everything
  else (`Stutters`) leaves the mapped state alone, from the typing and verdict invariants.

* `PhonesApart` is inductive with the types: `PhoneSteps` sums up what a step does to
  phones and trash.
* `FraudLimitsHold` strengthens the limits to `WindowInv`, which also says that no deal is from
  the future; a new deal then adds one to a window that the check found below its limit (`OneMore`).
* `TrashUntouched` follows from the guards of every handler.

`PricingProofs`, for every input and configuration with limits that are not
negative: `CreateRouting` (a deal with any discount goes to the director, one
without is automatic exactly if the threshold allows a sale at cost, so the two
discount limits never decide a deal), `AutoIsDownwardClosed` (a smaller
discount never needs more approval than a larger one that was automatic) and
`PreviewIsLowerBound` (the preview is never stricter than the deal). For any
organizations and sheets: `OneListForSale` and `UploadsSwapWhole`. Neither
`OneActiveBatch` nor the step property is inductive alone. `BatchInv` adds that no row has
the number of an upload still to come, that an active row is of the newest batch
its organization has, and that an organization with rows has an active one; what the
columns of a sheet mean plays no part in it. `PriceListTypes` and `PreviewIsMilder` carry the
lower bound from the engine to the rows that uploads store: `ListInv` says that every stored row
has prices the engine is defined for, from `SheetsAssumption` (a cell of a price column is a
number or blank, which is what `_to_float` returns), `ConfigsAssumption` (limits are not
negative, `seed.py:27`) and `QuotesAssumption`.

`LiveUpdatesProofs`, for any clients, requests and times:

* `HeartbeatAlways`. `HeartbeatRuns` becomes inductive once the states of the task are listed
  (`HeartbeatInv`); the point is that the end of a round decides between sleep and
  end in the same step that removes the last connection.
* `NobodyServedTwice` and `SkipsNeedNewStorage`, for every sequence of storages, by `IteratorInv`. `TableInv` says that keys have slots
  of their own among those ever filled, and that sockets in the table were accepted before, so that a connect can only add a client no broadcast
  has heard of. `TailInv` says of each broadcast that it is `OnCourse`: whoever it has served is behind the iterator, and, while the storage is the one it
  began with, whoever it still owes the event to is ahead of it. The first survives a new storage because there no key is further up than it was
  (`LaidOutSlots`, `Insertion`); the second does not, which is the finding `broadcast_skips`. A removal moves nobody (`Removal`), and the
  iterator goes on to the first key ahead of it (`NextOnCourse`).
* `LiveTypes`: slots, rounds and broadcasts hold clients only, no two keys share a slot, and a table goes with its last key.

`OtpVerificationProofs`, for any threads, customers, times and limits where the older service allows fewer attempts:
`Typed`, `NewestUsable` and `Lasts`. `Steps` carries them: every
step leaves each row its pair, its limit and what has become true of it (`Becomes`), so that
what a request remembers of a row is still worth something when it commits. A resend can only
lock codes it saw, which are older than the one it adds. `OverlapsBounded`, for a finite set of threads (FastAPI's pool),
counts instead: the codes of a window and the requests that have passed the check of the limit and not yet
sent are together at most the limit and all threads but one (`WindowInv`), and every usable code of a pair
can be put down to a thread of its own, because a thread that resends has seen, and is going to lock, the code it is charged with (`UsableInv`).

`AccountsProofs`, for any accounts, organizations, branches and threads: `Typed`,
`OrganizationsApart`, `AdminForever` and `ToggledFromInside`. The invariant `IInv` adds to
them what a request decided before its commit (`RequestOK`) and that this
stays true while others commit (`StillOK`), because no step changes the role,
organization or branch of an account, nor a branch (`Kept`, `Grown`). The administrator
cannot be switched off because the caller of a toggle is the only administrator and spares itself.
`OverlapsAddOnePerThread`, for a finite set of threads, rests on `CountInv`: the head offices
of an organization and the threads about to commit another are together no more than there are threads.

`AuditChainProofs`, for any deals and organizations and any number of rows: `ChainUnbroken`, `LogTells`, `AuditTypes` and `EntryAndChange`. Neither
the chain nor what the log tells is inductive: at a commit both depend on what the transaction read some statements before. `AuditInv` adds that
this still holds (`Fresh`: the deal is in the state that was found, and the row about to commit is linked to the newest committed row of its
organization), and that the only row without a hash is the newest and belongs to the transaction under way (`Waiting`), so that
a rollback leaves the log as it was. Every step but a commit leaves the committed rows alone (`SameLog`); a commit adds one
entry, at the end (`OneMore`), and the newest before it is the one it is linked to (`CommitChain`, `CommitTells`).

`StartupProofs`, for any processes, organizations, earlier databases and bounds:

* `PhoneGuardKept` (the exchange is one transaction), `AdminInOwnOffice` (from `PlaceInv`, what a process remembers between a look and a
  commit) and `OneRestartRepairs`: `SchemaInv` says which tables a database that is not empty has, no step loses an object but the full constraint (`Grows`),
  and `CleanInv` says that a start nothing disturbed is the only one and has the objects of all the migrations behind it.
* `OneLotPerProcess`, for a finite set of processes. `LotsInv`: the lots and the processes about to add one are together no more than
  the processes, because whoever is about to add found none: each accounts for one lot, the one it added or the one it is about to.
* `StartupTypes` needs `UnitInv`: on an empty database no process is past the first migration, which fails there and ends them all,
  and a process about to carry out a statement has the table it is about. `Explicit` spells the shape of a database out without its column sets.

`DashboardProofs`, for any deals, organizations, branches, scopes, threads and times: `ServedIsRight`. `RightInv` says of
every computation (`FillRight`) and every entry (`EntryRight`) that it is right unless something passed it by; a
summary of one organization does not depend on the deals of another (`SameCounts`), and whatever lists all
keys of the organization after its commit has listed every entry that the commit made stale (`RowsChange`, `EvictsOrAges`).
`DashboardTypes` adds that a deal that waits is in exactly one queue, and that the counts are those of a finite set of deals.

What the proofs assume of the constants is named where the constants are declared and evaluated by every run: besides the above, that
limits, times and bounds are natural numbers; that processes, threads and deals are finitely many, and the first two not none; that the
databases found at the start are of a shape earlier versions left; that a new storage of a dictionary has room for one more key (`CapacityAssumption`); and that values which stand for "nobody" are not somebody.

Model-checked only: `LostRemoved`, `EventuallyServes` and `EventuallyFresh`, because liveness under fairness is beyond the proof system; and what
`map_columns` makes of each sheet, a fold over the header rules, about which a general statement is an induction over data. The proofs about
the price list take any mapping that `SheetsAssumption` allows.

## 5. Not modelled, and the plan

In this order:

1. The legacy verification by SMS (`verification_service.py`), which keeps tables of its own and which no deal handler reads. Its `verify_otp` compares a time with a zone to a column without (line 190, `models.py:357`), so every check of an existing code ends in an error and what follows it cannot be reached.
2. The spelling of email addresses in `Accounts`, and the branch of a deal.
3. Proofs: abstract specifications of a verified phone and of a price list, refined by `OtpVerification` and `PriceBook`.

Of the live updates, marking notifications as read and the lists over them are left out, and so is a
database error while a notification is stored; organizations have tables of their own, so one is enough.

Not planned: email delivery, request schemas, middleware and backup scripts (input and output without state of their own).

## 6. Where code and documentation disagree

| run | the code | the text |
|---|---|---|
| `event_stored` | a client that comes or goes during a broadcast ends the request with a RuntimeError after its commit; its later events are not stored | `notification_service.py:6`: persists to the notifications table; `deal_service.py:342`: fire notification |
| `broadcast_skips` | when clients leave during a broadcast and as many connect, one of which makes the dictionary move to a new storage, the iterator goes on behind keys it has not yielded: these clients are skipped and nothing is raised | `websocket_manager.py:114`: push an event to all connected clients for a given org |
| `hardened` | the trigger refuses every UPDATE of audit_logs, and every deletion and restoration of a deal ends with one (`audit_service.py:147`): on a hardened database none of them commits | `db_hardening.sql:12`: use soft-delete; `routes/deals.py:279`: never removed, recoverable by restore |
| `phone_index` | the migrations run before the tables are created and stop at the first error: the first start on an empty database serves without the partial unique index on phones | `models.py:152`: enforced at DB level via migration |

More were seen while modelling and are only described here.

* The rule for five years of insurance also matches a header for fifteen (`excel_ingestion.py:324`).
* A loss deal that waits for the director is approved by a GM when its discount is within the director limit: `approve_gm`
  looks at the discount only (`deal_service.py:538`), while `profit_guard.py:9` sends a loss to the director.
* The director's approval repeats the fraud check, which counts the deal itself: the last deal a window allows is
  refused until the window has passed (`deal_service.py:576`, `verification_service.py:349`).
* Two sends of a code that overlap leave two usable codes (`otp_service_secure.py:263` says this is prevented); `OverlapBounded` says how many.
* A deal approved by the director while it waits for the GM keeps its GM task, and the other way round, for ever: the task
  lists look at the task only (`task_service.py:50`), and so does the dashboard.
* Duplicates made while the phone index is missing let `CREATE UNIQUE INDEX` fail at every later start, and with it the
  migrations after it (`database_migrations.py:231`, `296`).
* A start that goes on after a kill may put the branches into one organization and the administrator, without a branch,
  into another, because `first()` has no order (`seed.py:88`, `111`).
* `create_deal` prices every deal ex showroom and never calls `_resolve_base_price`
  (`deal_service.py:404`), although its docstring (line 337) has a step for it.
* `_require_admin` compares the caller's role, a member of an IntEnum (`auth.py:41`), with the string "ADMIN" (`routes/admin.py:37`): every
  endpoint of that file answers 403 to everybody, although it is for administrators (line 2). Nothing can be restored in bulk, and the chain cannot be verified.
* Were it not for that, `verify_chain` would report every row: the hash is made with the offset of `created_at` and checked without it, because
  the column has no zone (`audit_service.py:88`, `models.py:309`), while `routes/admin.py:147` says that a reported row was modified after being written.
* `check-phone` reports a code locked by a resend as a verified phone (`otp_service_secure.py:425`).
* The older verifications compare a time without a zone with one that has one (`email_otp_service.py:215`, and by SMS `verification_service.py:190`)
  and answer every existing code with an error; the codes sent by email can be used with the newer verification.
* `login` looks an address up in lower case and `create_user` stores it as given
  (`routes/auth.py:60`, `170`): an account created with a capital before the @ cannot log in.
* A deal created after a switch of organization gets the branch of the
  administrator's own organization (`deal_service.py:434`).
